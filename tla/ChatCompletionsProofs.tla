----------------------- MODULE ChatCompletionsProofs -----------------------
(***************************************************************************)
(* For any number of calls, keys and rotations, any limits and any stream: *)
(* the guards let through and refuse what they should, the client is told  *)
(* what became of its call, and the log tells what came.                   *)
(***************************************************************************)
EXTENDS ChatCompletions, FiniteSetTheorems, TLAPS

Kinds == {"rpm", "tpm"}
Before == {"idle", "key", "guards"}
Silent == Before \cup {"budget", "connect", "reply", "head"}
Connected == {"reply", "head", "stream"}

Statuses == {0, 200} \cup 400..599
Endings == {"none", "unknown", "model", "rpm", "tpm", "budget", "unconfigured", "upstream",
            "cancelled", "served", "unlogged"}
Happening == [is : {"chunk", "skipped", "broken", "unreadable", "[DONE]", "error"},
              bears : SUBSET {"finish", "usage"}, status : Nat]
LogRow == [status : {"completed", "partial"}, usage : Nat]

Acts(c) == Authenticate(c) \/ Run(c) \/ Disconnect(c)

(***************************************************************************)
(* Types, and what is known of a call at each step.                        *)
(***************************************************************************)
GuardTypes ==
  /\ now \in 0..MaxTime /\ hash \in [Keys -> 1..MaxHash] /\ live \subseteq Keys
  /\ ask \in [Calls -> Asks]
  /\ windows \in [WindowIds -> SUBSET [ts : 0..MaxTime, inc : Nat, id : Calls]]
  /\ spent \in [Keys \X (1..MaxHash) -> Nat]
  /\ seen \in [Calls -> 0..MaxHash] /\ key \in [Calls -> 0..MaxHash]
  /\ at \in [Calls -> 0..MaxTime] /\ slots \in [Calls -> SUBSET Kinds]

CallTypes ==
  /\ pc \in [Calls -> Silent \cup {"stream", "log", "done"}]
  /\ conns \in [Providers -> SUBSET Calls]
  /\ finish \in [Calls -> BOOLEAN] /\ usage \in [Calls -> Nat]
  /\ came \in [Calls -> Seq(Happening)] /\ sent \in [Calls -> Seq(Happening)]
  /\ answer \in [Calls -> Statuses \X Endings]
  /\ logs \in [Calls -> Seq(LogRow)]
  /\ gone \subseteq Calls

Stage(c) ==
  /\ pc[c] \in Silent =>
       came[c] = <<>> /\ sent[c] = <<>> /\ finish[c] = FALSE /\ usage[c] = 0
  /\ pc[c] # "done" => logs[c] = <<>> /\ answer[c] = <<0, "none">>
  /\ pc[c] \in Before => slots[c] = {}
  /\ pc[c] \in {"idle", "key"} => key[c] = NoKey
  /\ pc[c] = "key" => ~Jwt(c)
  /\ Jwt(c) => key[c] = NoKey
  /\ pc[c] = "budget" => Guarded(c)
  /\ pc[c] = "reply" => ~ask[c].stream
  /\ pc[c] \in {"head", "stream"} => ask[c].stream
  /\ pc[c] = "stream" => Len(came[c]) <= MaxChunks /\ Len(sent[c]) <= Len(came[c])
  /\ Len(came[c]) <= MaxChunks + 1 /\ Len(sent[c]) <= MaxChunks + 2

\* A stream whose post_stream is left suspended.
Suspended(c) ==
  /\ ask[c].stream /\ came[c] # <<>>
  /\ Last(came[c]) = Unreadable \/ (c \in gone /\ Last(came[c]).is = "chunk")

ConnsInv ==
  \A p \in Providers :
    /\ IsFiniteSet(conns[p]) /\ Cardinality(conns[p]) <= MaxConns
    /\ \A c \in conns[p] : Provider(c) = p /\ (pc[c] \in Connected \/ Suspended(c))
    /\ \A c \in Calls : Provider(c) = p /\ pc[c] \in Connected => c \in conns[p]

TInv == GuardTypes /\ CallTypes /\ (\A c \in Calls : Stage(c)) /\ ConnsInv
-----------------------------------------------------------------------------
(***************************************************************************)
(* Types.                                                                  *)
(***************************************************************************)
LEMMA Bounds ==
  /\ Window \in Nat \ {0} /\ MaxTime \in Nat /\ MaxHash \in Nat \ {0} /\ MaxChunks \in Nat
  /\ MaxConns \in Nat \ {0} /\ Errors \subseteq 400..599 /\ Asks \subseteq Ask
  BY ChatAssumption

LEMMA AskFields ==
  ASSUME GuardTypes, NEW c \in Calls
  PROVE  /\ ask[c].key \in Keys \cup {Unset} /\ ask[c].admin \in BOOLEAN
         /\ Provider(c) \in Providers /\ ask[c].tokens \in Nat \ {0}
         /\ ask[c].price \in Nat /\ ask[c].stream \in BOOLEAN
  <1>1. ask[c] \in Ask
    BY Bounds DEF GuardTypes
  <1>2. QED
    BY <1>1 DEF Ask, Provider

LEMMA EventTypes ==
  /\ Break \in Happening /\ Unreadable \in Happening
  /\ Done \in Happening /\ Skipped \in Happening
  /\ \A p \in Providers : Chunks(p) \subseteq Happening /\ Replies(p) \subseteq Happening
  /\ \A p \in Providers, status \in Errors :
       /\ HttpStatus(ErrorClass(p, status)) \in 400..599
       /\ Error(status) \in Happening /\ Error(HttpStatus(ErrorClass(p, status))) \in Happening
  <1>2. \A class : HttpStatus(class) \in 400..599
    BY DEF HttpStatus
  <1>3. 400..599 \subseteq Nat /\ Errors \subseteq Nat
    BY Bounds
  <1>4. \A bears \in SUBSET {"finish", "usage"} : Chunk(bears) \in Happening
    BY DEF Chunk, Event, Happening
  <1>5. \A p \in Providers : Chunks(p) \subseteq Happening
    BY <1>4 DEF Chunks, OpenAIChunks, AnthropicChunks
  <1>6. \A p \in Providers : Replies(p) \subseteq Happening
    BY <1>4 DEF Replies, OpenAIReplies, AnthropicReplies
  <1>7. \A status \in Nat : Error(status) \in Happening
    BY DEF Error, Event, Happening
  <1>8. /\ Break \in Happening /\ Unreadable \in Happening
        /\ Done \in Happening /\ Skipped \in Happening
    BY DEF Break, Unreadable, Done, Skipped, Event, Happening
  <1>9. QED
    BY <1>2, <1>3, <1>5, <1>6, <1>7, <1>8

\* A call changes nothing that belongs to another.
Untouched(d) ==
  /\ pc'[d] = pc[d] /\ seen'[d] = seen[d] /\ key'[d] = key[d]
  /\ finish'[d] = finish[d] /\ usage'[d] = usage[d] /\ sent'[d] = sent[d] /\ came'[d] = came[d]
  /\ answer'[d] = answer[d] /\ logs'[d] = logs[d] /\ at'[d] = at[d] /\ slots'[d] = slots[d]

LEMMA Domains ==
  ASSUME TInv
  PROVE  /\ pc = [d \in Calls |-> pc[d]] /\ seen = [d \in Calls |-> seen[d]]
         /\ key = [d \in Calls |-> key[d]] /\ finish = [d \in Calls |-> finish[d]]
         /\ usage = [d \in Calls |-> usage[d]] /\ sent = [d \in Calls |-> sent[d]]
         /\ came = [d \in Calls |-> came[d]] /\ answer = [d \in Calls |-> answer[d]]
         /\ logs = [d \in Calls |-> logs[d]] /\ at = [d \in Calls |-> at[d]]
         /\ slots = [d \in Calls |-> slots[d]]
  BY DEF TInv, GuardTypes, CallTypes

LEMMA Frame ==
  ASSUME TInv, NEW c \in Calls, Acts(c), NEW d \in Calls, d # c
  PROVE  Untouched(d)
  <1> USE Domains DEF Untouched, Go, Answer, streaming, guarding
  <1>1. CASE Authenticate(c)
    BY <1>1 DEF Authenticate
  <1>2. CASE LoadKey(c)
    BY <1>2 DEF LoadKey
  <1>3. CASE Guard(c)
    BY <1>3 DEF Guard, Dispatch, SendRequest, CheckRateLimit
  <1>4. CASE CheckBudget(c)
    BY <1>4 DEF CheckBudget, Dispatch, SendRequest
  <1>5. CASE Connect(c)
    BY <1>5 DEF Connect
  <1>6. CASE PoolTimeout(c)
    BY <1>6 DEF PoolTimeout, Broken
  <1>7. CASE Reply(c)
    BY <1>7 DEF Reply, Refused, Broken
  <1>8. CASE StatusLine(c)
    BY <1>8 DEF StatusLine, Refused, Broken
  <1>9. CASE NextChunk(c)
    BY <1>9 DEF NextChunk, Forward, Skip
  <1>10. CASE Finish(c)
    BY <1>10 DEF Finish, EndOfStream, Broken, Untransformed
  <1>11. CASE Log(c)
    BY <1>11 DEF Log
  <1>12. CASE LogFails(c)
    BY <1>12 DEF LogFails
  <1>13. CASE Disconnect(c)
    BY <1>13 DEF Disconnect
  <1>14. QED
    BY <1>1, <1>2, <1>3, <1>4, <1>5, <1>6, <1>7, <1>8, <1>9, <1>10, <1>11, <1>12, <1>13
       DEF Acts, Run

LEMMA AskStays == ASSUME [Next]_vars PROVE ask' = ask
  BY DEF Next, vars, Run, Authenticate, LoadKey, Guard, CheckBudget, Connect, PoolTimeout, Reply,
         StatusLine, NextChunk, Finish, Log, LogFails, Disconnect, Collect, Tick, RotateKey,
         DeleteKey

\* The parts of a step keep the types of what they write.
Steps == Silent \cup {"stream", "log", "done"}

LEMMA GoTypes ==
  ASSUME CallTypes, NEW c \in Calls, NEW step \in Steps, Go(c, step)
  PROVE  pc' \in [Calls -> Steps]
  BY DEF CallTypes, Go, Steps

LEMMA AnswerTypes ==
  ASSUME CallTypes, NEW c \in Calls, NEW status \in Statuses, NEW why \in Endings,
         Answer(c, status, why)
  PROVE  pc' \in [Calls -> Steps] /\ answer' \in [Calls -> Statuses \X Endings]
  <1>1. "done" \in Steps
    BY DEF Steps
  <1>2. <<status, why>> \in Statuses \X Endings
    OBVIOUS
  <1> HIDE DEF Steps
  <1>3. QED
    BY <1>1, <1>2, GoTypes DEF Answer, CallTypes

LEMMA StepNames ==
  /\ "guards" \in Steps /\ "key" \in Steps /\ "budget" \in Steps /\ "connect" \in Steps
  /\ "reply" \in Steps /\ "head" \in Steps /\ "stream" \in Steps /\ "log" \in Steps
  BY DEF Steps, Silent, Before

LEMMA StatusNames ==
  /\ 200 \in Statuses /\ 401 \in Statuses /\ 403 \in Statuses /\ 429 \in Statuses
  /\ 500 \in Statuses /\ 503 \in Statuses /\ 400..599 \subseteq Statuses
  /\ "unknown" \in Endings /\ "model" \in Endings /\ "rpm" \in Endings /\ "tpm" \in Endings
  /\ "budget" \in Endings /\ "unconfigured" \in Endings /\ "upstream" \in Endings
  /\ "cancelled" \in Endings /\ "served" \in Endings /\ "unlogged" \in Endings
  BY DEF Statuses, Endings

\* What each way to go on means for the types.
Goes(c, step) == Go(c, step) => pc' \in [Calls -> Steps]
Answers(c, status, why) ==
  Answer(c, status, why) =>
    pc' \in [Calls -> Steps] /\ answer' \in [Calls -> Statuses \X Endings]

LEMMA Moves ==
  ASSUME CallTypes, NEW c \in Calls
  PROVE  /\ Goes(c, "guards") /\ Goes(c, "key") /\ Goes(c, "budget") /\ Goes(c, "connect")
         /\ Goes(c, "reply") /\ Goes(c, "head") /\ Goes(c, "stream") /\ Goes(c, "log")
         /\ Answers(c, 401, "unknown") /\ Answers(c, 403, "model")
         /\ Answers(c, 429, "rpm") /\ Answers(c, 429, "tpm") /\ Answers(c, 429, "budget")
         /\ Answers(c, 503, "unconfigured") /\ Answers(c, 500, "upstream")
         /\ Answers(c, 200, "cancelled") /\ Answers(c, 200, "served")
         /\ Answers(c, 200, "unlogged") /\ Answers(c, 500, "unlogged")
         /\ \A status \in 400..599 : Answers(c, status, "upstream")
  <1>1. \A step \in Steps : Goes(c, step)
    BY GoTypes DEF Goes
  <1>2. \A status \in Statuses, why \in Endings : Answers(c, status, why)
    BY AnswerTypes DEF Answers
  <1>3. QED
    BY <1>1, <1>2, StepNames, StatusNames

LEMMA DispatchTypes ==
  ASSUME CallTypes, NEW c \in Calls, Dispatch(c)
  PROVE  pc' \in [Calls -> Steps] /\ answer' \in [Calls -> Statuses \X Endings]
  BY Moves DEF Goes, Answers, Dispatch, SendRequest, CallTypes

LEMMA DisconnectedTypes ==
  ASSUME CallTypes, NEW c \in Calls, Disconnected(c)
  PROVE  conns' \in [Providers -> SUBSET Calls]
  <1> DEFINE p == Provider(c)
  <1> HIDE DEF p
  <1>1. conns' = [conns EXCEPT ![p] = @ \ {c}] /\ conns \in [Providers -> SUBSET Calls]
    BY DEF Disconnected, CallTypes, p
  <1>2. QED
    BY <1>1

LEMMA EndTypes ==
  ASSUME GuardTypes, CallTypes, NEW c \in Calls
  PROVE  /\ Broken(c) => /\ pc' \in [Calls -> Steps] /\ answer' \in [Calls -> Statuses \X Endings]
                         /\ conns' \in [Providers -> SUBSET Calls]
                         /\ came' \in [Calls -> Seq(Happening)]
         /\ \A status \in Errors : Refused(c, status) =>
              /\ pc' \in [Calls -> Steps] /\ answer' \in [Calls -> Statuses \X Endings]
              /\ conns' \in [Providers -> SUBSET Calls]
              /\ came' \in [Calls -> Seq(Happening)] /\ sent' \in [Calls -> Seq(Happening)]
  <1>1. Provider(c) \in Providers
    BY AskFields
  <1>2. Disconnected(c) => conns' \in [Providers -> SUBSET Calls]
    BY DisconnectedTypes
  <1>3. ASSUME Broken(c)
        PROVE  /\ pc' \in [Calls -> Steps] /\ answer' \in [Calls -> Statuses \X Endings]
               /\ conns' \in [Providers -> SUBSET Calls]
               /\ came' \in [Calls -> Seq(Happening)]
    <2>1. came' \in [Calls -> Seq(Happening)]
      BY <1>3, EventTypes DEF Broken, CallTypes
    <2>2. pc' \in [Calls -> Steps] /\ answer' \in [Calls -> Statuses \X Endings]
      BY <1>3, Moves DEF Goes, Answers, Broken, CallTypes
    <2>3. QED
      BY <1>2, <1>3, <2>1, <2>2 DEF Broken
  <1>4. ASSUME NEW status \in Errors, Refused(c, status)
        PROVE  /\ pc' \in [Calls -> Steps] /\ answer' \in [Calls -> Statuses \X Endings]
               /\ conns' \in [Providers -> SUBSET Calls]
               /\ came' \in [Calls -> Seq(Happening)] /\ sent' \in [Calls -> Seq(Happening)]
    <2> DEFINE told == HttpStatus(ErrorClass(Provider(c), status))
    <2>1. /\ Error(status) \in Happening /\ Error(told) \in Happening /\ Done \in Happening
          /\ told \in 400..599
      BY <1>1, EventTypes, StatusNames
    <2> HIDE DEF told
    <2>2. /\ came' = [came EXCEPT ![c] = <<Error(status)>>] /\ Disconnected(c)
          /\ \/ /\ sent' = [sent EXCEPT ![c] = <<Error(told), Done>>]
                /\ Go(c, "log") /\ answer' = answer
             \/ Answer(c, told, "upstream") /\ sent' = sent
      BY <1>4 DEF Refused, told
    <2>a. <<Error(status)>> \in Seq(Happening) /\ <<Error(told), Done>> \in Seq(Happening)
      BY <2>1
    <2>b. came' \in [Calls -> Seq(Happening)]
      BY <2>2, <2>a DEF CallTypes
    <2>c. sent' = [sent EXCEPT ![c] = <<Error(told), Done>>] \/ sent' = sent
      BY <2>2
    <2>3. came' \in [Calls -> Seq(Happening)] /\ sent' \in [Calls -> Seq(Happening)]
      BY <2>a, <2>b, <2>c DEF CallTypes
    <2>4. pc' \in [Calls -> Steps] /\ answer' \in [Calls -> Statuses \X Endings]
      <3>1. Answers(c, told, "upstream") /\ Goes(c, "log")
        BY <2>1, Moves
      <3>2. answer \in [Calls -> Statuses \X Endings]
        BY DEF CallTypes
      <3>3. QED
        BY <2>2, <3>1, <3>2 DEF Goes, Answers
    <2>5. QED
      BY <1>2, <2>2, <2>3, <2>4
  <1>5. QED
    BY <1>3, <1>4

LEMMA CheckTypes ==
  ASSUME GuardTypes, CallTypes, NEW c \in Calls, key[c] # NoKey, ask[c].key \in Keys,
         CheckRateLimit(c)
  PROVE  /\ windows' \in [WindowIds -> SUBSET [ts : 0..MaxTime, inc : Nat, id : Calls]]
         /\ slots' \in [Calls -> SUBSET Kinds]
         /\ pc' \in [Calls -> Steps] /\ answer' \in [Calls -> Statuses \X Endings]
  <1>1. ASSUME NEW checked, NEW granting
        PROVE  Checked(c, checked, granting)
                 \in [WindowIds -> SUBSET [ts : 0..MaxTime, inc : Nat, id : Calls]]
    <2>1. \A window \in Kinds : Increment(c, window) \in Nat
      BY AskFields DEF Increment
    <2>2. \A window \in Kinds : [ts |-> now, inc |-> Increment(c, window), id |-> c]
                                  \in [ts : 0..MaxTime, inc : Nat, id : Calls]
      BY <2>1 DEF GuardTypes
    <2>3. \A window \in Kinds : Id(c, window) \in WindowIds
      BY DEF Id, WindowIds, Kinds, NoKey, GuardTypes
    <2>4. \A window \in Kinds : Entries(c, window) \subseteq windows[Id(c, window)]
      BY DEF Entries, Limiter!Pruned
    <2>5. \A w \in WindowIds : w[1] \in Kinds
      BY DEF WindowIds, Kinds
    <2>6. \A w \in WindowIds :
            Entries(c, w[1]) \subseteq [ts : 0..MaxTime, inc : Nat, id : Calls]
      BY <2>3, <2>4, <2>5 DEF GuardTypes
    <2>7. QED
      BY <2>2, <2>5, <2>6 DEF Checked, GuardTypes
  <1>2. /\ \E checked, granting : windows' = Checked(c, checked, granting)
        /\ slots' = slots \/ \E S \in SUBSET Kinds : slots' = [slots EXCEPT ![c] = S]
        /\ \/ Answer(c, 429, "rpm") \/ Answer(c, 429, "tpm")
           \/ Go(c, "budget") /\ UNCHANGED answer
    BY DEF CheckRateLimit, Kinds
  <1>3. slots' \in [Calls -> SUBSET Kinds]
    BY <1>2 DEF GuardTypes
  <1>4. pc' \in [Calls -> Steps] /\ answer' \in [Calls -> Statuses \X Endings]
    BY <1>2, Moves DEF Goes, Answers, CallTypes
  <1>5. QED
    BY <1>1, <1>2, <1>3, <1>4

LEMMA TypesStep ==
  ASSUME TInv, NEW c \in Calls, Acts(c)
  PROVE  GuardTypes' /\ CallTypes'
  <1>0. Stage(c) /\ GuardTypes /\ CallTypes
    BY DEF TInv
  <1>a. ask[c].key \in Keys \cup {Unset} /\ Provider(c) \in Providers /\ ask[c].price \in Nat
    BY <1>0, AskFields
  <1>b. CallTypes' <=> /\ pc' \in [Calls -> Steps]
                       /\ conns' \in [Providers -> SUBSET Calls]
                       /\ finish' \in [Calls -> BOOLEAN] /\ usage' \in [Calls -> Nat]
                       /\ came' \in [Calls -> Seq(Happening)] /\ sent' \in [Calls -> Seq(Happening)]
                       /\ answer' \in [Calls -> Statuses \X Endings]
                       /\ logs' \in [Calls -> Seq(LogRow)]
                       /\ gone' \subseteq Calls
    BY DEF CallTypes, Steps
  <1> DEFINE Rest == /\ finish' = finish /\ usage' = usage /\ came' = came /\ sent' = sent
                     /\ logs' = logs /\ gone' = gone
  <1>c. Rest /\ conns' = conns => (CallTypes' <=> pc' \in [Calls -> Steps]
                                               /\ answer' \in [Calls -> Statuses \X Endings])
    BY <1>0, <1>b DEF CallTypes
  <1>1. CASE Authenticate(c)
    <2>a. seen' = seen \/ \E h \in 1..MaxHash : seen' = [seen EXCEPT ![c] = h]
      <3>1. ~Jwt(c) => hash[ask[c].key] \in 1..MaxHash /\ MaxHash \in Nat
        BY <1>0, <1>a, Bounds DEF GuardTypes, Jwt
      <3>2. ~Jwt(c) => \A h \in 1..hash[ask[c].key] : h \in 1..MaxHash
        BY <3>1
      <3>3. QED
        BY <1>1, <3>2 DEF Authenticate
    <2>b. \A h \in 1..MaxHash : h \in 0..MaxHash
      BY Bounds
    <2>1. GuardTypes'
      BY <1>0, <1>1, <2>a, <2>b DEF Authenticate, GuardTypes, guarding
    <2>2. pc' \in [Calls -> Steps] /\ answer' \in [Calls -> Statuses \X Endings]
      <3>1. \/ Answer(c, 401, "unknown")
            \/ Go(c, "guards") /\ answer' = answer
            \/ Go(c, "key") /\ answer' = answer
        BY <1>1 DEF Authenticate
      <3>2. answer \in [Calls -> Statuses \X Endings]
        BY <1>0 DEF CallTypes
      <3>3. QED
        BY <1>0, <3>1, <3>2, Moves DEF Goes, Answers
    <2>3. QED
      BY <1>1, <1>c, <2>1, <2>2 DEF Authenticate, streaming
  <1>2. CASE LoadKey(c)
    <2>1. ask[c].key \in Keys
      BY <1>0, <1>2, <1>a DEF LoadKey, Stage, Jwt
    <2>a. PICK h : /\ key' = [key EXCEPT ![c] = h]
                   /\ \/ h \in {seen[c], seen[c] + 1} /\ h <= hash[ask[c].key]
                      \/ h = NoKey
      BY <1>2 DEF LoadKey
    <2>b. h \in 0..MaxHash
      <3>1. hash[ask[c].key] \in 1..MaxHash /\ seen[c] \in 0..MaxHash /\ MaxHash \in Nat
        BY <1>0, <2>1, Bounds DEF GuardTypes
      <3>2. QED
        BY <2>a, <3>1 DEF NoKey
    <2>2. GuardTypes'
      BY <1>0, <1>2, <2>a, <2>b DEF LoadKey, GuardTypes, guarding
    <2>3. pc' \in [Calls -> Steps] /\ answer' \in [Calls -> Statuses \X Endings]
      BY <1>0, <1>2, Moves DEF Goes, LoadKey, CallTypes
    <2>4. QED
      BY <1>2, <1>c, <2>2, <2>3 DEF LoadKey, streaming
  <1>3. CASE Guard(c)
    <2>1. CASE ~Guarded(c)
      <3>1. GuardTypes'
        BY <1>0, <1>3, <2>1 DEF Guard, GuardTypes
      <3>2. pc' \in [Calls -> Steps] /\ answer' \in [Calls -> Statuses \X Endings]
        BY <1>0, <1>3, <2>1, DispatchTypes DEF Guard
      <3>3. QED
        BY <1>3, <1>c, <3>1, <3>2 DEF Guard, streaming
    <2>2. CASE Guarded(c) /\ CheckRateLimit(c)
      <3>1. key[c] # NoKey /\ ask[c].key \in Keys
        BY <1>0, <1>a, <2>2 DEF Guarded, Stage, Jwt
      <3>2. /\ windows' \in [WindowIds -> SUBSET [ts : 0..MaxTime, inc : Nat, id : Calls]]
            /\ slots' \in [Calls -> SUBSET Kinds]
            /\ pc' \in [Calls -> Steps] /\ answer' \in [Calls -> Statuses \X Endings]
        BY <1>0, <2>2, <3>1, CheckTypes
      <3>3. GuardTypes'
        BY <1>0, <1>3, <2>2, <3>2 DEF Guard, GuardTypes
      <3>4. QED
        BY <1>3, <1>c, <3>2, <3>3 DEF Guard, streaming
    <2>3. CASE Guarded(c) /\ Answer(c, 403, "model") /\ UNCHANGED <<windows, slots>>
      <3>1. GuardTypes'
        BY <1>0, <1>3, <2>3 DEF Guard, GuardTypes
      <3>2. pc' \in [Calls -> Steps] /\ answer' \in [Calls -> Statuses \X Endings]
        BY <1>0, <2>3, Moves DEF Answers
      <3>3. QED
        BY <1>3, <1>c, <3>1, <3>2 DEF Guard, streaming
    <2>4. QED
      BY <1>3, <2>1, <2>2, <2>3 DEF Guard
  <1>4. CASE CheckBudget(c)
    <2>1. GuardTypes'
      BY <1>0, <1>4 DEF CheckBudget, GuardTypes, guarding
    <2>2. pc' \in [Calls -> Steps] /\ answer' \in [Calls -> Statuses \X Endings]
      BY <1>0, <1>4, Moves, DispatchTypes DEF Answers, CheckBudget
    <2>3. QED
      BY <1>4, <1>c, <2>1, <2>2 DEF CheckBudget, streaming
  <1>5. CASE Connect(c)
    <2>1. GuardTypes'
      BY <1>0, <1>5 DEF Connect, GuardTypes, guarding
    <2>2. pc' \in [Calls -> Steps]
      BY <1>0, <1>5, Moves DEF Goes, Connect
    <2>3. conns' \in [Providers -> SUBSET Calls]
      BY <1>0, <1>5, <1>a DEF Connect, CallTypes
    <2>4. QED
      BY <1>0, <1>5, <1>b, <2>1, <2>2, <2>3 DEF Connect, streaming, CallTypes
  <1>6. CASE PoolTimeout(c)
    <2>1. GuardTypes'
      BY <1>0, <1>6 DEF PoolTimeout, GuardTypes, guarding
    <2>2. QED
      BY <1>0, <1>6, <1>b, <2>1, EndTypes DEF PoolTimeout, Broken, CallTypes
  <1>7. CASE Reply(c)
    <2>1. GuardTypes'
      BY <1>0, <1>7 DEF Reply, GuardTypes, guarding
    <2>2. CASE Broken(c)
      BY <1>0, <1>7, <1>b, <2>1, <2>2, EndTypes DEF Reply, Broken, CallTypes
    <2>3. ASSUME NEW status \in Errors, Refused(c, status)
          PROVE  CallTypes'
      BY <1>0, <1>7, <1>b, <2>3, EndTypes DEF Reply, Refused, CallTypes
    <2>4. ASSUME NEW reply \in Replies(Provider(c)),
                 came' = [came EXCEPT ![c] = <<reply>>],
                 usage' = [usage EXCEPT ![c] = IF "usage" \in reply.bears THEN 1 ELSE 0],
                 finish' = [finish EXCEPT ![c] = TRUE],
                 Disconnected(c), Go(c, "log"), UNCHANGED <<sent, answer>>
          PROVE  CallTypes'
      <3>1. reply \in Happening
        BY <1>a, EventTypes
      <3>2. came' \in [Calls -> Seq(Happening)]
        BY <1>0, <2>4, <3>1 DEF CallTypes
      <3>3. pc' \in [Calls -> Steps]
        BY <1>0, <2>4, Moves DEF Goes
      <3>4. conns' \in [Providers -> SUBSET Calls]
        BY <1>0, <2>4, DisconnectedTypes
      <3>5. QED
        BY <1>0, <1>7, <1>b, <2>4, <3>2, <3>3, <3>4 DEF Reply, CallTypes
    <2>5. QED
      BY <1>7, <2>1, <2>2, <2>3, <2>4 DEF Reply
  <1>8. CASE StatusLine(c)
    <2>1. GuardTypes'
      BY <1>0, <1>8 DEF StatusLine, GuardTypes, guarding
    <2>2. CASE Broken(c)
      BY <1>0, <1>8, <1>b, <2>1, <2>2, EndTypes DEF StatusLine, Broken, CallTypes
    <2>3. ASSUME NEW status \in Errors, Refused(c, status)
          PROVE  CallTypes'
      BY <1>0, <1>8, <1>b, <2>3, EndTypes DEF StatusLine, Refused, CallTypes
    <2>4. CASE Go(c, "stream") /\ UNCHANGED <<conns, streaming, answer>>
      <3>1. pc' \in [Calls -> Steps]
        BY <1>0, <2>4, Moves DEF Goes
      <3>2. Rest /\ conns' = conns /\ answer' = answer
        BY <1>8, <2>4 DEF StatusLine, streaming
      <3>3. answer' \in [Calls -> Statuses \X Endings]
        BY <1>0, <3>2 DEF CallTypes
      <3>4. QED
        BY <1>c, <2>1, <3>1, <3>2, <3>3
    <2>5. QED
      BY <1>8, <2>1, <2>2, <2>3, <2>4 DEF StatusLine
  <1>9. CASE NextChunk(c)
    <2>1. GuardTypes'
      BY <1>0, <1>9 DEF NextChunk, GuardTypes, guarding
    <2>2. ASSUME NEW chunk \in Chunks(Provider(c)), Forward(c, chunk)
          PROVE  CallTypes'
      <3>1. chunk \in Happening
        BY <1>a, EventTypes
      <3>2. came' \in [Calls -> Seq(Happening)] /\ sent' \in [Calls -> Seq(Happening)]
        BY <1>0, <2>2, <3>1 DEF Forward, CallTypes
      <3>3. Len(came'[c]) \in Nat
        BY <3>2
      <3>4. usage' \in [Calls -> Nat] /\ finish' \in [Calls -> BOOLEAN]
        BY <1>0, <2>2, <3>3 DEF Forward, CallTypes
      <3>5. QED
        BY <1>0, <1>9, <1>b, <3>2, <3>4 DEF NextChunk, CallTypes, Steps
    <2>3. CASE Skip(c)
      <3>1. came' \in [Calls -> Seq(Happening)]
        BY <1>0, <2>3, EventTypes DEF Skip, CallTypes
      <3>2. pc' = pc /\ conns' = conns /\ finish' = finish /\ usage' = usage /\ sent' = sent
            /\ answer' = answer /\ logs' = logs /\ gone' = gone
        BY <1>9, <2>3 DEF NextChunk, Skip
      <3>3. /\ pc' \in [Calls -> Steps]
            /\ conns' \in [Providers -> SUBSET Calls]
            /\ finish' \in [Calls -> BOOLEAN] /\ usage' \in [Calls -> Nat]
            /\ sent' \in [Calls -> Seq(Happening)]
            /\ answer' \in [Calls -> Statuses \X Endings]
            /\ logs' \in [Calls -> Seq(LogRow)]
            /\ gone' \subseteq Calls
        BY <1>0, <3>2, Zenon DEF CallTypes, Steps
      <3>4. QED
        BY <1>b, <2>1, <3>1, <3>3
    <2>4. QED
      BY <1>9, <2>1, <2>2, <2>3 DEF NextChunk
  <1>10. CASE Finish(c)
    <2>1. GuardTypes'
      BY <1>0, <1>10 DEF Finish, GuardTypes, guarding
    <2>2. CASE Broken(c)
      BY <1>0, <1>10, <1>b, <2>1, <2>2, EndTypes DEF Finish, Broken, CallTypes
    <2>3. CASE EndOfStream(c)
      <3>1. came' \in [Calls -> Seq(Happening)] /\ sent' \in [Calls -> Seq(Happening)]
        BY <1>0, <2>3, EventTypes DEF EndOfStream, CallTypes
      <3>2. pc' \in [Calls -> Steps]
        BY <1>0, <2>3, Moves DEF Goes, EndOfStream
      <3>3. conns' \in [Providers -> SUBSET Calls]
        BY <1>0, <2>3, DisconnectedTypes DEF EndOfStream
      <3>a. finish' = finish /\ usage' = usage /\ answer' = answer /\ logs' = logs /\ gone' = gone
        BY <1>10, <2>3 DEF Finish, EndOfStream
      <3>b. /\ finish' \in [Calls -> BOOLEAN] /\ usage' \in [Calls -> Nat]
            /\ answer' \in [Calls -> Statuses \X Endings]
            /\ logs' \in [Calls -> Seq(LogRow)]
            /\ gone' \subseteq Calls
        BY <1>0, <3>a, Zenon DEF CallTypes
      <3>4. QED
        BY <1>b, <2>1, <3>1, <3>2, <3>3, <3>b
    <2>4. CASE Untransformed(c)
      <3>1. came' \in [Calls -> Seq(Happening)]
        BY <1>0, <2>4, EventTypes DEF Untransformed, CallTypes
      <3>2. pc' \in [Calls -> Steps]
        BY <1>0, <2>4, Moves DEF Goes, Untransformed
      <3>a. /\ conns' = conns /\ finish' = finish /\ usage' = usage /\ sent' = sent
            /\ answer' = answer /\ logs' = logs /\ gone' = gone
        BY <1>10, <2>4 DEF Finish, Untransformed
      <3>b. /\ conns' \in [Providers -> SUBSET Calls]
            /\ finish' \in [Calls -> BOOLEAN] /\ usage' \in [Calls -> Nat]
            /\ sent' \in [Calls -> Seq(Happening)]
            /\ answer' \in [Calls -> Statuses \X Endings]
            /\ logs' \in [Calls -> Seq(LogRow)]
            /\ gone' \subseteq Calls
        BY <1>0, <3>a, Zenon DEF CallTypes
      <3>4. QED
        BY <1>b, <2>1, <3>1, <3>2, <3>b
    <2>5. QED
      BY <1>10, <2>1, <2>2, <2>3, <2>4 DEF Finish
  <1>11. CASE Log(c)
    <2>1. Cost(c) \in Nat
      BY <1>a DEF Cost
    <2>2. key[c] # NoKey => <<ask[c].key, key[c]>> \in Keys \X (1..MaxHash)
      BY <1>0, <1>a DEF Stage, Jwt, NoKey, GuardTypes
    <2>3. spent' \in [Keys \X (1..MaxHash) -> Nat]
      <3> DEFINE w == <<ask[c].key, key[c]>>
      <3> HIDE DEF w
      <3>1. spent' = spent \/ (w \in Keys \X (1..MaxHash)
                                /\ spent' = [spent EXCEPT ![w] = @ + Cost(c)])
        BY <1>11, <2>2 DEF Log, w
      <3>2. QED
        BY <1>0, <2>1, <3>1 DEF GuardTypes
    <2>4. GuardTypes'
      BY <1>0, <1>11, <2>3 DEF Log, GuardTypes
    <2>5. [status |-> IF finish[c] THEN "completed" ELSE "partial", usage |-> usage[c]] \in LogRow
      BY <1>0 DEF CallTypes, LogRow
    <2>6. logs' \in [Calls -> Seq(LogRow)]
      BY <1>0, <1>11, <2>5 DEF Log, CallTypes
    <2>7. pc' \in [Calls -> Steps] /\ answer' \in [Calls -> Statuses \X Endings]
      BY <1>0, <1>11, Moves DEF Answers, Log
    <2>8. QED
      BY <1>0, <1>11, <1>b, <2>4, <2>6, <2>7 DEF Log, streaming, CallTypes
  <1>12. CASE LogFails(c)
    <2>1. GuardTypes'
      BY <1>0, <1>12 DEF LogFails, GuardTypes, guarding
    <2>2. pc' \in [Calls -> Steps] /\ answer' \in [Calls -> Statuses \X Endings]
      BY <1>0, <1>12, Moves DEF Answers, LogFails
    <2>3. QED
      BY <1>12, <1>c, <2>1, <2>2 DEF LogFails, streaming
  <1>13. CASE Disconnect(c)
    <2>1. GuardTypes'
      BY <1>0, <1>13 DEF Disconnect, GuardTypes, guarding
    <2>2. pc' \in [Calls -> Steps] /\ answer' \in [Calls -> Statuses \X Endings]
      BY <1>0, <1>13, Moves DEF Goes, Answers, Disconnect, CallTypes
    <2>3. conns' \in [Providers -> SUBSET Calls] /\ gone' \subseteq Calls
      <3>1. Disconnected(c) \/ conns' = conns
        BY <1>13 DEF Disconnect
      <3>2. QED
        BY <1>0, <1>13, <3>1, DisconnectedTypes DEF Disconnect, CallTypes
    <2>4. QED
      BY <1>0, <1>13, <1>b, <2>1, <2>2, <2>3 DEF Disconnect, streaming, CallTypes
  <1>14. QED
    BY <1>1, <1>2, <1>3, <1>4, <1>5, <1>6, <1>7, <1>8, <1>9, <1>10, <1>11, <1>12, <1>13
       DEF Acts, Run
-----------------------------------------------------------------------------
(***************************************************************************)
(* What a step does to the call whose step it is, by its own values.       *)
(***************************************************************************)
KeepsKey(c) == seen'[c] = seen[c] /\ key'[c] = key[c]
KeepsSlots(c) == at'[c] = at[c] /\ slots'[c] = slots[c] /\ windows' = windows
KeepsStream(c) ==
  finish'[c] = finish[c] /\ usage'[c] = usage[c] /\ sent'[c] = sent[c] /\ came'[c] = came[c]
KeepsRest(c) == KeepsStream(c) /\ logs'[c] = logs[c]
GoesOn(c, step) == pc'[c] = step /\ answer'[c] = answer[c]
EndsWith(c, status, why) == pc'[c] = "done" /\ answer'[c] = <<status, why>>

Sends(c) == GoesOn(c, "connect") \/ EndsWith(c, 503, "unconfigured")

Authenticates(c) ==
  /\ pc[c] = "idle" /\ key'[c] = key[c] /\ KeepsSlots(c) /\ KeepsRest(c) /\ conns' = conns
  /\ \/ EndsWith(c, 401, "unknown")
     \/ Jwt(c) /\ GoesOn(c, "guards")
     \/ ~Jwt(c) /\ GoesOn(c, "key")

Loads(c) ==
  /\ pc[c] = "key" /\ seen'[c] = seen[c] /\ KeepsSlots(c) /\ KeepsRest(c) /\ conns' = conns
  /\ GoesOn(c, "guards")

Passes(c) ==
  /\ pc[c] = "guards" /\ KeepsKey(c) /\ KeepsRest(c) /\ conns' = conns
  /\ ~Guarded(c) /\ KeepsSlots(c) /\ Sends(c)

Checks(c) ==
  /\ pc[c] = "guards" /\ KeepsKey(c) /\ KeepsRest(c) /\ conns' = conns
  /\ Guarded(c) /\ at'[c] = now
  /\ \/ windows' = windows /\ slots'[c] = slots[c] /\ EndsWith(c, 403, "model")
     \/ /\ Full(c, "rpm") /\ windows' = Checked(c, {"rpm"}, {})
        /\ slots'[c] = slots[c] /\ EndsWith(c, 429, "rpm")
     \/ /\ ~Full(c, "rpm") /\ Full(c, "tpm") /\ windows' = Checked(c, Kinds, {"rpm"})
        /\ slots'[c] = {"rpm"} /\ EndsWith(c, 429, "tpm")
     \/ /\ ~Full(c, "rpm") /\ ~Full(c, "tpm") /\ windows' = Checked(c, Kinds, Kinds)
        /\ slots'[c] = Kinds /\ GoesOn(c, "budget")

Budgets(c) ==
  /\ pc[c] = "budget" /\ KeepsKey(c) /\ KeepsSlots(c) /\ KeepsRest(c) /\ conns' = conns
  /\ EndsWith(c, 429, "budget") \/ Sends(c)

Connects(c) ==
  /\ pc[c] = "connect" /\ KeepsKey(c) /\ KeepsSlots(c) /\ KeepsRest(c)
  /\ Cardinality(conns[Provider(c)]) < MaxConns
  /\ conns' = [conns EXCEPT ![Provider(c)] = @ \cup {c}]
  /\ \/ ask[c].stream /\ GoesOn(c, "head")
     \/ ~ask[c].stream /\ GoesOn(c, "reply")

Breaks(c) ==
  /\ pc[c] \in {"connect", "reply", "head", "stream"}
  /\ KeepsKey(c) /\ KeepsSlots(c) /\ logs'[c] = logs[c] /\ Disconnected(c)
  /\ finish'[c] = finish[c] /\ usage'[c] = usage[c] /\ sent'[c] = sent[c]
  /\ came'[c] = Append(came[c], Break)
  /\ \/ ask[c].stream /\ GoesOn(c, "log")
     \/ ~ask[c].stream /\ EndsWith(c, 500, "upstream")

Refuses(c, status) ==
  /\ pc[c] \in {"reply", "head"}
  /\ KeepsKey(c) /\ KeepsSlots(c) /\ logs'[c] = logs[c] /\ Disconnected(c)
  /\ finish'[c] = finish[c] /\ usage'[c] = usage[c] /\ came'[c] = <<Error(status)>>
  /\ \/ /\ ask[c].stream /\ GoesOn(c, "log")
        /\ sent'[c] = <<Error(HttpStatus(ErrorClass(Provider(c), status))), Done>>
     \/ /\ ~ask[c].stream /\ sent'[c] = sent[c]
        /\ EndsWith(c, HttpStatus(ErrorClass(Provider(c), status)), "upstream")

Replied(c, reply) ==
  /\ pc[c] = "reply"
  /\ KeepsKey(c) /\ KeepsSlots(c) /\ logs'[c] = logs[c] /\ Disconnected(c)
  /\ came'[c] = <<reply>> /\ sent'[c] = sent[c] /\ finish'[c] = TRUE
  /\ usage'[c] = (IF "usage" \in reply.bears THEN 1 ELSE 0)
  /\ GoesOn(c, "log")

Begins(c) ==
  /\ pc[c] = "head" /\ KeepsKey(c) /\ KeepsSlots(c) /\ KeepsRest(c) /\ conns' = conns
  /\ GoesOn(c, "stream")

Forwards(c, chunk) ==
  /\ pc[c] = "stream" /\ Len(came[c]) < MaxChunks
  /\ KeepsKey(c) /\ KeepsSlots(c) /\ logs'[c] = logs[c] /\ conns' = conns
  /\ came'[c] = Append(came[c], chunk) /\ sent'[c] = Append(sent[c], chunk)
  /\ usage'[c] = (IF "usage" \in chunk.bears THEN Len(came'[c]) ELSE usage[c])
  /\ finish'[c] = (finish[c] \/ "finish" \in chunk.bears)
  /\ GoesOn(c, "stream")

Skips(c) ==
  /\ pc[c] = "stream" /\ Len(came[c]) < MaxChunks
  /\ KeepsKey(c) /\ KeepsSlots(c) /\ logs'[c] = logs[c] /\ conns' = conns
  /\ finish'[c] = finish[c] /\ usage'[c] = usage[c] /\ sent'[c] = sent[c]
  /\ came'[c] = Append(came[c], Skipped)
  /\ GoesOn(c, "stream")

Finishes(c) ==
  /\ pc[c] = "stream"
  /\ KeepsKey(c) /\ KeepsSlots(c) /\ logs'[c] = logs[c] /\ Disconnected(c)
  /\ finish'[c] = finish[c] /\ usage'[c] = usage[c]
  /\ came'[c] = Append(came[c], Done) /\ sent'[c] = Append(sent[c], Done)
  /\ GoesOn(c, "log")

Garbles(c) ==
  /\ pc[c] = "stream"
  /\ KeepsKey(c) /\ KeepsSlots(c) /\ logs'[c] = logs[c] /\ conns' = conns
  /\ finish'[c] = finish[c] /\ usage'[c] = usage[c] /\ sent'[c] = sent[c]
  /\ came'[c] = Append(came[c], Unreadable)
  /\ GoesOn(c, "log")

Leaves(c) ==
  /\ pc[c] \in {"connect", "head", "stream", "log"} /\ ask[c].stream
  /\ KeepsKey(c) /\ KeepsSlots(c) /\ KeepsRest(c) /\ c \in gone'
  /\ \/ pc[c] # "log" /\ Disconnected(c) /\ EndsWith(c, 200, "cancelled")
     \/ pc[c] = "log" /\ conns' = conns /\ EndsWith(c, 200, "cancelled")
     \/ pc[c] = "log" /\ conns' = conns /\ GoesOn(c, "log")
     \/ /\ pc[c] = "stream" /\ came[c] # <<>> /\ Last(came[c]).is = "chunk"
        /\ conns' = conns /\ GoesOn(c, "log")

Logs(c) ==
  /\ pc[c] = "log" /\ KeepsKey(c) /\ KeepsSlots(c) /\ KeepsStream(c) /\ conns' = conns
  /\ logs'[c] = Append(logs[c], [status |-> IF finish[c] THEN "completed" ELSE "partial",
                                 usage  |-> usage[c]])
  /\ EndsWith(c, 200, "served")

FailsToLog(c) ==
  /\ pc[c] = "log" /\ KeepsKey(c) /\ KeepsSlots(c) /\ KeepsRest(c) /\ conns' = conns
  /\ pc'[c] = "done" /\ answer'[c][2] = "unlogged"
  /\ answer'[c][1] = (IF ask[c].stream THEN 200 ELSE 500)

Does(c) ==
  \/ Authenticates(c) \/ Loads(c) \/ Passes(c) \/ Checks(c) \/ Budgets(c)
  \/ Connects(c) \/ Breaks(c) \/ (\E status \in Errors : Refuses(c, status))
  \/ (\E reply \in Replies(Provider(c)) : Replied(c, reply)) \/ Begins(c)
  \/ (\E chunk \in Chunks(Provider(c)) : Forwards(c, chunk)) \/ Skips(c) \/ Finishes(c)
  \/ Garbles(c) \/ Leaves(c) \/ Logs(c) \/ FailsToLog(c)

LEMMA OwnGo ==
  ASSUME TInv, NEW c \in Calls, NEW step
  PROVE  /\ Go(c, step) /\ UNCHANGED answer => GoesOn(c, step)
         /\ \A status, why : Answer(c, status, why) => EndsWith(c, status, why)
         /\ \A why : Answer(c, IF ask[c].stream THEN 200 ELSE 500, why) =>
              /\ pc'[c] = "done" /\ answer'[c][2] = why
              /\ answer'[c][1] = (IF ask[c].stream THEN 200 ELSE 500)
  BY Domains DEF Go, Answer, GoesOn, EndsWith

LEMMA OwnBroken ==
  ASSUME TInv, NEW c \in Calls, Broken(c),
         pc[c] \in {"connect", "reply", "head", "stream"},
         UNCHANGED <<windows, seen, key, logs, at, slots>>
  PROVE  Breaks(c)
  <1>1. came'[c] = Append(came[c], Break) /\ finish' = finish /\ usage' = usage /\ sent' = sent
        /\ Disconnected(c)
    BY Domains DEF Broken
  <1>2. \/ ask[c].stream /\ GoesOn(c, "log")
        \/ ~ask[c].stream /\ EndsWith(c, 500, "upstream")
    BY OwnGo DEF Broken
  <1>3. QED
    BY <1>1, <1>2 DEF Breaks, KeepsKey, KeepsSlots

LEMMA OwnRefused ==
  ASSUME TInv, NEW c \in Calls, NEW status, Refused(c, status), pc[c] \in {"reply", "head"},
         UNCHANGED <<windows, seen, key, logs, at, slots>>
  PROVE  Refuses(c, status)
  <1> DEFINE told == HttpStatus(ErrorClass(Provider(c), status))
  <1>1. came'[c] = <<Error(status)>> /\ finish' = finish /\ usage' = usage /\ Disconnected(c)
    BY Domains DEF Refused
  <1>2. \/ ask[c].stream /\ GoesOn(c, "log") /\ sent' = [sent EXCEPT ![c] = <<Error(told), Done>>]
        \/ ~ask[c].stream /\ EndsWith(c, told, "upstream") /\ sent' = sent
    BY OwnGo DEF Refused
  <1>3. \/ ask[c].stream /\ GoesOn(c, "log") /\ sent'[c] = <<Error(told), Done>>
        \/ ~ask[c].stream /\ EndsWith(c, told, "upstream") /\ sent'[c] = sent[c]
    BY <1>2, Domains
  <1>4. QED
    BY <1>1, <1>3 DEF Refuses, KeepsKey, KeepsSlots

LEMMA OwnDispatch ==
  ASSUME TInv, NEW c \in Calls, Dispatch(c)
  PROVE  Sends(c)
  BY OwnGo DEF Dispatch, SendRequest, Sends

LEMMA OwnCheck ==
  ASSUME TInv, NEW c \in Calls, Guard(c), Guarded(c)
  PROVE  Checks(c)
  <1>1. /\ pc[c] = "guards" /\ at' = [at EXCEPT ![c] = now]
        /\ UNCHANGED <<seen, key, finish, usage, sent, came, logs, conns>>
    BY DEF Guard, streaming
  <1>2. CASE Answer(c, 403, "model") /\ UNCHANGED <<windows, slots>>
    BY <1>1, <1>2, Domains, OwnGo DEF Checks, KeepsKey, KeepsRest, KeepsStream
  <1>3. CASE CheckRateLimit(c)
    <2>1. CASE Full(c, "rpm")
      BY <1>1, <1>3, <2>1, Domains, OwnGo
         DEF CheckRateLimit, Checks, KeepsKey, KeepsRest, KeepsStream
    <2>2. CASE ~Full(c, "rpm") /\ Full(c, "tpm")
      BY <1>1, <1>3, <2>2, Domains, OwnGo
         DEF CheckRateLimit, Checks, KeepsKey, KeepsRest, KeepsStream, Kinds
    <2>3. CASE ~Full(c, "rpm") /\ ~Full(c, "tpm")
      BY <1>1, <1>3, <2>3, Domains, OwnGo
         DEF CheckRateLimit, Checks, KeepsKey, KeepsRest, KeepsStream, Kinds
    <2>4. QED
      BY <2>1, <2>2, <2>3
  <1>4. QED
    BY <1>2, <1>3 DEF Guard

LEMMA Own ==
  ASSUME TInv, NEW c \in Calls, Acts(c)
  PROVE  Does(c)
  <1> USE Domains DEF KeepsKey, KeepsSlots, KeepsRest, KeepsStream, streaming, guarding
  <1>1. CASE Authenticate(c)
    <2>1. Authenticates(c)
      BY <1>1, OwnGo DEF Authenticate, Authenticates
    <2>2. QED
      BY <2>1 DEF Does
  <1>2. CASE LoadKey(c)
    <2>1. Loads(c)
      BY <1>2, OwnGo DEF LoadKey, Loads
    <2>2. QED
      BY <2>1 DEF Does
  <1>3. CASE Guard(c)
    <2>1. CASE Guarded(c)
      BY <1>3, <2>1, OwnCheck DEF Does
    <2>2. CASE ~Guarded(c)
      <3>1. Dispatch(c)
        BY <1>3, <2>2 DEF Guard
      <3>2. Passes(c)
        BY <1>3, <2>2, <3>1, OwnDispatch DEF Guard, Passes
      <3>3. QED
        BY <3>2 DEF Does
    <2>3. QED
      BY <2>1, <2>2
  <1>4. CASE CheckBudget(c)
    <2>1. Budgets(c)
      BY <1>4, OwnGo, OwnDispatch DEF CheckBudget, Budgets
    <2>2. QED
      BY <2>1 DEF Does
  <1>5. CASE Connect(c)
    <2>1. Connects(c)
      BY <1>5, OwnGo DEF Connect, Connects
    <2>2. QED
      BY <2>1 DEF Does
  <1>6. CASE PoolTimeout(c)
    BY <1>6, OwnBroken DEF PoolTimeout, Does
  <1>7. CASE Reply(c)
    <2>1. CASE Broken(c)
      BY <1>7, <2>1, OwnBroken DEF Reply, Does
    <2>2. ASSUME NEW status \in Errors, Refused(c, status)
          PROVE  Does(c)
      BY <1>7, <2>2, OwnRefused DEF Reply, Does
    <2>3. ASSUME NEW reply \in Replies(Provider(c)),
                 came' = [came EXCEPT ![c] = <<reply>>],
                 usage' = [usage EXCEPT ![c] = IF "usage" \in reply.bears THEN 1 ELSE 0],
                 finish' = [finish EXCEPT ![c] = TRUE],
                 Disconnected(c), Go(c, "log"), UNCHANGED <<sent, answer>>
          PROVE  Does(c)
      <3>1. Replied(c, reply)
        BY <1>7, <2>3, OwnGo DEF Reply, Replied
      <3>2. QED
        BY <3>1 DEF Does
    <2>4. QED
      BY <1>7, <2>1, <2>2, <2>3 DEF Reply
  <1>8. CASE StatusLine(c)
    <2>1. CASE Broken(c)
      BY <1>8, <2>1, OwnBroken DEF StatusLine, Does
    <2>2. ASSUME NEW status \in Errors, Refused(c, status)
          PROVE  Does(c)
      BY <1>8, <2>2, OwnRefused DEF StatusLine, Does
    <2>3. CASE Go(c, "stream") /\ UNCHANGED <<conns, streaming, answer>>
      <3>1. Begins(c)
        BY <1>8, <2>3, OwnGo DEF StatusLine, Begins
      <3>2. QED
        BY <3>1 DEF Does
    <2>4. QED
      BY <1>8, <2>1, <2>2, <2>3 DEF StatusLine
  <1>9. CASE NextChunk(c)
    <2>1. ASSUME NEW chunk \in Chunks(Provider(c)), Forward(c, chunk)
          PROVE  Does(c)
      <3>1. Forwards(c, chunk)
        BY <1>9, <2>1 DEF NextChunk, Forward, Forwards, GoesOn
      <3>2. QED
        BY <3>1 DEF Does
    <2>2. CASE Skip(c)
      <3>1. Skips(c)
        BY <1>9, <2>2 DEF NextChunk, Skip, Skips, GoesOn
      <3>2. QED
        BY <3>1 DEF Does
    <2>3. QED
      BY <1>9, <2>1, <2>2 DEF NextChunk
  <1>10. CASE Finish(c)
    <2>1. CASE Broken(c)
      BY <1>10, <2>1, OwnBroken DEF Finish, Does
    <2>2. CASE EndOfStream(c)
      <3>1. Finishes(c)
        BY <1>10, <2>2, OwnGo DEF Finish, EndOfStream, Finishes
      <3>2. QED
        BY <3>1 DEF Does
    <2>3. CASE Untransformed(c)
      <3>1. Garbles(c)
        BY <1>10, <2>3, OwnGo DEF Finish, Untransformed, Garbles
      <3>2. QED
        BY <3>1 DEF Does
    <2>4. QED
      BY <1>10, <2>1, <2>2, <2>3 DEF Finish
  <1>11. CASE Log(c)
    <2>1. Logs(c)
      BY <1>11, OwnGo DEF Log, Logs
    <2>2. QED
      BY <2>1 DEF Does
  <1>12. CASE LogFails(c)
    <2>1. FailsToLog(c)
      <3>1. /\ pc'[c] = "done" /\ answer'[c][2] = "unlogged"
            /\ answer'[c][1] = (IF ask[c].stream THEN 200 ELSE 500)
        <4>1. PICK status : status = (IF ask[c].stream THEN 200 ELSE 500)
          OBVIOUS
        <4>2. Answer(c, status, "unlogged")
          BY <1>12, <4>1 DEF LogFails
        <4>3. pc'[c] = "done" /\ answer'[c] = <<status, "unlogged">>
          BY <4>2, Domains DEF Answer, Go
        <4>4. QED
          BY <4>1, <4>3
      <3>2. QED
        BY <1>12, <3>1 DEF LogFails, FailsToLog
    <2>2. QED
      BY <2>1 DEF Does
  <1>13. CASE Disconnect(c)
    <2>1. Leaves(c)
      <3>1. /\ ask[c].stream /\ c \in gone'
            /\ KeepsKey(c) /\ KeepsSlots(c) /\ KeepsRest(c)
        BY <1>13 DEF Disconnect
      <3>2. \/ /\ pc[c] \in {"connect", "head", "stream"}
               /\ Disconnected(c) /\ Answer(c, 200, "cancelled")
            \/ pc[c] = "log" /\ Answer(c, 200, "cancelled") /\ conns' = conns
            \/ AtYield(c) /\ Go(c, "log") /\ conns' = conns /\ answer' = answer
        BY <1>13 DEF Disconnect
      <3>3. QED
        BY <3>1, <3>2, OwnGo DEF AtYield, Leaves
    <2>2. QED
      BY <2>1 DEF Does
  <1>14. QED
    BY <1>1, <1>2, <1>3, <1>4, <1>5, <1>6, <1>7, <1>8, <1>9, <1>10, <1>11, <1>12, <1>13
       DEF Acts, Run

LEMMA StageStep ==
  ASSUME TInv, NEW c \in Calls, Acts(c), [Next]_vars
  PROVE  Stage(c)'
  <1>0. Does(c) /\ Stage(c) /\ ask' = ask /\ GuardTypes /\ CallTypes
    BY Own, AskStays DEF TInv
  <1>a. /\ came[c] \in Seq(Happening) /\ sent[c] \in Seq(Happening)
        /\ came[c] = <<>> => Len(came[c]) = 0
        /\ sent[c] = <<>> => Len(sent[c]) = 0
        /\ Len(came[c]) \in Nat /\ Len(sent[c]) \in Nat /\ MaxChunks \in Nat
    BY <1>0, Bounds DEF CallTypes
  <1>b. ask[c].stream \in BOOLEAN /\ ask[c].admin \in BOOLEAN
    BY <1>0, AskFields
  <1>c. \A e : Len(Append(came[c], e)) = Len(came[c]) + 1
    BY <1>a
  <1>d. \A e : Len(Append(sent[c], e)) = Len(sent[c]) + 1
    BY <1>a
  <1>e. \A e : Len(<<e>>) = 1
    OBVIOUS
  <1>f. \A d, e : Len(<<d, e>>) = 2
    OBVIOUS
  <1>g. Stage(c)' <=>
          /\ pc'[c] \in Silent =>
               came'[c] = <<>> /\ sent'[c] = <<>> /\ finish'[c] = FALSE /\ usage'[c] = 0
          /\ pc'[c] # "done" => logs'[c] = <<>> /\ answer'[c] = <<0, "none">>
          /\ pc'[c] \in Before => slots'[c] = {}
          /\ pc'[c] \in {"idle", "key"} => key'[c] = NoKey
          /\ pc'[c] = "key" => ~Jwt(c)
          /\ Jwt(c) => key'[c] = NoKey
          /\ pc'[c] = "budget" => key'[c] # NoKey /\ ~ask[c].admin
          /\ pc'[c] = "reply" => ~ask[c].stream
          /\ pc'[c] \in {"head", "stream"} => ask[c].stream
          /\ pc'[c] = "stream" => Len(came'[c]) <= MaxChunks /\ Len(sent'[c]) <= Len(came'[c])
          /\ Len(came'[c]) <= MaxChunks + 1 /\ Len(sent'[c]) <= MaxChunks + 2
    BY <1>0 DEF Stage, Jwt, Guarded
  <1> USE DEF Silent, Before, KeepsKey, KeepsSlots, KeepsStream, KeepsRest, GoesOn, EndsWith, Sends
  <1>1. CASE Authenticates(c)
    BY <1>0, <1>1, <1>g DEF Authenticates, Stage
  <1>2. CASE Loads(c)
    BY <1>0, <1>2, <1>g DEF Loads, Stage
  <1>3. CASE Passes(c)
    BY <1>0, <1>3, <1>g DEF Passes, Stage
  <1>4. CASE Checks(c)
    BY <1>0, <1>4, <1>g DEF Checks, Stage, Guarded
  <1>5. CASE Budgets(c)
    BY <1>0, <1>5, <1>g DEF Budgets, Stage
  <1>6. CASE Connects(c)
    BY <1>0, <1>6, <1>b, <1>g DEF Connects, Stage
  <1>7. CASE Breaks(c)
    BY <1>0, <1>7, <1>a, <1>c, <1>g DEF Breaks, Stage
  <1>8. ASSUME NEW status \in Errors, Refuses(c, status)
        PROVE  Stage(c)'
    <2>1. Len(came'[c]) = 1
      BY <1>8, <1>e DEF Refuses
    <2>2. Len(sent'[c]) = 2 \/ Len(sent'[c]) = Len(sent[c])
      BY <1>8, <1>f DEF Refuses
    <2>3. /\ pc[c] \in {"reply", "head"} /\ pc'[c] \in {"log", "done"}
          /\ pc'[c] = "log" => answer'[c] = answer[c]
          /\ logs'[c] = logs[c] /\ KeepsKey(c) /\ KeepsSlots(c)
      BY <1>8 DEF Refuses
    <2>4. Len(came'[c]) <= MaxChunks + 1 /\ Len(sent'[c]) <= MaxChunks + 2
      <3>1. Len(sent[c]) <= MaxChunks + 2
        BY <1>0 DEF Stage
      <3>2. 1 <= MaxChunks + 1 /\ 2 <= MaxChunks + 2
        BY Bounds
      <3>3. Len(came'[c]) <= MaxChunks + 1
        BY <2>1, <3>2, Zenon
      <3>4. Len(sent'[c]) <= MaxChunks + 2
        BY <2>2, <3>1, <3>2, Zenon
      <3>5. QED
        BY <3>3, <3>4
    <2>5. QED
      BY <1>0, <1>g, <2>3, <2>4 DEF Stage
  <1>9. ASSUME NEW reply \in Replies(Provider(c)), Replied(c, reply)
        PROVE  Stage(c)'
    BY <1>0, <1>9, <1>a, <1>e, <1>g DEF Replied, Stage
  <1>10. CASE Begins(c)
    BY <1>0, <1>10, <1>a, <1>g DEF Begins, Stage
  <1>11. ASSUME NEW chunk \in Chunks(Provider(c)), Forwards(c, chunk)
         PROVE  Stage(c)'
    BY <1>0, <1>11, <1>a, <1>c, <1>d, <1>g DEF Forwards, Stage
  <1>12. CASE Skips(c)
    BY <1>0, <1>12, <1>a, <1>c, <1>g DEF Skips, Stage
  <1>13. CASE Finishes(c)
    BY <1>0, <1>13, <1>a, <1>c, <1>d, <1>g DEF Finishes, Stage
  <1>18. CASE Garbles(c)
    BY <1>0, <1>18, <1>a, <1>c, <1>g DEF Garbles, Stage
  <1>14. CASE Leaves(c)
    BY <1>0, <1>14, <1>a, <1>g DEF Leaves, Stage
  <1>15. CASE Logs(c)
    BY <1>0, <1>15, <1>a, <1>g DEF Logs, Stage
  <1>16. CASE FailsToLog(c)
    BY <1>0, <1>16, <1>a, <1>g DEF FailsToLog, Stage
  <1>17. QED
    BY <1>0, <1>1, <1>2, <1>3, <1>4, <1>5, <1>6, <1>7, <1>8, <1>9, <1>10, <1>11, <1>12, <1>13,
       <1>14, <1>15, <1>16, <1>18 DEF Does

LEMMA LastAppend ==
  ASSUME NEW s \in Seq(Happening), NEW e \in Happening
  PROVE  /\ Last(Append(s, e)) = e
         /\ \A i \in DOMAIN Append(s, e) : Append(s, e)[i] = e \/ \E j \in DOMAIN s : s[j] = Append(s, e)[i]
  BY DEF Last

\* What stays of a call that does not act.
LEMMA SuspendedStays ==
  ASSUME ask' = ask, gone \subseteq gone', NEW d, came'[d] = came[d], Suspended(d)
  PROVE  Suspended(d)'
  BY DEF Suspended

LEMMA GoneGrows == ASSUME NEW c \in Calls, Acts(c) PROVE gone \subseteq gone'
  BY DEF Acts, Run, Authenticate, LoadKey, Guard, CheckBudget, Connect, PoolTimeout,
         Reply, StatusLine, NextChunk, Finish, Log, LogFails, Disconnect

\* What a call does to the pools: nothing, and it goes on with its exchange or
\* outside it or is left suspended; it gives its connection back; or it
\* takes one.
Rides(c) ==
  /\ conns' = conns
  /\ \/ pc[c] \in Connected /\ pc'[c] \in Connected
     \/ pc[c] \notin Connected /\ pc'[c] \notin Connected /\ came'[c] = came[c]
     \/ pc'[c] \notin Connected /\ Suspended(c)'

Returns(c) == Disconnected(c) /\ pc'[c] \notin Connected

LEMMA ConnsSteps ==
  ASSUME TInv, NEW c \in Calls, Acts(c), [Next]_vars
  PROVE  Rides(c) \/ Returns(c) \/ Connects(c)
  <1>0. Does(c) /\ Stage(c) /\ ask' = ask /\ GuardTypes /\ CallTypes
    BY Own, AskStays DEF TInv
  <1> USE DEF GoesOn, EndsWith, Sends, Connected
  <1>1. CASE Garbles(c)
    <2>1. came[c] \in Seq(Happening) /\ Unreadable \in Happening /\ ask[c].stream
      BY <1>0, <1>1, EventTypes DEF CallTypes, Garbles, Stage
    <2>2. Last(came'[c]) = Unreadable /\ came'[c] # <<>>
      BY <1>1, <2>1, LastAppend DEF Garbles
    <2>3. Suspended(c)'
      BY <1>0, <2>1, <2>2 DEF Suspended
    <2>4. QED
      BY <1>1, <2>3 DEF Garbles, Rides
  <1>2. CASE Leaves(c)
    <2>1. ask[c].stream /\ came'[c] = came[c] /\ c \in gone'
      BY <1>2 DEF Leaves, KeepsRest, KeepsStream
    <2>2. CASE pc[c] # "log" /\ Disconnected(c) /\ EndsWith(c, 200, "cancelled")
      BY <2>2 DEF Returns
    <2>3. CASE pc[c] = "log" /\ conns' = conns /\ pc'[c] \in {"log", "done"}
      BY <2>1, <2>3 DEF Rides
    <2>4. CASE /\ pc[c] = "stream" /\ came[c] # <<>> /\ Last(came[c]).is = "chunk"
               /\ conns' = conns /\ GoesOn(c, "log")
      <3>1. Suspended(c)'
        BY <1>0, <2>1, <2>4 DEF Suspended
      <3>2. QED
        BY <2>4, <3>1 DEF Rides
    <2>5. QED
      BY <1>2, <2>2, <2>3, <2>4 DEF Leaves
  <1>3. CASE ~Garbles(c) /\ ~Leaves(c)
    BY <1>0, <1>3
       DEF Does, Authenticates, Loads, Passes, Checks, Budgets, Breaks, Refuses, Replied, Begins,
           Forwards, Skips, Finishes, Logs, FailsToLog, KeepsRest, KeepsStream, Rides, Returns
  <1>4. QED
    BY <1>1, <1>2, <1>3

\* A connection given back leaves the pools within their size.
LEMMA ReturnedFits ==
  ASSUME CallTypes, ConnsInv, NEW c \in Calls, Disconnected(c)
  PROVE  /\ \A p \in Providers : /\ conns'[p] \subseteq conns[p] /\ c \notin conns'[p]
                                 /\ conns[p] \ {c} \subseteq conns'[p]
                                 /\ IsFiniteSet(conns'[p]) /\ Cardinality(conns'[p]) <= MaxConns
  <1>1. \A p \in Providers : conns'[p] = (IF p = Provider(c) THEN conns[p] \ {c} ELSE conns[p])
    BY DEF Disconnected, CallTypes
  <1>2. \A p \in Providers : /\ conns'[p] \subseteq conns[p] /\ c \notin conns'[p]
                             /\ conns[p] \ {c} \subseteq conns'[p]
    BY <1>1 DEF ConnsInv
  <1>3. ASSUME NEW p \in Providers
        PROVE  IsFiniteSet(conns'[p]) /\ Cardinality(conns'[p]) <= MaxConns
    <2>1. IsFiniteSet(conns[p]) /\ Cardinality(conns[p]) <= MaxConns
      BY DEF ConnsInv
    <2>2. IsFiniteSet(conns'[p]) /\ Cardinality(conns'[p]) <= Cardinality(conns[p])
      BY <1>2, <2>1, FS_Subset
    <2>3. Cardinality(conns'[p]) \in Nat /\ Cardinality(conns[p]) \in Nat /\ MaxConns \in Nat
      BY <2>1, <2>2, FS_CardinalityType, Bounds
    <2>4. QED
      BY <2>1, <2>2, <2>3
  <1>4. QED
    BY <1>2, <1>3

\* A pool holds no more than MaxConns connections: those of the exchanges,
\* and of the streams left suspended.
LEMMA ConnsStep ==
  ASSUME TInv, NEW c \in Calls, Acts(c), [Next]_vars
  PROVE  ConnsInv'
  <1>0. Stage(c) /\ ask' = ask /\ GuardTypes /\ CallTypes /\ ConnsInv
    BY AskStays DEF TInv
  <1>a. \A d \in Calls : d # c => pc'[d] = pc[d] /\ came'[d] = came[d]
    BY Frame DEF Untouched
  <1>b. \A d : Provider(d)' = Provider(d)
    BY <1>0 DEF Provider
  <1>c. MaxConns \in Nat \ {0} /\ Provider(c) \in Providers
    BY <1>0, Bounds, AskFields
  <1>d. \A p \in Providers : \A d \in conns[p] :
          d \in Calls /\ Provider(d) = p /\ (pc[d] \in Connected \/ Suspended(d))
    BY <1>0 DEF ConnsInv, CallTypes
  <1>e. \A p \in Providers : \A d \in Calls :
          Provider(d) = p /\ pc[d] \in Connected => d \in conns[p]
    BY <1>0 DEF ConnsInv
  <1>f. \A d \in Calls : d # c /\ Suspended(d) => Suspended(d)'
    BY <1>0, <1>a, GoneGrows, SuspendedStays
  <1>g. ASSUME \A p \in Providers : IsFiniteSet(conns'[p]) /\ Cardinality(conns'[p]) <= MaxConns,
               \A p \in Providers : \A d \in conns'[p] :
                 Provider(d) = p /\ (pc'[d] \in Connected \/ Suspended(d)'),
               \A p \in Providers : \A d \in Calls :
                 Provider(d) = p /\ pc'[d] \in Connected => d \in conns'[p]
        PROVE  ConnsInv'
    BY <1>b, <1>g DEF ConnsInv
  <1>1. CASE Rides(c)
    <2>1. conns' = conns /\ gone \subseteq gone'
      BY <1>1, GoneGrows DEF Rides
    <2>2. Suspended(c) /\ came'[c] = came[c] => Suspended(c)'
      BY <1>0, <2>1, SuspendedStays
    <2>3. \A p \in Providers : \A d \in conns[p] :
            Provider(d) = p /\ (pc'[d] \in Connected \/ Suspended(d)')
      BY <1>1, <1>a, <1>d, <1>f, <2>2 DEF Rides
    <2>4. \A d \in Calls : pc'[d] \in Connected => pc[d] \in Connected
      BY <1>1, <1>a DEF Rides
    <2>5. \A p \in Providers : IsFiniteSet(conns[p]) /\ Cardinality(conns[p]) <= MaxConns
      BY <1>0 DEF ConnsInv
    <2>6. QED
      BY <1>e, <1>g, <2>1, <2>3, <2>4, <2>5
  <1>2. CASE Returns(c)
    <2>1. \A p \in Providers : /\ conns'[p] \subseteq conns[p] /\ c \notin conns'[p]
                               /\ conns[p] \ {c} \subseteq conns'[p]
                               /\ IsFiniteSet(conns'[p]) /\ Cardinality(conns'[p]) <= MaxConns
      BY <1>0, <1>2, ReturnedFits DEF Returns
    <2>2. \A p \in Providers : \A d \in conns'[p] : d \in conns[p] /\ d # c
      BY <2>1
    <2>3. \A p \in Providers : \A d \in conns'[p] :
            Provider(d) = p /\ (pc'[d] \in Connected \/ Suspended(d)')
      BY <1>a, <1>d, <1>f, <2>2
    <2>4. \A d \in Calls : pc'[d] \in Connected => d # c /\ pc[d] \in Connected
      BY <1>2, <1>a DEF Returns
    <2>5. \A p \in Providers : \A d \in Calls :
            Provider(d) = p /\ pc'[d] \in Connected => d \in conns'[p]
      BY <1>e, <2>1, <2>4
    <2>6. QED
      BY <1>g, <2>1, <2>3, <2>5
  <1>3. CASE Connects(c)
    <2> DEFINE q == Provider(c)
    <2>1. /\ pc[c] = "connect" /\ pc'[c] \in Connected
          /\ Cardinality(conns[q]) < MaxConns
          /\ conns'[q] = conns[q] \cup {c}
          /\ \A p \in Providers : p # q => conns'[p] = conns[p]
      BY <1>0, <1>3, <1>c DEF Connects, CallTypes, GoesOn, Connected
    <2>a. \A p \in Providers : c \notin conns[p]
      <3>1. came[c] = <<>>
        BY <1>0, <2>1 DEF Stage, Silent
      <3>2. QED
        BY <1>d, <2>1, <3>1 DEF Suspended, Connected
    <2>2. IsFiniteSet(conns[q]) /\ c \notin conns[q]
      BY <1>0, <1>c, <2>a DEF ConnsInv
    <2>3. IsFiniteSet(conns'[q]) /\ Cardinality(conns'[q]) = Cardinality(conns[q]) + 1
      BY <2>1, <2>2, FS_AddElement
    <2>4. Cardinality(conns[q]) \in Nat
      BY <2>2, FS_CardinalityType
    <2>5. Cardinality(conns'[q]) <= MaxConns
      BY <1>c, <2>1, <2>3, <2>4
    <2>6. \A p \in Providers : IsFiniteSet(conns'[p]) /\ Cardinality(conns'[p]) <= MaxConns
      BY <1>0, <2>1, <2>3, <2>5 DEF ConnsInv
    <2>7. \A p \in Providers : \A d \in conns'[p] :
            (d = c /\ p = q) \/ (d # c /\ d \in conns[p])
      BY <2>1, <2>a
    <2>8. \A p \in Providers : \A d \in conns'[p] :
            Provider(d) = p /\ (pc'[d] \in Connected \/ Suspended(d)')
      BY <1>a, <1>d, <1>f, <2>1, <2>7
    <2>9. \A p \in Providers : conns[p] \subseteq conns'[p]
      BY <2>1
    <2>10. \A p \in Providers : \A d \in Calls :
             Provider(d) = p /\ pc'[d] \in Connected => d \in conns'[p]
      BY <1>a, <1>e, <2>1, <2>9
    <2>11. QED
      BY <1>g, <2>6, <2>8, <2>10
  <1>4. QED
    BY <1>1, <1>2, <1>3, ConnsSteps

LEMMA InitTInv == Init => TInv
  <1> SUFFICES ASSUME Init PROVE TInv
    OBVIOUS
  <1>1. GuardTypes
    BY Bounds DEF Init, GuardTypes, WindowIds, NoKey, Kinds
  <1>2. CallTypes
    <2>1. <<0, "none">> \in Statuses \X Endings /\ "idle" \in Silent
      BY DEF Statuses, Endings, Silent, Before
    <2>2. QED
      BY <2>1 DEF Init, CallTypes
  <1>3. \A c \in Calls : Stage(c)
    <2>1. Len(<<>>) = 0
      OBVIOUS
    <2>2. QED
      BY <2>1, Bounds DEF Init, Stage, NoKey
  <1>4. ConnsInv
    <2>1. IsFiniteSet({}) /\ Cardinality({}) = 0
      BY FS_EmptySet
    <2>2. QED
      BY <2>1, Bounds DEF Init, ConnsInv, Connected
  <1>5. QED
    BY <1>1, <1>2, <1>3, <1>4 DEF TInv

\* The clock, a rotation, a deletion of a key, a generator that is collected.
Around ==
  Tick \/ (\E k \in Keys : RotateKey(k) \/ DeleteKey(k)) \/ \E c \in Calls : Collect(c)

LEMMA AroundKeeps ==
  ASSUME TInv, Around
  PROVE  /\ UNCHANGED <<windows, spent, ask, pc, seen, key, streaming, answer, logs, at, slots,
                        gone>>
         /\ now' \in 0..MaxTime /\ now' >= now
         /\ hash' \in [Keys -> 1..MaxHash] /\ live' \subseteq Keys
  <1> DEFINE Rest == UNCHANGED <<windows, spent, ask, pc, seen, key, streaming, answer, logs, at,
                                 slots, gone>>
  <1>0. /\ now \in 0..MaxTime /\ hash \in [Keys -> 1..MaxHash] /\ live \subseteq Keys
        /\ MaxTime \in Nat /\ MaxHash \in Nat
    BY Bounds DEF TInv, GuardTypes
  <1>1. CASE Tick
    <2>1. Rest /\ hash' = hash /\ live' = live /\ now < MaxTime /\ now' = now + 1
      BY <1>1 DEF Tick
    <2>2. QED
      BY <1>0, <2>1
  <1>2. ASSUME NEW k \in Keys, RotateKey(k)
        PROVE  Rest /\ now' = now /\ hash' \in [Keys -> 1..MaxHash] /\ live' = live
    <2>1. hash[k] < MaxHash /\ hash' = [hash EXCEPT ![k] = hash[k] + 1]
      BY <1>2 DEF RotateKey
    <2>2. hash[k] + 1 \in 1..MaxHash
      BY <1>0, <2>1
    <2>3. hash' \in [Keys -> 1..MaxHash]
      BY <1>0, <2>1, <2>2
    <2>4. QED
      BY <1>2, <2>3 DEF RotateKey
  <1>3. ASSUME NEW k \in Keys, DeleteKey(k)
        PROVE  Rest /\ now' = now /\ hash' = hash /\ live' \subseteq Keys
    BY <1>0, <1>3 DEF DeleteKey
  <1>4. ASSUME NEW c \in Calls, Collect(c)
        PROVE  Rest /\ now' = now /\ hash' = hash /\ live' = live
    BY <1>4 DEF Collect, guarding
  <1>5. QED
    BY <1>0, <1>1, <1>2, <1>3, <1>4 DEF Around

\* Only a connection that is collected leaves its pool.
LEMMA AroundConns ==
  ASSUME TInv, Around
  PROVE  ConnsInv' /\ conns' \in [Providers -> SUBSET Calls]
  <1>0. CallTypes /\ ConnsInv
    BY DEF TInv
  <1>1. pc' = pc /\ ask' = ask /\ came' = came /\ gone' = gone
    BY AroundKeeps DEF streaming
  <1>2. \A c : Suspended(c)' = Suspended(c) /\ Provider(c)' = Provider(c)
    BY <1>1 DEF Suspended, Provider
  <1>3. CASE conns' = conns
    BY <1>0, <1>1, <1>2, <1>3 DEF ConnsInv, CallTypes
  <1>4. ASSUME NEW c \in Calls, Collect(c)
        PROVE  ConnsInv' /\ conns' \in [Providers -> SUBSET Calls]
    <2>1. pc[c] = "done" /\ Disconnected(c)
      BY <1>4 DEF Collect
    <2>2. \A p \in Providers : /\ conns'[p] \subseteq conns[p] /\ c \notin conns'[p]
                               /\ conns[p] \ {c} \subseteq conns'[p]
                               /\ IsFiniteSet(conns'[p]) /\ Cardinality(conns'[p]) <= MaxConns
      BY <1>0, <2>1, ReturnedFits
    <2>3. conns' \in [Providers -> SUBSET Calls]
      BY <1>0, <2>1, DisconnectedTypes
    <2>4. \A p \in Providers : \A d \in Calls :
            Provider(d) = p /\ pc[d] \in Connected => d \in conns'[p]
      BY <1>0, <2>1, <2>2 DEF ConnsInv, Connected
    <2>5. \A p \in Providers : \A d \in conns'[p] :
            Provider(d) = p /\ (pc[d] \in Connected \/ Suspended(d))
      BY <1>0, <2>2 DEF ConnsInv
    <2>6. ConnsInv'
      BY <1>1, <1>2, <2>2, <2>4, <2>5 DEF ConnsInv
    <2>7. QED
      BY <2>3, <2>6
  <1>5. Tick \/ (\E k \in Keys : RotateKey(k) \/ DeleteKey(k)) => conns' = conns
    BY DEF Tick, RotateKey, DeleteKey
  <1>6. QED
    BY <1>3, <1>4, <1>5 DEF Around

LEMMA NextSplit ==
  ASSUME [Next]_vars
  PROVE  (\E c \in Calls : Acts(c)) \/ Around \/ UNCHANGED vars
  BY DEF Next, Acts, Around

LEMMA TStep == TInv /\ [Next]_vars => TInv'
  <1> SUFFICES ASSUME TInv, [Next]_vars PROVE TInv'
    OBVIOUS
  <1>1. ASSUME NEW c \in Calls, Acts(c)
        PROVE  TInv'
    <2>1. ASSUME NEW d \in Calls, d # c
          PROVE  Stage(d)'
      <3>1. Untouched(d) /\ ask' = ask /\ Stage(d)
        BY <1>1, <2>1, Frame, AskStays DEF TInv
      <3>2. QED
        BY <3>1 DEF Stage, Untouched, Jwt, Guarded
    <2>2. QED
      BY <1>1, <2>1, StageStep, ConnsStep, TypesStep DEF TInv
  <1>2. CASE Around
    <2>1. GuardTypes' /\ CallTypes' /\ ConnsInv'
      <3>1. ConnsInv' /\ conns' \in [Providers -> SUBSET Calls]
        BY <1>2, AroundConns
      <3>2. QED
        BY <1>2, <3>1, AroundKeeps DEF TInv, GuardTypes, CallTypes, streaming
    <2>2. \A c \in Calls : Stage(c)'
      BY <1>2, AroundKeeps DEF TInv, Stage, streaming, Jwt, Guarded
    <2>3. QED
      BY <2>1, <2>2 DEF TInv
  <1>3. CASE UNCHANGED vars
    <2>1. GuardTypes' /\ CallTypes' /\ ConnsInv'
      BY <1>3 DEF TInv, GuardTypes, CallTypes, ConnsInv, Suspended, vars, guarding, streaming, Provider
    <2>2. \A c \in Calls : Stage(c)'
      BY <1>3 DEF TInv, Stage, vars, guarding, streaming, Jwt, Guarded
    <2>3. QED
      BY <2>1, <2>2 DEF TInv
  <1>4. QED
    BY <1>1, <1>2, <1>3, NextSplit
-----------------------------------------------------------------------------
(***************************************************************************)
(* The log: what came, what it bore, and what was written of it.           *)
(***************************************************************************)
BearingIn(s, part) == {i \in DOMAIN s : part \in s[i].bears}
IsMost(n, S) == n \in S /\ \A m \in S : n >= m

LogFacts(c) ==
  /\ finish[c] <=> BearingIn(came[c], "finish") # {}
  /\ IsMost(usage[c], BearingIn(came[c], "usage") \cup {0})
  /\ logs[c] # <<>> =>
       logs[c] = <<[status |-> IF finish[c] THEN "completed" ELSE "partial", usage |-> usage[c]]>>
  /\ ask[c].stream /\ pc[c] = "done" /\ came[c] # <<>> =>
       logs[c] # <<>> \/ c \in gone \/ answer[c][2] = "unlogged"

LogInv == \A c \in Calls : LogFacts(c)

LEMMA BearingAppend ==
  ASSUME NEW s \in Seq(Happening), NEW e \in Happening, NEW part
  PROVE  BearingIn(Append(s, e), part)
           = BearingIn(s, part) \cup (IF part \in e.bears THEN {Len(s) + 1} ELSE {})
  <1>1. DOMAIN Append(s, e) = (DOMAIN s) \cup {Len(s) + 1} /\ Len(s) + 1 \notin DOMAIN s
    OBVIOUS
  <1>2. \A i \in DOMAIN s : Append(s, e)[i] = s[i]
    OBVIOUS
  <1>3. Append(s, e)[Len(s) + 1] = e
    OBVIOUS
  <1>4. QED
    BY <1>1, <1>2, <1>3 DEF BearingIn

LEMMA BearingOne ==
  ASSUME NEW e \in Happening, NEW part
  PROVE  BearingIn(<<e>>, part) = (IF part \in e.bears THEN {1} ELSE {})
  BY DEF BearingIn

LEMMA BearingNone == \A part : BearingIn(<<>>, part) = {}
  BY DEF BearingIn

LEMMA PlainBears ==
  /\ Break.bears = {} /\ Unreadable.bears = {} /\ Skipped.bears = {} /\ Done.bears = {}
  /\ \A status : Error(status).bears = {}
  BY DEF Break, Unreadable, Skipped, Done, Error, Event

LEMMA ReplyBears ==
  \A p \in Providers : \A reply \in Replies(p) : "finish" \in reply.bears
  BY DEF Replies, OpenAIReplies, AnthropicReplies, Chunk, Event

LEMMA MostIsMax ==
  ASSUME NEW S, NEW n, n \in Nat, S \subseteq Nat, IsMost(n, S)
  PROVE  Max(S) = n
  <1>1. \E m \in S : \A y \in S : m >= y
    BY DEF IsMost
  <1>2. Max(S) \in S /\ \A y \in S : Max(S) >= y
    BY <1>1 DEF Max
  <1>3. Max(S) \in Nat /\ Max(S) >= n /\ n >= Max(S)
    BY <1>2 DEF IsMost
  <1>4. QED
    BY <1>3

LEMMA LogStep == TInv /\ LogInv /\ [Next]_vars => LogInv'
  <1> SUFFICES ASSUME TInv, LogInv, [Next]_vars, NEW d \in Calls
               PROVE  LogFacts(d)'
    BY DEF LogInv
  <1>0. LogFacts(d) /\ Stage(d) /\ GuardTypes /\ CallTypes /\ ask' = ask
    BY AskStays DEF TInv, LogInv
  <1>a. /\ came[d] \in Seq(Happening) /\ Len(came[d]) \in Nat /\ usage[d] \in Nat
        /\ ask[d].stream \in BOOLEAN /\ Provider(d) \in Providers
    BY <1>0, AskFields DEF CallTypes
  <1>b. \A c \in Calls : Acts(c) => gone \subseteq gone'
    BY DEF Acts, Run, Authenticate, LoadKey, Guard, CheckBudget, Connect, PoolTimeout,
           Reply, StatusLine, NextChunk, Finish, Log, LogFails, Disconnect
  <1>c. /\ Break \in Happening /\ Unreadable \in Happening
        /\ Done \in Happening /\ Skipped \in Happening
        /\ \A status \in Errors : Error(status) \in Happening
        /\ Chunks(Provider(d)) \subseteq Happening /\ Replies(Provider(d)) \subseteq Happening
    BY <1>a, EventTypes
  <1>1. ASSUME NEW c \in Calls, Acts(c), c # d
        PROVE  LogFacts(d)'
    <2>1. Untouched(d) /\ gone \subseteq gone'
      BY <1>1, <1>b, Frame
    <2>2. QED
      BY <1>0, <2>1 DEF LogFacts, Untouched
  <1>2. CASE Acts(d)
    <2>1. Does(d) /\ gone \subseteq gone'
      BY <1>2, <1>b, Own
    <2> USE DEF GoesOn, EndsWith, Sends
    \* The log is written last, from what the call has kept of the stream.
    <2>2. pc[d] \in Silent => pc[d] # "done" /\ logs[d] = <<>> /\ came[d] = <<>>
                              /\ finish[d] = FALSE /\ usage[d] = 0
      BY <1>0 DEF Stage, Silent, Before
    <2>3. CASE KeepsRest(d) /\ (pc'[d] # "done" \/ came[d] = <<>> \/ d \in gone'
                                  \/ answer'[d][2] = "unlogged")
      BY <1>0, <2>1, <2>3 DEF LogFacts, KeepsRest, KeepsStream
    <2>4. CASE Logs(d)
      <3>1. logs[d] = <<>>
        BY <1>0, <2>4 DEF Logs, Stage
      <3>2. logs'[d] = <<[status |-> IF finish[d] THEN "completed" ELSE "partial",
                          usage |-> usage[d]]>>
        BY <2>4, <3>1 DEF Logs
      <3>3. logs'[d] # <<>>
        BY <3>2
      <3>4. QED
        BY <1>0, <2>4, <3>2, <3>3 DEF Logs, LogFacts, KeepsStream
    <2>5. ASSUME NEW e \in Happening, e.bears = {}, came'[d] = Append(came[d], e),
                 finish'[d] = finish[d], usage'[d] = usage[d], logs'[d] = logs[d],
                 pc[d] # "done", ask[d].stream => pc'[d] # "done"
          PROVE  LogFacts(d)'
      <3>1. \A part : BearingIn(came'[d], part) = BearingIn(came[d], part)
        <4> TAKE part
        <4>1. BearingIn(Append(came[d], e), part)
                = BearingIn(came[d], part) \cup (IF part \in e.bears THEN {Len(came[d]) + 1} ELSE {})
          BY <1>a, <2>5, BearingAppend
        <4>2. part \notin e.bears
          BY <2>5
        <4>3. QED
          BY <2>5, <4>1, <4>2, Zenon
      <3>2. logs[d] = <<>>
        BY <1>0, <2>5 DEF Stage
      <3>3. QED
        BY <1>0, <2>5, <3>1, <3>2 DEF LogFacts
    <2>6. CASE Breaks(d) \/ Skips(d) \/ Finishes(d) \/ Garbles(d)
      BY <1>c, <2>5, <2>6, PlainBears DEF Breaks, Skips, Finishes, Garbles
    <2>7. ASSUME NEW status \in Errors, Refuses(d, status)
          PROVE  LogFacts(d)'
      <3>1. \A part : BearingIn(came'[d], part) = {}
        BY <1>c, <2>7, BearingOne, PlainBears DEF Refuses
      <3>2. /\ finish'[d] = FALSE /\ usage'[d] = 0 /\ logs'[d] = <<>>
            /\ ask[d].stream => pc'[d] # "done"
        BY <2>2, <2>7 DEF Refuses, Silent
      <3>3. QED
        BY <1>0, <3>1, <3>2 DEF LogFacts, IsMost
    <2>8. ASSUME NEW reply \in Replies(Provider(d)), Replied(d, reply)
          PROVE  LogFacts(d)'
      <3>1. reply \in Happening /\ "finish" \in reply.bears
        BY <1>a, <1>c, ReplyBears
      <3>2. \A part : BearingIn(came'[d], part) = (IF part \in reply.bears THEN {1} ELSE {})
        BY <2>8, <3>1, BearingOne DEF Replied
      <3>3. logs'[d] = <<>> /\ pc'[d] # "done" /\ finish'[d] = TRUE
        BY <2>2, <2>8 DEF Replied, Silent
      <3>4. usage'[d] = (IF "usage" \in reply.bears THEN 1 ELSE 0)
        BY <2>8 DEF Replied
      <3>5. IsMost(usage'[d], BearingIn(came'[d], "usage") \cup {0})
        BY <3>2, <3>4 DEF IsMost
      <3>6. QED
        BY <3>1, <3>2, <3>3, <3>5 DEF LogFacts
    <2>9. ASSUME NEW chunk \in Chunks(Provider(d)), Forwards(d, chunk)
          PROVE  LogFacts(d)'
      <3>1. chunk \in Happening /\ came'[d] = Append(came[d], chunk)
        BY <1>c, <2>9 DEF Forwards
      <3>2. \A part : BearingIn(came'[d], part)
                        = BearingIn(came[d], part) \cup (IF part \in chunk.bears
                                                         THEN {Len(came[d]) + 1} ELSE {})
        BY <1>a, <3>1, BearingAppend
      <3>3. Len(came'[d]) = Len(came[d]) + 1
        BY <1>a, <3>1
      <3>4. \A i \in BearingIn(came[d], "usage") : i \in Nat /\ i <= Len(came[d])
        BY <1>a DEF BearingIn
      <3>5. IsMost(usage'[d], BearingIn(came'[d], "usage") \cup {0})
        <4>1. CASE "usage" \in chunk.bears
          <5>1. usage'[d] = Len(came[d]) + 1
            BY <2>9, <3>3, <4>1 DEF Forwards
          <5>2. BearingIn(came'[d], "usage")
                  = BearingIn(came[d], "usage") \cup {Len(came[d]) + 1}
            BY <3>2, <4>1
          <5>3. QED
            BY <1>a, <3>4, <5>1, <5>2 DEF IsMost
        <4>2. CASE "usage" \notin chunk.bears
          <5>1. usage'[d] = usage[d]
            BY <2>9, <4>2 DEF Forwards
          <5>2. BearingIn(came'[d], "usage") = BearingIn(came[d], "usage")
            BY <3>2, <4>2
          <5>3. QED
            BY <1>0, <5>1, <5>2 DEF LogFacts
        <4>3. QED
          BY <4>1, <4>2
      <3>6. finish'[d] <=> BearingIn(came'[d], "finish") # {}
        BY <1>0, <2>9, <3>2 DEF Forwards, LogFacts
      <3>7. logs'[d] = <<>> /\ pc'[d] # "done"
        BY <1>0, <2>9 DEF Forwards, Stage
      <3>8. QED
        BY <3>5, <3>6, <3>7 DEF LogFacts
    <2>10. ASSUME Does(d), ~Logs(d), ~Breaks(d), ~Skips(d), ~Finishes(d), ~Garbles(d),
                  \A status \in Errors : ~Refuses(d, status),
                  \A reply \in Replies(Provider(d)) : ~Replied(d, reply),
                  \A chunk \in Chunks(Provider(d)) : ~Forwards(d, chunk)
           PROVE  LogFacts(d)'
      <3>1. KeepsRest(d) /\ (pc[d] \in Silent \/ pc'[d] # "done" \/ d \in gone'
                                  \/ answer'[d][2] = "unlogged")
        BY <2>10 DEF Does, Authenticates, Loads, Passes, Checks, Budgets, Connects, Begins,
                     Leaves, FailsToLog, Silent, Before
      <3>2. QED
        BY <2>2, <2>3, <3>1
    <2>11. QED
      BY <2>1, <2>4, <2>6, <2>7, <2>8, <2>9, <2>10
  <1>3. CASE Around
    BY <1>0, <1>3, AroundKeeps DEF LogFacts, streaming
  <1>4. CASE UNCHANGED vars
    BY <1>0, <1>4 DEF LogFacts, vars, streaming
  <1>5. QED
    BY <1>1, <1>2, <1>3, <1>4, NextSplit
-----------------------------------------------------------------------------
(***************************************************************************)
(* A refusal by the provider, until it has been told.                      *)
(***************************************************************************)
Relayed(c, status) == HttpStatus(ErrorClass(Provider(c), status))

ToldFacts(c) ==
  /\ pc[c] = "stream" => \A i \in DOMAIN came[c] : came[c][i].is # "error"
  /\ pc[c] \in {"log", "done"} /\ came[c] # <<>> =>
       \/ Last(came[c]).is # "error"
       \/ \E status \in Errors :
            /\ Last(came[c]) = Error(status)
            /\ IF ask[c].stream THEN sent[c] = <<Error(Relayed(c, status)), Done>>
                                ELSE pc[c] = "done" /\ answer[c][1] = Relayed(c, status)

ToldInv == \A c \in Calls : ToldFacts(c)

\* Which statuses become which, for either provider.
LEMMA StatusKept ==
  ASSUME NEW p \in Providers, NEW status \in Errors
  PROVE  LET told == HttpStatus(ErrorClass(p, status))
         IN  (status >= 500 => told >= 500) /\ (status = 429 <=> told = 429)
  <1>1. status \in 400..599
    BY Bounds
  <1>2. ErrorClass(p, status) =
          IF p = "anthropic" /\ status = 403 THEN "AuthenticationError"
          ELSE OpenAIErrorClass(status)
    BY DEF ErrorClass, AnthropicErrorClass
  <1>3. /\ HttpStatus("AuthenticationError") = 401 /\ HttpStatus("NotFoundError") = 404
        /\ HttpStatus("TimeoutError") = 504 /\ HttpStatus("RateLimitError") = 429
        /\ HttpStatus("BadRequestError") = 400 /\ HttpStatus("ServiceUnavailableError") = 503
        /\ HttpStatus("InternalServerError") = 502 /\ HttpStatus("LiteLLMError") = 500
    BY DEF HttpStatus
  <1>4. /\ status = 401 => OpenAIErrorClass(status) = "AuthenticationError"
        /\ status = 404 => OpenAIErrorClass(status) = "NotFoundError"
        /\ status = 408 => OpenAIErrorClass(status) = "TimeoutError"
        /\ status = 429 => OpenAIErrorClass(status) = "RateLimitError"
        /\ status = 400 => OpenAIErrorClass(status) = "BadRequestError"
        /\ status = 503 => OpenAIErrorClass(status) = "ServiceUnavailableError"
        /\ status >= 500 /\ status # 503 => OpenAIErrorClass(status) = "InternalServerError"
        /\ status \notin {401, 404, 408, 429, 400} /\ ~(status >= 500)
             => OpenAIErrorClass(status) = "LiteLLMError"
    BY <1>1 DEF OpenAIErrorClass
  <1>5. QED
    BY <1>1, <1>2, <1>3, <1>4

LEMMA EventKinds ==
  /\ Break.is # "error" /\ Unreadable.is # "error" /\ Skipped.is # "error" /\ Done.is # "error"
  /\ \A bears : Chunk(bears).is # "error"
  /\ \A status : Error(status).is = "error" /\ Error(status).status = status
  BY DEF Break, Unreadable, Skipped, Done, Chunk, Error, Event

LEMMA ChunkKinds ==
  ASSUME NEW p \in Providers
  PROVE  (\A e \in Chunks(p) : e.is # "error") /\ (\A e \in Replies(p) : e.is # "error")
  <1>1. \A e \in Chunks(p) : \E bears : e = Chunk(bears)
    BY DEF Chunks, OpenAIChunks, AnthropicChunks
  <1>2. \A e \in Replies(p) : \E bears : e = Chunk(bears)
    BY DEF Replies, OpenAIReplies, AnthropicReplies
  <1>3. QED
    BY <1>1, <1>2, EventKinds

LEMMA LastOne == \A e : Last(<<e>>) = e
  BY DEF Last

LEMMA ToldStep == TInv /\ ToldInv /\ [Next]_vars => ToldInv'
  <1> SUFFICES ASSUME TInv, ToldInv, [Next]_vars, NEW d \in Calls
               PROVE  ToldFacts(d)'
    BY DEF ToldInv
  <1>0. ToldFacts(d) /\ Stage(d) /\ GuardTypes /\ CallTypes /\ ask' = ask
    BY AskStays DEF TInv, ToldInv
  <1>a. came[d] \in Seq(Happening) /\ Provider(d) \in Providers
    BY <1>0, AskFields DEF CallTypes
  <1>b. \A status : Relayed(d, status)' = Relayed(d, status)
    BY <1>0 DEF Relayed, Provider
  <1>c. /\ Break \in Happening /\ Unreadable \in Happening
        /\ Done \in Happening /\ Skipped \in Happening
        /\ Chunks(Provider(d)) \subseteq Happening /\ Replies(Provider(d)) \subseteq Happening
        /\ \A e \in Chunks(Provider(d)) : e.is # "error"
        /\ \A e \in Replies(Provider(d)) : e.is # "error"
    BY <1>a, EventTypes, ChunkKinds
  <1>d. ToldFacts(d)' <=>
          /\ pc'[d] = "stream" => \A i \in DOMAIN came'[d] : came'[d][i].is # "error"
          /\ pc'[d] \in {"log", "done"} /\ came'[d] # <<>> =>
               \/ Last(came'[d]).is # "error"
               \/ \E status \in Errors :
                    /\ Last(came'[d]) = Error(status)
                    /\ IF ask[d].stream
                       THEN sent'[d] = <<Error(Relayed(d, status)), Done>>
                       ELSE pc'[d] = "done" /\ answer'[d][1] = Relayed(d, status)
    BY <1>0, <1>b DEF ToldFacts
  <1>1. ASSUME NEW c \in Calls, Acts(c), c # d
        PROVE  ToldFacts(d)'
    <2>1. Untouched(d)
      BY <1>1, Frame
    <2>2. QED
      BY <1>0, <2>1, <1>d DEF ToldFacts, Untouched
  <1>2. CASE Acts(d)
    <2>1. Does(d)
      BY <1>2, Own
    <2> USE DEF GoesOn, EndsWith, Sends
    <2>2. pc[d] \in Silent => came[d] = <<>>
      BY <1>0 DEF Stage, Silent, Before
    \* Only a refusal is an error, and it is the last thing that comes.
    <2>3. ASSUME NEW e \in Happening, e.is # "error", came'[d] = Append(came[d], e)
          PROVE  /\ Last(came'[d]).is # "error"
                 /\ pc[d] = "stream" => \A i \in DOMAIN came'[d] : came'[d][i].is # "error"
      BY <1>0, <1>a, <2>3, LastAppend DEF ToldFacts
    <2>4. CASE Breaks(d)
      BY <1>c, <1>d, <2>3, <2>4, EventKinds DEF Breaks
    <2>14. CASE Garbles(d)
      BY <1>c, <1>d, <2>3, <2>14, EventKinds DEF Garbles
    <2>5. CASE Skips(d)
      BY <1>c, <1>d, <2>3, <2>5, EventKinds DEF Skips
    <2>6. CASE Finishes(d)
      BY <1>c, <1>d, <2>3, <2>6, EventKinds DEF Finishes
    <2>7. ASSUME NEW chunk \in Chunks(Provider(d)), Forwards(d, chunk)
          PROVE  ToldFacts(d)'
      BY <1>c, <1>d, <2>3, <2>7 DEF Forwards
    <2>8. ASSUME NEW reply \in Replies(Provider(d)), Replied(d, reply)
          PROVE  ToldFacts(d)'
      BY <1>c, <1>d, <2>8, LastOne DEF Replied
    <2>9. ASSUME NEW status \in Errors, Refuses(d, status)
          PROVE  ToldFacts(d)'
      <3>1. Last(came'[d]) = Error(status) /\ pc'[d] # "stream"
        BY <2>9, LastOne DEF Refuses
      <3>2. IF ask[d].stream THEN sent'[d] = <<Error(Relayed(d, status)), Done>>
                             ELSE pc'[d] = "done" /\ answer'[d][1] = Relayed(d, status)
        BY <2>9 DEF Refuses, Relayed
      <3>3. QED
        BY <1>d, <3>1, <3>2
    <2>10. CASE Begins(d)
      BY <2>2, <2>10, <1>d DEF Begins, KeepsRest, KeepsStream, Silent
    <2>11. ASSUME KeepsStream(d), pc'[d] # "stream", pc[d] \in Silent \cup {"stream", "log"}
           PROVE  ToldFacts(d)'
      <3>1. CASE pc[d] \in Silent
        BY <1>d, <2>2, <2>11, <3>1 DEF KeepsStream
      <3>2. CASE pc[d] = "stream"
        <4>1. came[d] # <<>> => Len(came[d]) \in DOMAIN came[d]
          BY <1>a
        <4>2. came[d] # <<>> => Last(came[d]).is # "error"
          BY <1>0, <3>2, <4>1 DEF ToldFacts, Last
        <4>3. QED
          BY <1>d, <2>11, <4>2 DEF KeepsStream
      <3>3. CASE pc[d] = "log"
        BY <1>0, <1>d, <2>11, <3>3 DEF ToldFacts, KeepsStream
      <3>4. QED
        BY <2>11, <3>1, <3>2, <3>3
    <2>12. CASE KeepsStream(d) /\ ~Begins(d)
      <3>1. pc'[d] # "stream" /\ pc[d] \in Silent \cup {"stream", "log"}
        <4>1. \A s \in Seq(Happening), e \in Happening : Append(s, e) # s
          OBVIOUS
        <4>2. ~Skips(d) /\ \A chunk \in Chunks(Provider(d)) : ~Forwards(d, chunk)
          BY <1>a, <1>c, <2>12, <4>1 DEF Skips, Forwards, KeepsStream
        <4>3. QED
          BY <2>1, <2>12, <4>2
             DEF Does, Authenticates, Loads, Passes, Checks, Budgets, Connects, Breaks, Refuses,
                 Replied, Finishes, Garbles, Leaves, Logs, FailsToLog, Silent, Before
      <3>2. QED
        BY <2>11, <2>12, <3>1
    <2>13. QED
      BY <2>1, <2>4, <2>5, <2>6, <2>7, <2>8, <2>9, <2>10, <2>12, <2>14
         DEF Does, Authenticates, Loads, Passes, Checks, Budgets, Connects, Leaves, Logs,
             FailsToLog, KeepsRest
  <1>3. CASE Around
    <2>1. UNCHANGED <<pc, came, sent, answer>>
      BY <1>3, AroundKeeps DEF streaming
    <2>2. QED
      BY <1>0, <1>d, <2>1 DEF ToldFacts
  <1>4. CASE UNCHANGED vars
    <2>1. UNCHANGED <<pc, came, sent, answer>>
      BY <1>4 DEF vars, streaming
    <2>2. QED
      BY <1>0, <1>d, <2>1 DEF ToldFacts
  <1>5. QED
    BY <1>1, <1>2, <1>3, <1>4, NextSplit
-----------------------------------------------------------------------------
(***************************************************************************)
(* The stream: what has been sent of what has come.                        *)
(***************************************************************************)
InOrder(s, t, n) ==
  \E place \in [1..n -> DOMAIN s] :
    /\ \A i, j \in 1..n : i < j => place[i] < place[j]
    /\ \A i \in 1..n : t[i] = s[place[i]]
    /\ {place[i] : i \in 1..n} = {i \in DOMAIN s : s[i].is = "chunk"}

SentFacts(c) ==
  ask[c].stream /\ c \notin gone =>
    /\ pc[c] = "stream" => InOrder(came[c], sent[c], Len(sent[c]))
    /\ pc[c] \in {"log", "done"} /\ came[c] # <<>> /\ Last(came[c]).is # "error" =>
         IF Last(came[c]) = Done
         THEN /\ sent[c] # <<>> /\ Last(sent[c]) = Done
              /\ InOrder(came[c], sent[c], Len(sent[c]) - 1)
         ELSE InOrder(came[c], sent[c], Len(sent[c]))

SentInv == \A c \in Calls : SentFacts(c)

LEMMA InOrderNone == InOrder(<<>>, <<>>, 0)
  <1>1. [i \in 1..0 |-> i] \in [1..0 -> DOMAIN <<>>]
    OBVIOUS
  <1>2. DOMAIN <<>> = {} /\ 1..0 = {}
    OBVIOUS
  <1>3. QED
    BY <1>1, <1>2 DEF InOrder

\* What is not a chunk changes nothing of what has been sent.
LEMMA InOrderSkip ==
  ASSUME NEW s \in Seq(Happening), NEW t \in Seq(Happening), NEW e \in Happening,
         NEW u, \A i \in 1..Len(t) : u[i] = t[i],
         e.is # "chunk", InOrder(s, t, Len(t))
  PROVE  InOrder(Append(s, e), u, Len(t))
  <1> DEFINE n == Len(t)
             r == Append(s, e)
  <1>1. PICK place \in [1..n -> DOMAIN s] :
          /\ \A i, j \in 1..n : i < j => place[i] < place[j]
          /\ \A i \in 1..n : t[i] = s[place[i]]
          /\ {place[i] : i \in 1..n} = {i \in DOMAIN s : s[i].is = "chunk"}
    BY DEF InOrder
  <1>2. /\ DOMAIN r = (DOMAIN s) \cup {Len(s) + 1}
        /\ \A i \in DOMAIN s : r[i] = s[i]
        /\ r[Len(s) + 1] = e
    OBVIOUS
  <1> HIDE DEF n, r
  <1>3. place \in [1..n -> DOMAIN r]
    BY <1>2
  <1>4. \A i \in 1..n : u[i] = r[place[i]]
    BY <1>1, <1>2 DEF n
  <1>5. {i \in DOMAIN r : r[i].is = "chunk"} = {i \in DOMAIN s : s[i].is = "chunk"}
    BY <1>2
  <1>6. InOrder(r, u, n)
    BY <1>1, <1>3, <1>4, <1>5 DEF InOrder
  <1>7. QED
    BY <1>6 DEF n, r

\* A chunk is sent as it came, after those before it.
LEMMA InOrderChunk ==
  ASSUME NEW s \in Seq(Happening), NEW t \in Seq(Happening), NEW e \in Happening,
         e.is = "chunk", InOrder(s, t, Len(t))
  PROVE  InOrder(Append(s, e), Append(t, e), Len(t) + 1)
  <1> DEFINE n == Len(t)
             m == Len(s)
             r == Append(s, e)
             u == Append(t, e)
  <1>1. PICK place \in [1..n -> DOMAIN s] :
          /\ \A i, j \in 1..n : i < j => place[i] < place[j]
          /\ \A i \in 1..n : t[i] = s[place[i]]
          /\ {place[i] : i \in 1..n} = {i \in DOMAIN s : s[i].is = "chunk"}
    BY DEF InOrder
  <1>2. /\ DOMAIN r = (DOMAIN s) \cup {m + 1} /\ m + 1 \notin DOMAIN s
        /\ \A i \in DOMAIN s : r[i] = s[i]
        /\ r[m + 1] = e
    OBVIOUS
  <1>3. u[n + 1] = e /\ \A i \in 1..n : u[i] = t[i]
    OBVIOUS
  <1>4. n \in Nat /\ m \in Nat /\ DOMAIN s = 1..m
    OBVIOUS
  <1> HIDE DEF n, m, r, u
  <1> DEFINE where == [i \in 1..(n + 1) |-> IF i = n + 1 THEN m + 1 ELSE place[i]]
  <1>5. /\ where[n + 1] = m + 1
        /\ \A i \in 1..n : where[i] = place[i] /\ place[i] \in 1..m
    BY <1>4
  <1>6. 1..(n + 1) = (1..n) \cup {n + 1} /\ n + 1 \notin 1..n
    BY <1>4
  <1>7. where \in [1..(n + 1) -> DOMAIN r]
    BY <1>2, <1>4, <1>5, <1>6
  <1> HIDE DEF where
  <1>8. ASSUME NEW i \in 1..(n + 1), NEW j \in 1..(n + 1), i < j
        PROVE  where[i] < where[j]
    <2>1. i \in 1..n
      BY <1>4, <1>8
    <2>2. CASE j \in 1..n
      BY <1>1, <1>5, <1>8, <2>1, <2>2
    <2>3. CASE j = n + 1
      BY <1>4, <1>5, <2>1, <2>3
    <2>4. QED
      BY <1>6, <2>2, <2>3
  <1>9. \A i \in 1..(n + 1) : u[i] = r[where[i]]
    BY <1>1, <1>2, <1>3, <1>4, <1>5, <1>6
  <1>10. {where[i] : i \in 1..(n + 1)} = {place[i] : i \in 1..n} \cup {m + 1}
    BY <1>5, <1>6
  <1>11. {i \in DOMAIN r : r[i].is = "chunk"} = {i \in DOMAIN s : s[i].is = "chunk"} \cup {m + 1}
    BY <1>2
  <1>12. InOrder(r, u, n + 1)
    BY <1>1, <1>7, <1>8, <1>9, <1>10, <1>11 DEF InOrder
  <1>13. QED
    BY <1>12 DEF n, r, u

LEMMA DoneIsNoBreak ==
  /\ Break # Done /\ Unreadable # Done /\ Skipped # Done
  /\ Break.is # "chunk" /\ Unreadable.is # "chunk" /\ Done.is # "chunk" /\ Skipped.is # "chunk"
  BY DEF Break, Unreadable, Done, Skipped, Event

LEMMA ChunksAreChunks == \A p \in Providers : \A e \in Chunks(p) : e.is = "chunk"
  <1>1. \A p \in Providers : \A e \in Chunks(p) : \E bears : e = Chunk(bears)
    BY DEF Chunks, OpenAIChunks, AnthropicChunks
  <1>2. \A bears : Chunk(bears).is = "chunk"
    BY DEF Chunk, Event
  <1>3. QED
    BY <1>1, <1>2

LEMMA SentStep == TInv /\ SentInv /\ [Next]_vars => SentInv'
  <1> SUFFICES ASSUME TInv, SentInv, [Next]_vars, NEW d \in Calls
               PROVE  SentFacts(d)'
    BY DEF SentInv
  <1>0. SentFacts(d) /\ Stage(d) /\ GuardTypes /\ CallTypes /\ ask' = ask
    BY AskStays DEF TInv, SentInv
  <1>a. came[d] \in Seq(Happening) /\ sent[d] \in Seq(Happening) /\ Provider(d) \in Providers
    BY <1>0, AskFields DEF CallTypes
  <1>b. \A c \in Calls : Acts(c) => gone \subseteq gone'
    BY DEF Acts, Run, Authenticate, LoadKey, Guard, CheckBudget, Connect, PoolTimeout,
           Reply, StatusLine, NextChunk, Finish, Log, LogFails, Disconnect
  <1>c. /\ Break \in Happening /\ Unreadable \in Happening
        /\ Done \in Happening /\ Skipped \in Happening
        /\ Chunks(Provider(d)) \subseteq Happening
        /\ \A e \in Chunks(Provider(d)) : e.is = "chunk"
    BY <1>a, EventTypes, ChunksAreChunks
  <1>d. SentFacts(d)' <=>
          (ask[d].stream /\ d \notin gone' =>
             /\ pc'[d] = "stream" => InOrder(came'[d], sent'[d], Len(sent'[d]))
             /\ pc'[d] \in {"log", "done"} /\ came'[d] # <<>> /\ Last(came'[d]).is # "error" =>
                  IF Last(came'[d]) = Done
                  THEN /\ sent'[d] # <<>> /\ Last(sent'[d]) = Done
                       /\ InOrder(came'[d], sent'[d], Len(sent'[d]) - 1)
                  ELSE InOrder(came'[d], sent'[d], Len(sent'[d])))
    BY <1>0 DEF SentFacts
  <1>1. ASSUME NEW c \in Calls, Acts(c), c # d
        PROVE  SentFacts(d)'
    <2>1. Untouched(d) /\ gone \subseteq gone'
      BY <1>1, <1>b, Frame
    <2>2. QED
      BY <1>0, <1>d, <2>1 DEF SentFacts, Untouched
  <1>2. CASE Acts(d)
    <2>1. Does(d) /\ gone \subseteq gone'
      BY <1>2, <1>b, Own
    <2> USE DEF GoesOn, EndsWith, Sends
    <2>2. pc[d] \in Silent => came[d] = <<>> /\ sent[d] = <<>>
      BY <1>0 DEF Stage
    <2>3. pc[d] \in {"connect", "head", "stream"} /\ ask[d].stream /\ d \notin gone' =>
            InOrder(came[d], sent[d], Len(sent[d]))
      <3>1. Len(<<>>) = 0
        OBVIOUS
      <3>2. CASE pc[d] \in {"connect", "head"}
        BY <2>2, <3>1, <3>2, InOrderNone DEF Silent
      <3>3. CASE pc[d] = "stream"
        BY <1>0, <2>1, <3>3 DEF SentFacts
      <3>4. QED
        BY <3>2, <3>3
    <2>4. CASE Breaks(d)
      <3> SUFFICES ASSUME ask[d].stream, d \notin gone' PROVE SentFacts(d)'
        BY <1>d
      <3>1. pc[d] \in {"connect", "head", "stream"}
        BY <1>0, <2>4 DEF Breaks, Stage
      <3>2. InOrder(Append(came[d], Break), sent[d], Len(sent[d]))
        BY <1>a, <1>c, <2>3, <3>1, InOrderSkip, DoneIsNoBreak
      <3>3. Last(came'[d]) = Break
        BY <1>a, <1>c, <2>4, LastAppend DEF Breaks
      <3>4. QED
        BY <1>d, <2>4, <3>2, <3>3, DoneIsNoBreak DEF Breaks
    <2>15. CASE Garbles(d)
      <3> SUFFICES ASSUME ask[d].stream, d \notin gone' PROVE SentFacts(d)'
        BY <1>d
      <3>1. InOrder(Append(came[d], Unreadable), sent[d], Len(sent[d]))
        BY <1>a, <1>c, <2>3, <2>15, InOrderSkip, DoneIsNoBreak DEF Garbles
      <3>2. Last(came'[d]) = Unreadable
        BY <1>a, <1>c, <2>15, LastAppend DEF Garbles
      <3>3. QED
        BY <1>d, <2>15, <3>1, <3>2, DoneIsNoBreak DEF Garbles
    <2>5. CASE Skips(d)
      <3> SUFFICES ASSUME ask[d].stream, d \notin gone' PROVE SentFacts(d)'
        BY <1>d
      <3>1. InOrder(Append(came[d], Skipped), sent[d], Len(sent[d]))
        BY <1>a, <1>c, <2>3, <2>5, InOrderSkip, DoneIsNoBreak DEF Skips
      <3>2. QED
        BY <1>d, <2>5, <3>1 DEF Skips
    <2>6. CASE Finishes(d)
      <3> SUFFICES ASSUME ask[d].stream, d \notin gone' PROVE SentFacts(d)'
        BY <1>d
      <3>1. \A i \in 1..Len(sent[d]) : Append(sent[d], Done)[i] = sent[d][i]
        BY <1>a
      <3>2. InOrder(Append(came[d], Done), Append(sent[d], Done), Len(sent[d]))
        BY <1>a, <1>c, <2>3, <2>6, <3>1, InOrderSkip, DoneIsNoBreak DEF Finishes
      <3>3. Last(came'[d]) = Done /\ Last(sent'[d]) = Done
        BY <1>a, <1>c, <2>6, LastAppend DEF Finishes
      <3>4. Append(sent[d], Done) # <<>> /\ Len(Append(sent[d], Done)) - 1 = Len(sent[d])
        BY <1>a
      <3>5. QED
        BY <1>d, <2>6, <3>2, <3>3, <3>4 DEF Finishes
    <2>7. ASSUME NEW chunk \in Chunks(Provider(d)), Forwards(d, chunk)
          PROVE  SentFacts(d)'
      <3> SUFFICES ASSUME ask[d].stream, d \notin gone' PROVE SentFacts(d)'
        BY <1>d
      <3>1. chunk \in Happening /\ chunk.is = "chunk" /\ InOrder(came[d], sent[d], Len(sent[d]))
        BY <1>c, <2>3, <2>7 DEF Forwards
      <3>2. InOrder(Append(came[d], chunk), Append(sent[d], chunk), Len(sent[d]) + 1)
        BY <1>a, <3>1, InOrderChunk
      <3>3. Len(Append(sent[d], chunk)) = Len(sent[d]) + 1
        BY <1>a
      <3>4. QED
        BY <1>d, <2>7, <3>2, <3>3 DEF Forwards
    <2>8. ASSUME NEW status \in Errors, Refuses(d, status)
          PROVE  SentFacts(d)'
      <3>1. Last(came'[d]).is = "error" /\ pc'[d] # "stream"
        BY <2>8, LastOne, EventKinds DEF Refuses
      <3>2. QED
        BY <1>d, <3>1
    <2>9. ASSUME NEW reply \in Replies(Provider(d)), Replied(d, reply)
          PROVE  SentFacts(d)'
      BY <1>0, <1>d, <2>9 DEF Replied, Stage
    <2>10. CASE Begins(d)
      BY <1>d, <2>3, <2>10 DEF Begins, KeepsRest, KeepsStream
    <2>11. CASE Leaves(d)
      BY <1>d, <2>11 DEF Leaves
    <2>12. CASE Logs(d) \/ FailsToLog(d)
      BY <1>0, <1>d, <2>1, <2>12 DEF SentFacts, Logs, FailsToLog, KeepsRest, KeepsStream
    <2>13. CASE \/ Authenticates(d) \/ Loads(d) \/ Passes(d) \/ Checks(d) \/ Budgets(d)
                \/ Connects(d)
      <3>1. KeepsStream(d) /\ pc[d] \in Silent /\ pc'[d] # "stream"
        BY <2>13 DEF Authenticates, Loads, Passes, Checks, Budgets, Connects, KeepsRest,
                     Silent, Before
      <3>2. QED
        BY <1>d, <2>2, <3>1 DEF KeepsStream
    <2>14. QED
      BY <2>1, <2>4, <2>5, <2>6, <2>7, <2>8, <2>9, <2>10, <2>11, <2>12, <2>13, <2>15 DEF Does
  <1>3. ASSUME UNCHANGED <<pc, came, sent, gone>>
        PROVE  SentFacts(d)'
    BY <1>0, <1>d, <1>3 DEF SentFacts
  <1>4. CASE Around
    BY <1>3, <1>4, AroundKeeps DEF streaming
  <1>5. CASE UNCHANGED vars
    BY <1>3, <1>5 DEF vars, streaming
  <1>6. QED
    BY <1>1, <1>2, <1>4, <1>5, NextSplit
-----------------------------------------------------------------------------
(***************************************************************************)
(* What calls take of a window.  The increments are a function of the      *)
(* calls here, so that what is said of them needs no state.                *)
(***************************************************************************)
Weigh(window) == [c \in Calls |-> Increment(c, window)]
UnitsOf(cs, inc) == UNION {{c} \X (1..inc[c]) : c \in cs}
Total(cs, inc) == Cardinality(UnitsOf(cs, inc))

LEMMA WeighType ==
  ASSUME GuardTypes, NEW window \in Kinds
  PROVE  Weigh(window) \in [Calls -> Nat]
  BY AskFields DEF Weigh, Increment

LEMMA TakenIsTotal ==
  ASSUME NEW cs \in SUBSET Calls, NEW window
  PROVE  Taken(cs, window) = Total(cs, Weigh(window))
  BY DEF Taken, Total, UnitsOf, Weigh

LEMMA TotalFinite ==
  ASSUME NEW inc \in [Calls -> Nat], NEW cs \in SUBSET Calls, IsFiniteSet(cs)
  PROVE  IsFiniteSet(UnitsOf(cs, inc)) /\ Total(cs, inc) \in Nat
  <1> DEFINE Of(c) == {c} \X (1..inc[c])
             f == [c \in cs |-> Of(c)]
             T == {Of(c) : c \in cs}
  <1>1. f \in Surjection(cs, T)
    BY DEF Surjection
  <1>2. IsFiniteSet(T)
    BY <1>1, FS_Surjection
  <1>3. ASSUME NEW c \in cs
        PROVE  IsFiniteSet(Of(c))
    <2>1. inc[c] \in Int
      OBVIOUS
    <2>2. IsFiniteSet(1..inc[c])
      BY <2>1, FS_Interval
    <2>3. IsFiniteSet({c})
      BY FS_Singleton
    <2>4. QED
      BY <2>2, <2>3, FS_Product
  <1>4. IsFiniteSet(UNION T)
    BY <1>2, <1>3, FS_UNION
  <1>5. QED
    BY <1>4, FS_CardinalityType DEF UnitsOf, Total

\* A call that joins others adds its increment to what they take.
LEMMA TotalAdd ==
  ASSUME NEW inc \in [Calls -> Nat], NEW cs \in SUBSET Calls, IsFiniteSet(cs),
         NEW c \in Calls, c \notin cs
  PROVE  Total(cs \cup {c}, inc) = Total(cs, inc) + inc[c]
  <1> DEFINE U == {c} \X (1..inc[c])
  <1>1. inc[c] \in Nat
    OBVIOUS
  <1>2. IsFiniteSet(1..inc[c]) /\ Cardinality(1..inc[c]) = inc[c]
    BY <1>1, FS_Interval
  <1>3. IsFiniteSet(U) /\ Cardinality(U) = inc[c]
    <2> DEFINE f == [i \in 1..inc[c] |-> <<c, i>>]
    <2>1. f \in Bijection(1..inc[c], U)
      BY DEF Bijection, Injection, Surjection, IsInjective
    <2>2. QED
      BY <1>2, <2>1, FS_Bijection DEF ExistsBijection
  <1>4. UnitsOf(cs \cup {c}, inc) = UnitsOf(cs, inc) \cup U
    BY DEF UnitsOf
  <1>5. UnitsOf(cs, inc) \cap U = {}
    BY DEF UnitsOf
  <1>6. Cardinality(UnitsOf(cs, inc) \cap U) = 0
    BY <1>5, FS_EmptySet
  <1>7. IsFiniteSet(UnitsOf(cs, inc)) /\ Total(cs, inc) \in Nat
    BY TotalFinite
  <1> HIDE DEF U
  <1>8. Cardinality(UnitsOf(cs, inc) \cup U) = Total(cs, inc) + Cardinality(U) - 0
    BY <1>3, <1>6, <1>7, FS_Union DEF Total
  <1>9. Total(cs, inc) + inc[c] - 0 = Total(cs, inc) + inc[c]
    BY <1>1, <1>7
  <1>10. QED
    BY <1>3, <1>4, <1>8, <1>9, Zenon DEF Total

LEMMA TotalMonotone ==
  ASSUME NEW inc \in [Calls -> Nat], NEW cs \in SUBSET Calls, IsFiniteSet(cs),
         NEW ds \in SUBSET cs
  PROVE  IsFiniteSet(ds) /\ Total(ds, inc) \in Nat /\ Total(ds, inc) <= Total(cs, inc)
  <1>1. IsFiniteSet(UnitsOf(cs, inc))
    BY TotalFinite
  <1>2. UnitsOf(ds, inc) \in SUBSET UnitsOf(cs, inc)
    BY DEF UnitsOf
  <1>3. IsFiniteSet(ds) /\ ds \in SUBSET Calls
    BY FS_Subset
  <1>4. QED
    BY <1>1, <1>2, <1>3, FS_Subset, TotalFinite DEF Total

\* The tuple that a call has recorded in a window.
Entry(c, window) == [ts |-> at[c], inc |-> Increment(c, window), id |-> c]

\* What the limiter adds up over the tuples of calls is what the calls take.
LEMMA UsageIsTotal ==
  ASSUME GuardTypes, NEW window \in Kinds, NEW cs \in SUBSET Calls, IsFiniteSet(cs)
  PROVE  Limiter!Usage({Entry(c, window) : c \in cs}) = Total(cs, Weigh(window))
  <1> DEFINE inc == Weigh(window)
             E == {Entry(c, window) : c \in cs}
             f == [x \in UnitsOf(cs, inc) |-> <<Entry(x[1], window), x[2]>>]
  <1>1. \A S : Limiter!Cardinality(S) = Cardinality(S)
    BY DEF Limiter!Cardinality, Cardinality
  <1>2. IsFiniteSet(UnitsOf(cs, inc))
    BY WeighType, TotalFinite
  <1>3. \A x \in UnitsOf(cs, inc) : x = <<x[1], x[2]>> /\ x[1] \in cs /\ x[2] \in 1..inc[x[1]]
    BY DEF UnitsOf
  <1>4. \A c \in cs : Entry(c, window).inc = inc[c] /\ Entry(c, window).id = c
    BY DEF Entry, Weigh
  <1>5. \A y : y \in Limiter!Units(E) <=>
                 \E c \in cs : \E i \in 1..inc[c] : y = <<Entry(c, window), i>>
    BY <1>4 DEF Limiter!Units
  <1>6. \A c \in cs : \A i \in 1..inc[c] : <<c, i>> \in UnitsOf(cs, inc)
    BY DEF UnitsOf
  <1> HIDE DEF inc, E
  <1>7. f \in [UnitsOf(cs, inc) -> Limiter!Units(E)]
    BY <1>3, <1>5
  <1>8. \A x, y \in UnitsOf(cs, inc) : f[x] = f[y] => x = y
    <2> SUFFICES ASSUME NEW x \in UnitsOf(cs, inc), NEW y \in UnitsOf(cs, inc), f[x] = f[y]
                 PROVE  x = y
      OBVIOUS
    <2>1. Entry(x[1], window) = Entry(y[1], window) /\ x[2] = y[2]
      OBVIOUS
    <2>2. x[1] = y[1]
      BY <1>3, <1>4, <2>1
    <2>3. QED
      BY <1>3, <2>1, <2>2
  <1>9. ASSUME NEW y \in Limiter!Units(E)
        PROVE  \E x \in UnitsOf(cs, inc) : f[x] = y
    <2>1. PICK c \in cs : \E i \in 1..inc[c] : y = <<Entry(c, window), i>>
      BY <1>5
    <2>2. PICK i \in 1..inc[c] : y = <<Entry(c, window), i>>
      BY <2>1
    <2>3. <<c, i>> \in UnitsOf(cs, inc)
      BY <1>6
    <2>4. f[<<c, i>>] = y
      BY <2>2, <2>3
    <2>5. QED
      BY <2>3, <2>4
  <1>10. f \in Bijection(UnitsOf(cs, inc), Limiter!Units(E))
    BY <1>7, <1>8, <1>9 DEF Bijection, Injection, Surjection, IsInjective
  <1>11. Cardinality(Limiter!Units(E)) = Cardinality(UnitsOf(cs, inc))
    BY <1>2, <1>10, FS_Bijection DEF ExistsBijection
  <1>12. QED
    BY <1>1, <1>11 DEF Limiter!Usage, Total, inc, E
-----------------------------------------------------------------------------
(***************************************************************************)
(* The windows: each tuple is the slot of one call, and a slot that is     *)
(* still in the window has its tuple, so that what the limiter adds up is  *)
(* what the calls with a slot take.                                        *)
(***************************************************************************)
HeldBy(k, h, t, window) ==
  {c \in Calls : /\ ask[c].key = k /\ key[c] = h /\ window \in slots[c]
                 /\ t - Window < at[c] /\ at[c] <= t}

SlotFacts(c) ==
  /\ at[c] <= now
  /\ slots[c] # {} => Guarded(c)
  /\ pc[c] \notin Before /\ Guarded(c) /\ answer[c][2] \notin Kinds \cup {"model"} => slots[c] = Kinds
  /\ \A window \in slots[c] :
       Limit(ask[c].key, window) # Unset /\ now - Window < at[c] =>
         Entry(c, window) \in windows[Id(c, window)]

TuplesAreSlots ==
  \A w \in WindowIds : \A e \in windows[w] :
    \E c \in Calls : e = Entry(c, w[1]) /\ w = Id(c, w[1]) /\ w[1] \in slots[c]

StartedAreFinite == IsFiniteSet({c \in Calls : pc[c] # "idle"})

HeldWithinLimits ==
  \A k \in Keys, h \in 1..MaxHash, t \in 0..MaxTime, window \in Kinds :
    Limit(k, window) # Unset =>
      Total(HeldBy(k, h, t, window), Weigh(window)) <= Limit(k, window)

RefusalFacts(c) ==
  \A window \in Kinds :
    answer[c][2] = window =>
      /\ Limit(ask[c].key, window) \in Nat
      /\ Total(HeldBy(ask[c].key, key[c], at[c], window) \ {c}, Weigh(window)) + Increment(c, window)
           > Limit(ask[c].key, window)

WindowInv ==
  /\ \A c \in Calls : SlotFacts(c) /\ RefusalFacts(c)
  /\ TuplesAreSlots /\ StartedAreFinite /\ HeldWithinLimits

LEMMA LimitTypes ==
  ASSUME NEW k \in Keys, NEW window \in Kinds
  PROVE  Limit(k, window) \in Nat \cup {Unset}
  BY ChatAssumption DEF Limit

\* The calls with a slot are past their guards, and finitely many.
LEMMA HeldFinite ==
  ASSUME TInv, StartedAreFinite, NEW k, NEW h, NEW t, NEW window
  PROVE  /\ HeldBy(k, h, t, window) \in SUBSET Calls /\ IsFiniteSet(HeldBy(k, h, t, window))
         /\ \A c \in HeldBy(k, h, t, window) : pc[c] \notin Before
  <1>1. \A c \in Calls : window \in slots[c] => pc[c] \notin Before
    BY DEF TInv, Stage
  <1>2. HeldBy(k, h, t, window) \in SUBSET {c \in Calls : pc[c] # "idle"}
    BY <1>1 DEF HeldBy, Before
  <1>3. QED
    BY <1>1, <1>2, FS_Subset DEF StartedAreFinite, HeldBy

\* What a call finds when it prunes a window: the slots still in it.
LEMMA EntriesAreSlots ==
  ASSUME TInv, WindowInv, NEW c \in Calls, key[c] # NoKey, NEW window \in Kinds,
         Limit(ask[c].key, window) # Unset
  PROVE  Entries(c, window) = {Entry(d, window) : d \in HeldBy(ask[c].key, key[c], now, window)}
  <1>0. GuardTypes /\ Stage(c)
    BY DEF TInv
  <1>1. ask[c].key \in Keys
    BY <1>0, AskFields DEF Stage, Jwt
  <1>2. Id(c, window) \in WindowIds /\ Id(c, window)[1] = window
    BY <1>0, <1>1 DEF Id, WindowIds, Kinds, NoKey, GuardTypes
  <1>3. ASSUME NEW e \in windows[Id(c, window)], e.ts > now - Window
        PROVE  \E d \in HeldBy(ask[c].key, key[c], now, window) : e = Entry(d, window)
    <2>1. PICK d \in Calls : /\ e = Entry(d, window) /\ Id(c, window) = Id(d, window)
                             /\ window \in slots[d]
      BY <1>2, <1>3 DEF WindowInv, TuplesAreSlots
    <2>2. ask[d].key = ask[c].key /\ key[d] = key[c]
      BY <2>1 DEF Id
    <2>3. at[d] <= now /\ e.ts = at[d]
      BY <2>1 DEF WindowInv, SlotFacts, Entry
    <2>4. at[d] \in Nat /\ now \in Nat /\ Window \in Nat
      BY <1>0, Bounds DEF GuardTypes
    <2>5. now - Window < at[d]
      BY <1>3, <2>3, <2>4
    <2>6. d \in HeldBy(ask[c].key, key[c], now, window)
      BY <2>1, <2>2, <2>3, <2>5 DEF HeldBy
    <2>7. QED
      BY <2>1, <2>6
  <1>4. ASSUME NEW d \in HeldBy(ask[c].key, key[c], now, window)
        PROVE  Entry(d, window) \in windows[Id(c, window)] /\ Entry(d, window).ts > now - Window
    <2>1. /\ d \in Calls /\ ask[d].key = ask[c].key /\ key[d] = key[c] /\ window \in slots[d]
          /\ now - Window < at[d]
      BY DEF HeldBy
    <2>2. Id(c, window) = Id(d, window)
      BY <2>1 DEF Id
    <2>3. Entry(d, window) \in windows[Id(d, window)]
      BY <2>1 DEF WindowInv, SlotFacts
    <2>4. Entry(d, window).ts = at[d] /\ at[d] \in Nat /\ now \in Nat /\ Window \in Nat
      BY <1>0, <2>1, Bounds DEF Entry, GuardTypes
    <2>5. QED
      BY <2>1, <2>2, <2>3, <2>4
  <1>5. QED
    BY <1>3, <1>4 DEF Entries, Limiter!Pruned

\* A window is full for a call when the slots in it and its own increment
\* pass the limit.
LEMMA FullMeans ==
  ASSUME TInv, WindowInv, NEW c \in Calls, key[c] # NoKey, NEW window \in Kinds
  PROVE  Full(c, window) <=>
           /\ Limit(ask[c].key, window) # Unset
           /\ ~(Total(HeldBy(ask[c].key, key[c], now, window), Weigh(window)) + Increment(c, window)
                  <= Limit(ask[c].key, window))
  <1> DEFINE held == HeldBy(ask[c].key, key[c], now, window)
  <1>1. GuardTypes /\ held \in SUBSET Calls /\ IsFiniteSet(held)
    BY HeldFinite DEF TInv, WindowInv
  <1>2. Limit(ask[c].key, window) # Unset => Entries(c, window) = {Entry(d, window) : d \in held}
    BY EntriesAreSlots
  <1> HIDE DEF held
  <1>3. Limiter!Usage({Entry(d, window) : d \in held}) = Total(held, Weigh(window))
    BY <1>1, UsageIsTotal
  <1>4. QED
    BY <1>2, <1>3 DEF Full, Limiter!Fits, held

\* The part of a step that concerns the windows.
Rests(c) ==
  /\ KeepsSlots(c)
  /\ pc[c] \notin Before => pc'[c] \notin Before /\ key'[c] = key[c]
  /\ pc[c] \in Before /\ pc'[c] \notin Before => key'[c] = NoKey \/ ask[c].admin
  /\ answer'[c] = answer[c] \/ answer'[c][2] \notin Kinds \cup {"model"}
  /\ pc[c] # "done" /\ pc'[c] # "idle"

Limits(c) ==
  \E granting \in SUBSET Kinds, checked \in SUBSET Kinds :
    /\ pc[c] = "guards" /\ pc'[c] \notin Before /\ key'[c] = key[c] /\ Guarded(c)
    /\ at'[c] = now /\ granting \subseteq checked
    /\ windows' = Checked(c, checked, granting) /\ slots'[c] = granting
    /\ \A window \in granting : ~Full(c, window)
    /\ \/ answer'[c][2] = "model"
       \/ \E window \in Kinds : answer'[c][2] = window /\ Full(c, window)
       \/ granting = Kinds /\ answer'[c] = answer[c]

LEMMA CheckedNothing ==
  ASSUME TInv, NEW c
  PROVE  Checked(c, {}, {}) = windows
  BY DEF Checked, TInv, GuardTypes

LEMMA WindowSteps ==
  ASSUME TInv, NEW c \in Calls, Acts(c)
  PROVE  Rests(c) \/ Limits(c)
  <1>0. Does(c) /\ Stage(c)
    BY Own DEF TInv
  <1> USE DEF Before, Kinds
  <1>1. CASE Checks(c)
    <2>0. slots[c] = {} /\ Checked(c, {}, {}) = windows
      BY <1>0, <1>1, CheckedNothing DEF Checks, Stage
    <2>1. /\ pc[c] = "guards" /\ pc'[c] \notin Before /\ key'[c] = key[c] /\ Guarded(c)
          /\ at'[c] = now
      BY <1>1 DEF Checks, KeepsKey, EndsWith, GoesOn
    <2>2. CASE windows' = windows /\ slots'[c] = slots[c] /\ EndsWith(c, 403, "model")
      <3>1. answer'[c][2] = "model"
        BY <2>2 DEF EndsWith
      <3>2. windows' = Checked(c, {}, {}) /\ slots'[c] = {}
        BY <2>0, <2>2
      <3>3. QED
        BY <2>1, <3>1, <3>2 DEF Limits
    <2>3. CASE /\ Full(c, "rpm") /\ windows' = Checked(c, {"rpm"}, {})
               /\ slots'[c] = slots[c] /\ EndsWith(c, 429, "rpm")
      <3>1. answer'[c][2] = "rpm" /\ "rpm" \in Kinds
        BY <2>3 DEF EndsWith
      <3>2. windows' = Checked(c, {"rpm"}, {}) /\ slots'[c] = {}
        BY <2>0, <2>3
      <3>3. {"rpm"} \in SUBSET Kinds /\ {} \in SUBSET Kinds
        OBVIOUS
      <3>4. QED
        BY <2>1, <2>3, <3>1, <3>2, <3>3 DEF Limits
    <2>4. CASE /\ ~Full(c, "rpm") /\ Full(c, "tpm") /\ windows' = Checked(c, Kinds, {"rpm"})
               /\ slots'[c] = {"rpm"} /\ EndsWith(c, 429, "tpm")
      <3>1. answer'[c][2] = "tpm" /\ "tpm" \in Kinds
        BY <2>4 DEF EndsWith
      <3>2. {"rpm"} \in SUBSET Kinds /\ Kinds \in SUBSET Kinds
        OBVIOUS
      <3>3. QED
        BY <2>1, <2>4, <3>1, <3>2 DEF Limits
    <2>5. CASE /\ ~Full(c, "rpm") /\ ~Full(c, "tpm") /\ windows' = Checked(c, Kinds, Kinds)
               /\ slots'[c] = Kinds /\ GoesOn(c, "budget")
      <3>1. answer'[c] = answer[c] /\ \A window \in Kinds : ~Full(c, window)
        BY <2>5 DEF GoesOn
      <3>2. Kinds \in SUBSET Kinds
        OBVIOUS
      <3>3. QED
        BY <2>1, <2>5, <3>1, <3>2 DEF Limits
    <2>6. QED
      BY <1>1, <2>2, <2>3, <2>4, <2>5 DEF Checks
  <1>2. CASE ~Checks(c)
    <2> USE DEF GoesOn, EndsWith, Sends, KeepsKey
    <2>1. CASE Authenticates(c)
      BY <1>0, <2>1 DEF Authenticates, Rests, Stage
    <2>2. CASE Passes(c)
      <3>1. ask[c].admin \in BOOLEAN
        BY AskFields DEF TInv
      <3>2. QED
        BY <1>0, <2>2, <3>1 DEF Passes, Rests, Guarded
    <2>3. QED
      BY <1>0, <1>2, <2>1, <2>2
         DEF Does, Loads, Budgets, Connects, Breaks, Refuses, Replied, Begins, Forwards, Skips,
             Finishes, Garbles, Leaves, Logs, FailsToLog, Rests
  <1>3. QED
    BY <1>1, <1>2

\* A step that grants no slot changes nothing of who holds one.
LEMMA HeldStays ==
  ASSUME TInv, ask' = ask,
         \A d \in Calls : /\ at'[d] = at[d] /\ slots'[d] = slots[d]
                          /\ slots[d] # {} => key'[d] = key[d]
  PROVE  \A k, h, t, window : HeldBy(k, h, t, window)' = HeldBy(k, h, t, window)
  BY DEF HeldBy

LEMMA WeighStays ==
  ASSUME ask' = ask
  PROVE  /\ \A window : Weigh(window)' = Weigh(window)
         /\ \A c, window : Increment(c, window)' = Increment(c, window)
  BY DEF Weigh, Increment

\* What is not a slot newly granted or a call newly refused stays true.
LEMMA WindowRests ==
  ASSUME TInv, WindowInv, ask' = ask, windows' = windows, now' \in Nat, now' >= now,
         StartedAreFinite',
         \A d \in Calls : /\ at'[d] = at[d] /\ slots'[d] = slots[d]
                          /\ slots[d] # {} => key'[d] = key[d]
                          /\ key'[d] = key[d] \/ answer'[d][2] \notin Kinds
                          /\ answer'[d] = answer[d] \/ answer'[d][2] \notin Kinds \cup {"model"}
                          /\ pc[d] \notin Before => pc'[d] \notin Before /\ key'[d] = key[d]
                          /\ pc[d] \in Before /\ pc'[d] \notin Before =>
                               key'[d] = NoKey \/ ask[d].admin
                          /\ answer'[d] # answer[d] => answer[d][2] \notin Kinds \cup {"model"}
  PROVE  WindowInv'
  <1>0. GuardTypes /\ Window \in Nat /\ now \in Nat
    BY Bounds DEF TInv, GuardTypes
  <1>1. /\ \A k, h, t, window : HeldBy(k, h, t, window)' = HeldBy(k, h, t, window)
        /\ \A window : Weigh(window)' = Weigh(window)
        /\ \A c, window : Increment(c, window)' = Increment(c, window)
    BY HeldStays, WeighStays
  <1>2. ASSUME NEW d \in Calls
        PROVE  SlotFacts(d)'
    <2>1. SlotFacts(d) /\ Stage(d) /\ at[d] \in Nat
      BY <1>0 DEF WindowInv, TInv, GuardTypes
    <2>2. at'[d] <= now'
      BY <1>0, <2>1 DEF SlotFacts
    <2>3. slots'[d] # {} => Guarded(d)'
      BY <2>1 DEF SlotFacts, Guarded
    <2>4. pc'[d] \notin Before /\ Guarded(d)' /\ answer'[d][2] \notin Kinds \cup {"model"}
            => slots'[d] = Kinds
      BY <2>1 DEF SlotFacts, Guarded
    <2>5. ASSUME NEW window \in slots'[d], Limit(ask[d].key, window) # Unset,
                 now' - Window < at'[d]
          PROVE  Entry(d, window)' \in windows'[Id(d, window)']
      <3>1. now - Window < at[d]
        BY <1>0, <2>1, <2>5
      <3>2. Entry(d, window)' = Entry(d, window)
        BY <1>1 DEF Entry
      <3>3. Id(d, window)' = Id(d, window)
        BY <2>5 DEF Id
      <3>4. QED
        BY <2>1, <2>5, <3>1, <3>2, <3>3 DEF SlotFacts
    <2>6. QED
      BY <2>2, <2>3, <2>4, <2>5 DEF SlotFacts, Limit
  <1>3. ASSUME NEW d \in Calls
        PROVE  RefusalFacts(d)'
    <2> SUFFICES ASSUME NEW window \in Kinds, answer'[d][2] = window
                 PROVE  /\ Limit(ask[d].key, window) \in Nat
                        /\ Total(HeldBy(ask[d].key, key[d], at[d], window)' \ {d}, Weigh(window)')
                             + Increment(d, window)' > Limit(ask[d].key, window)
      BY DEF RefusalFacts, Limit
    <2>1. answer[d][2] = window /\ key'[d] = key[d] /\ at'[d] = at[d] /\ RefusalFacts(d)
      BY DEF WindowInv
    <2>2. HeldBy(ask[d].key, key[d], at[d], window)' = HeldBy(ask[d].key, key[d], at[d], window)
      BY <2>1, <1>1 DEF HeldBy
    <2>3. QED
      BY <1>1, <2>1, <2>2 DEF RefusalFacts
  <1>4. TuplesAreSlots'
    <2> SUFFICES ASSUME NEW w \in WindowIds, NEW e \in windows[w]
                 PROVE  \E c \in Calls : /\ e = Entry(c, w[1])' /\ w = Id(c, w[1])'
                                         /\ w[1] \in slots'[c]
      BY DEF TuplesAreSlots
    <2>1. PICK c \in Calls : e = Entry(c, w[1]) /\ w = Id(c, w[1]) /\ w[1] \in slots[c]
      BY DEF WindowInv, TuplesAreSlots
    <2>2. Entry(c, w[1])' = Entry(c, w[1]) /\ Id(c, w[1])' = Id(c, w[1])
      BY <1>1, <2>1 DEF Entry, Id
    <2>3. QED
      BY <2>1, <2>2
  <1>5. HeldWithinLimits'
    <2> SUFFICES ASSUME NEW k \in Keys, NEW h \in 1..MaxHash, NEW t \in 0..MaxTime,
                        NEW window \in Kinds, Limit(k, window) # Unset
                 PROVE  Total(HeldBy(k, h, t, window)', Weigh(window)') <= Limit(k, window)
      BY DEF HeldWithinLimits, Limit
    <2>1. QED
      BY <1>1 DEF WindowInv, HeldWithinLimits
  <1>6. QED
    BY <1>2, <1>3, <1>4, <1>5 DEF WindowInv

\* A call that the guards let through or refuse.
LEMMA WindowLimits ==
  ASSUME TInv, WindowInv, ask' = ask, now' = now, StartedAreFinite',
         NEW c \in Calls, Limits(c), \A d \in Calls : d # c => Untouched(d)
  PROVE  WindowInv'
  <1> DEFINE k == ask[c].key
             h == key[c]
  <1>0. /\ GuardTypes /\ Stage(c) /\ Window \in Nat \ {0} /\ now \in 0..MaxTime /\ now \in Nat
        /\ MaxTime \in Nat
    BY Bounds DEF TInv, GuardTypes
  <1>1. PICK granting \in SUBSET Kinds, checked \in SUBSET Kinds :
          /\ pc[c] = "guards" /\ pc'[c] \notin Before /\ key'[c] = key[c] /\ Guarded(c)
          /\ at'[c] = now /\ granting \subseteq checked
          /\ windows' = Checked(c, checked, granting) /\ slots'[c] = granting
          /\ \A window \in granting : ~Full(c, window)
          /\ \/ answer'[c][2] = "model"
             \/ \E window \in Kinds : answer'[c][2] = window /\ Full(c, window)
             \/ granting = Kinds /\ answer'[c] = answer[c]
    BY DEF Limits
  <1>2. slots[c] = {} /\ answer[c] = <<0, "none">>
    BY <1>0, <1>1 DEF Stage, Before
  <1>3. k \in Keys /\ h \in 1..MaxHash /\ key[c] # NoKey
    <2>1. k \in Keys
      BY <1>0, <1>1, AskFields DEF Stage, Jwt, Guarded
    <2>2. QED
      BY <1>0, <1>1, <2>1, Bounds DEF GuardTypes, Guarded, NoKey
  <1>4. /\ \A window : Weigh(window)' = Weigh(window)
        /\ \A d, window : Increment(d, window)' = Increment(d, window)
    BY WeighStays
  <1>5. \A d \in Calls : d # c =>
          /\ at'[d] = at[d] /\ slots'[d] = slots[d] /\ key'[d] = key[d] /\ pc'[d] = pc[d]
          /\ answer'[d] = answer[d]
    BY DEF Untouched
  <1>6. \A d \in Calls : \A window : d # c =>
          Entry(d, window)' = Entry(d, window) /\ Id(d, window)' = Id(d, window)
    BY <1>4, <1>5 DEF Entry, Id
  <1>7. \A window : /\ Id(c, window)' = Id(c, window)
                    /\ Entry(c, window)' = [ts |-> now, inc |-> Increment(c, window), id |-> c]
    BY <1>1, <1>4 DEF Id, Entry
  <1>8. \A window \in Kinds : Id(c, window) \in WindowIds /\ Id(c, window)[1] = window
    BY <1>3 DEF Id, WindowIds, Kinds
  \* The windows after the step.
  <1>9. ASSUME NEW w \in WindowIds
        PROVE  \/ windows'[w] = windows[w]
               \/ /\ w[1] \in checked /\ w = Id(c, w[1]) /\ Limit(k, w[1]) # Unset
                  /\ windows'[w] = Entries(c, w[1]) \cup
                                     (IF w[1] \in granting THEN {Entry(c, w[1])'} ELSE {})
    <2>1. windows'[w] = IF \E kind \in checked : w = Id(c, kind) /\ Limit(k, kind) # Unset
                        THEN Entries(c, w[1]) \cup
                               (IF w[1] \in granting THEN {Entry(c, w[1])'} ELSE {})
                        ELSE windows[w]
      BY <1>1, <1>7 DEF Checked
    <2>2. ASSUME NEW kind \in checked, w = Id(c, kind)
          PROVE  kind = w[1]
      BY <2>2 DEF Id
    <2>3. QED
      BY <2>1, <2>2
  <1>10. ASSUME NEW window \in granting, Limit(k, window) # Unset
         PROVE  Entry(c, window)' \in windows'[Id(c, window)]
    <2>1. windows'[Id(c, window)] = Entries(c, window) \cup {Entry(c, window)'}
      BY <1>1, <1>7, <1>8, <1>10 DEF Checked
    <2>2. QED
      BY <2>1
  <1>11. \A w \in WindowIds : \A e \in windows[w] : e.ts > now - Window => e \in windows'[w]
    <2> SUFFICES ASSUME NEW w \in WindowIds, NEW e \in windows[w], e.ts > now - Window
                 PROVE  e \in windows'[w]
      OBVIOUS
    <2>1. w = Id(c, w[1]) => e \in Entries(c, w[1])
      BY DEF Entries, Limiter!Pruned
    <2>2. QED
      BY <1>9, <2>1
  <1>12. ASSUME NEW d \in Calls
         PROVE  SlotFacts(d)'
    <2> SUFFICES /\ at'[d] <= now
                 /\ slots'[d] # {} => key'[d] # NoKey /\ ~ask[d].admin
                 /\ pc'[d] \notin Before /\ key'[d] # NoKey /\ ~ask[d].admin
                      /\ answer'[d][2] \notin Kinds \cup {"model"} => slots'[d] = Kinds
                 /\ \A window \in slots'[d] :
                      Limit(ask[d].key, window) # Unset /\ now - Window < at'[d] =>
                        Entry(d, window)' \in windows'[Id(d, window)']
      BY DEF SlotFacts, Guarded, Limit
    <2>1. CASE d = c
      <3>1. answer'[c][2] \notin Kinds \cup {"model"} => granting = Kinds
        BY <1>1
      <3>2. QED
        BY <1>0, <1>1, <1>7, <1>10, <2>1, <3>1 DEF Guarded
    <2>2. CASE d # c
      <3>1. SlotFacts(d)
        BY DEF WindowInv
      <3>2. ASSUME NEW window \in slots[d], Limit(ask[d].key, window) # Unset,
                   now - Window < at[d]
            PROVE  Entry(d, window) \in windows'[Id(d, window)]
        <4>1. Entry(d, window) \in windows[Id(d, window)]
          BY <3>1, <3>2 DEF SlotFacts
        <4>2. Id(d, window) \in WindowIds
          <5>1. window \in Kinds /\ key[d] # NoKey
            BY <1>0, <3>1, <3>2 DEF SlotFacts, Guarded, GuardTypes
          <5>2. ask[d].key \in Keys
            BY <1>0, <5>1, AskFields DEF TInv, Stage, Jwt
          <5>3. QED
            BY <1>0, <5>1, <5>2, Bounds DEF Id, WindowIds, Kinds, GuardTypes, NoKey
        <4>3. Entry(d, window).ts = at[d] /\ at[d] \in Nat
          BY <1>0 DEF Entry, GuardTypes
        <4>4. Entry(d, window).ts > now - Window
          BY <1>0, <3>2, <4>3
        <4>5. QED
          BY <1>11, <4>1, <4>2, <4>4
      <3>3. QED
        BY <1>5, <1>6, <2>2, <3>1, <3>2 DEF SlotFacts, Guarded
    <2>3. QED
      BY <2>1, <2>2
  <1>13. TuplesAreSlots'
    <2> SUFFICES ASSUME NEW w \in WindowIds, NEW e \in windows'[w]
                 PROVE  \E d \in Calls : /\ e = Entry(d, w[1])' /\ w = Id(d, w[1])'
                                         /\ w[1] \in slots'[d]
      BY DEF TuplesAreSlots
    <2>1. CASE e \in windows[w]
      <3>1. PICK d \in Calls : e = Entry(d, w[1]) /\ w = Id(d, w[1]) /\ w[1] \in slots[d]
        BY <2>1 DEF WindowInv, TuplesAreSlots
      <3>2. d # c
        BY <1>2, <3>1
      <3>3. QED
        BY <1>5, <1>6, <3>1, <3>2
    <2>2. CASE e \notin windows[w]
      <3>1. Entries(c, w[1]) \subseteq windows[Id(c, w[1])]
        BY DEF Entries, Limiter!Pruned
      <3>2. e = Entry(c, w[1])' /\ w = Id(c, w[1]) /\ w[1] \in granting
        BY <1>9, <2>2, <3>1
      <3>3. QED
        BY <1>1, <1>7, <3>2
    <2>3. QED
      BY <2>1, <2>2
  \* Who holds a slot after the step.
  <1>14. ASSUME NEW j, NEW g, NEW t, NEW window
         PROVE  /\ (j = k /\ g = h /\ window \in granting /\ t - Window < now /\ now <= t)
                     => HeldBy(j, g, t, window)' = HeldBy(j, g, t, window) \cup {c}
                /\ ~(j = k /\ g = h /\ window \in granting /\ t - Window < now /\ now <= t)
                     => HeldBy(j, g, t, window)' = HeldBy(j, g, t, window)
                /\ c \notin HeldBy(j, g, t, window)
    BY <1>1, <1>2, <1>5 DEF HeldBy
  <1>15. \A j, g, t, window :
           HeldBy(j, g, t, window) \in SUBSET Calls /\ IsFiniteSet(HeldBy(j, g, t, window))
    BY HeldFinite DEF WindowInv
  <1> HIDE DEF k, h
  <1>16. HeldWithinLimits'
    <2> SUFFICES ASSUME NEW j \in Keys, NEW g \in 1..MaxHash, NEW t \in 0..MaxTime,
                        NEW window \in Kinds, Limit(j, window) # Unset
                 PROVE  Total(HeldBy(j, g, t, window)', Weigh(window)) <= Limit(j, window)
      BY <1>4 DEF HeldWithinLimits, Limit
    <2>1. Total(HeldBy(j, g, t, window), Weigh(window)) <= Limit(j, window)
      BY DEF WindowInv, HeldWithinLimits
    <2>2. CASE ~(j = k /\ g = h /\ window \in granting /\ t - Window < now /\ now <= t)
      <3>1. HeldBy(j, g, t, window)' = HeldBy(j, g, t, window)
        BY <1>14, <2>2
      <3>2. QED
        BY <2>1, <3>1
    <2>3. CASE j = k /\ g = h /\ window \in granting /\ t - Window < now /\ now <= t
      <3> DEFINE held == HeldBy(k, h, t, window)
                 full == HeldBy(k, h, now, window)
                 inc == Weigh(window)
      <3>1. held \in SUBSET full
        <4> SUFFICES ASSUME NEW d \in held PROVE d \in full
          OBVIOUS
        <4>1. d \in Calls /\ t - Window < at[d]
          BY DEF HeldBy
        <4>2. at[d] <= now
          BY <4>1 DEF WindowInv, SlotFacts
        <4>3. at[d] \in Nat /\ t \in Nat
          BY <1>0, <4>1 DEF GuardTypes
        <4>4. now - Window < at[d]
          BY <1>0, <2>3, <4>1, <4>3
        <4>5. QED
          BY <4>2, <4>4 DEF HeldBy
      <3>2. Total(full, inc) + Increment(c, window) <= Limit(k, window)
        BY <1>1, <1>3, <2>3, FullMeans DEF k, h
      <3>3. inc \in [Calls -> Nat] /\ inc[c] = Increment(c, window) /\ inc[c] \in Nat
        BY <1>0, WeighType DEF Weigh
      <3>4. HeldBy(j, g, t, window)' = held \cup {c} /\ c \notin held
        BY <1>14, <2>3
      <3>5. full \in SUBSET Calls /\ IsFiniteSet(full) /\ held \in SUBSET Calls /\ IsFiniteSet(held)
        BY <1>15
      <3>6. Limit(k, window) \in Nat
        BY <1>3, <2>3, LimitTypes
      <3> HIDE DEF held, full, inc
      <3>7. Total(held \cup {c}, inc) = Total(held, inc) + inc[c]
        BY <3>3, <3>4, <3>5, TotalAdd
      <3>8. Total(held, inc) \in Nat /\ Total(held, inc) <= Total(full, inc)
        BY <3>1, <3>3, <3>5, TotalMonotone
      <3>9. Total(full, inc) \in Nat
        BY <3>3, <3>5, TotalFinite
      <3>10. Total(held, inc) + inc[c] <= Limit(k, window)
        BY <3>2, <3>3, <3>6, <3>8, <3>9
      <3>11. QED
        BY <2>3, <3>4, <3>7, <3>10, Zenon DEF inc
    <2>4. QED
      BY <2>2, <2>3
  <1>17. ASSUME NEW d \in Calls
         PROVE  RefusalFacts(d)'
    <2> SUFFICES ASSUME NEW window \in Kinds, answer'[d][2] = window
                 PROVE  /\ Limit(ask[d].key, window) \in Nat
                        /\ Total(HeldBy(ask[d].key, key[d], at[d], window)' \ {d}, Weigh(window))
                             + Increment(d, window) > Limit(ask[d].key, window)
      BY <1>4 DEF RefusalFacts, Limit
    <2> DEFINE inc == Weigh(window)
    <2>1. inc \in [Calls -> Nat] /\ inc[d] = Increment(d, window) /\ inc[d] \in Nat
      BY <1>0, WeighType DEF Weigh
    <2>2. CASE d # c
      <3> DEFINE held == HeldBy(ask[d].key, key[d], at[d], window)
      <3>1. answer[d][2] = window /\ key'[d] = key[d] /\ at'[d] = at[d] /\ RefusalFacts(d)
        BY <1>5, <2>2 DEF WindowInv
      <3>2. /\ Total(held \ {d}, inc) + inc[d] > Limit(ask[d].key, window)
            /\ Limit(ask[d].key, window) \in Nat
        BY <2>1, <3>1 DEF RefusalFacts
      <3>a. HeldBy(ask[d].key, key[d], at[d], window)' \in {held, held \cup {c}}
        <4> DEFINE j == ask[d].key
                   g == key[d]
                   t == at[d]
        <4>1. HeldBy(j, g, t, window)' = {e \in Calls : /\ ask[e].key = j /\ key'[e] = g
                 /\ window \in slots'[e] /\ t - Window < at'[e] /\ at'[e] <= t}
          BY <3>1 DEF HeldBy
        <4>2. held = {e \in Calls : /\ ask[e].key = j /\ key[e] = g
                 /\ window \in slots[e] /\ t - Window < at[e] /\ at[e] <= t}
          BY DEF HeldBy
        <4>3. QED
          BY <1>2, <1>5, <4>1, <4>2
      <3>3. held \in SUBSET Calls /\ IsFiniteSet(held)
        BY <1>15
      <3> HIDE DEF held, inc
      <3>4. IsFiniteSet(held \cup {c}) /\ held \cup {c} \in SUBSET Calls
        BY <3>3, FS_AddElement
      <3>5. ASSUME NEW S, S \in {held, held \cup {c}}
            PROVE  Total(S \ {d}, inc) + inc[d] > Limit(ask[d].key, window)
        <4>1. IsFiniteSet(S) /\ S \in SUBSET Calls /\ held \ {d} \in SUBSET (S \ {d})
          BY <3>3, <3>4, <3>5
        <4>2. S \ {d} \in SUBSET S
          OBVIOUS
        <4>3. IsFiniteSet(S \ {d}) /\ S \ {d} \in SUBSET Calls
          BY <4>1, <4>2, FS_Subset
        <4>4. /\ Total(held \ {d}, inc) \in Nat /\ Total(S \ {d}, inc) \in Nat
              /\ Total(held \ {d}, inc) <= Total(S \ {d}, inc)
          BY <2>1, <4>1, <4>3, TotalMonotone, TotalFinite
        <4>5. QED
          BY <2>1, <3>2, <4>4
      <3>6. QED
        BY <2>1, <3>2, <3>a, <3>5 DEF inc
    <2>3. CASE d = c
      <3>1. Full(c, window)
        BY <1>1, <1>2, <2>3 DEF Kinds
      <3>2. ~(Total(HeldBy(k, h, now, window), inc) + Increment(c, window) <= Limit(k, window))
            /\ Limit(k, window) # Unset
        BY <1>3, <3>1, FullMeans DEF k, h
      <3>a. PICK j, g, t : j = k /\ g = h /\ t = now
        OBVIOUS
      <3>3. HeldBy(ask[d].key, key[d], at[d], window)' = HeldBy(j, g, t, window)'
        BY <1>1, <2>3, <3>a DEF HeldBy, k, h
      <3>b. HeldBy(j, g, t, window)' \ {c} = HeldBy(j, g, t, window)
        BY <1>14
      <3>4. HeldBy(j, g, t, window)' \ {c} = HeldBy(k, h, now, window)
        BY <3>a, <3>b
      <3>5. Total(HeldBy(k, h, now, window), inc) \in Nat
        BY <1>15, <2>1, TotalFinite
      <3>6. Limit(k, window) \in Nat
        BY <1>3, <3>2, LimitTypes
      <3>7. Total(HeldBy(k, h, now, window), inc) + inc[c] > Limit(k, window)
        BY <2>1, <2>3, <3>2, <3>5, <3>6
      <3>8. QED
        BY <2>1, <2>3, <3>3, <3>4, <3>6, <3>7 DEF k
    <2>4. QED
      BY <2>2, <2>3
  <1>18. QED
    BY <1>12, <1>13, <1>16, <1>17 DEF WindowInv

LEMMA WindowStep == TInv /\ WindowInv /\ [Next]_vars => WindowInv'
  <1> SUFFICES ASSUME TInv, WindowInv, [Next]_vars PROVE WindowInv'
    OBVIOUS
  <1>0. ask' = ask /\ GuardTypes /\ now \in Nat
    BY AskStays, Bounds DEF TInv, GuardTypes
  <1>1. ASSUME NEW c \in Calls, Acts(c)
        PROVE  WindowInv'
    <2>1. \A d \in Calls : d # c => Untouched(d)
      BY <1>1, Frame
    <2>2. now' = now
      BY <1>1 DEF Acts, Run, Authenticate, LoadKey, Guard, CheckBudget, Connect, PoolTimeout,
                  Reply, StatusLine, NextChunk, Finish, Log, LogFails, Disconnect, guarding
    <2>3. StartedAreFinite'
      <3> DEFINE started == {d \in Calls : pc[d] # "idle"}
      <3>1. {d \in Calls : pc'[d] # "idle"} \in SUBSET (started \cup {c})
        BY <2>1 DEF Untouched
      <3>2. IsFiniteSet(started \cup {c})
        BY FS_AddElement DEF WindowInv, StartedAreFinite
      <3>3. QED
        BY <3>1, <3>2, FS_Subset DEF StartedAreFinite
    <2>4. CASE Limits(c)
      BY <1>0, <1>1, <2>1, <2>2, <2>3, <2>4, WindowLimits
    <2>5. CASE Rests(c)
      <3>1. Stage(c) /\ SlotFacts(c)
        BY DEF TInv, WindowInv
      <3>2. slots[c] # {} => pc[c] \notin Before
        BY <3>1 DEF Stage
      <3>3. answer[c][2] \notin Kinds \cup {"model"}
        BY <2>5, <3>1 DEF Stage, Rests, Kinds
      <3>4. /\ at'[c] = at[c] /\ slots'[c] = slots[c] /\ windows' = windows
            /\ slots[c] # {} => key'[c] = key[c]
            /\ key'[c] = key[c] \/ answer'[c][2] \notin Kinds
            /\ answer'[c] = answer[c] \/ answer'[c][2] \notin Kinds \cup {"model"}
            /\ pc[c] \notin Before => pc'[c] \notin Before /\ key'[c] = key[c]
            /\ pc[c] \in Before /\ pc'[c] \notin Before => key'[c] = NoKey \/ ask[c].admin
            /\ answer'[c] # answer[c] => answer[c][2] \notin Kinds \cup {"model"}
        BY <2>5, <3>2, <3>3 DEF Rests, KeepsSlots
      <3>5. \A d \in Calls :
              /\ at'[d] = at[d] /\ slots'[d] = slots[d]
              /\ slots[d] # {} => key'[d] = key[d]
              /\ key'[d] = key[d] \/ answer'[d][2] \notin Kinds
              /\ answer'[d] = answer[d] \/ answer'[d][2] \notin Kinds \cup {"model"}
              /\ pc[d] \notin Before => pc'[d] \notin Before /\ key'[d] = key[d]
              /\ pc[d] \in Before /\ pc'[d] \notin Before => key'[d] = NoKey \/ ask[d].admin
              /\ answer'[d] # answer[d] => answer[d][2] \notin Kinds \cup {"model"}
        BY <2>1, <3>4 DEF Untouched
      <3>6. now' \in Nat /\ now' >= now
        BY <1>0, <2>2
      <3>7. QED
        BY <1>0, <2>3, <3>4, <3>5, <3>6, WindowRests
    <2>6. QED
      BY <1>1, <2>4, <2>5, WindowSteps
  <1>2. ASSUME UNCHANGED <<windows, ask, pc, key, answer, at, slots>>, now' \in Nat, now' >= now
        PROVE  WindowInv'
    <2>1. StartedAreFinite'
      BY <1>2 DEF WindowInv, StartedAreFinite
    <2>2. QED
      BY <1>2, <2>1, WindowRests
  <1>3. CASE Around
    <2>1. UNCHANGED <<windows, ask, pc, key, answer, at, slots>> /\ now' \in Nat /\ now' >= now
      BY <1>3, AroundKeeps, Bounds
    <2>2. QED
      BY <1>2, <2>1
  <1>4. CASE UNCHANGED vars
    <2>1. UNCHANGED <<windows, ask, pc, key, answer, at, slots>> /\ now' \in Nat /\ now' >= now
      BY <1>0, <1>4 DEF vars, guarding
    <2>2. QED
      BY <1>2, <2>1
  <1>5. QED
    BY <1>1, <1>3, <1>4, NextSplit
-----------------------------------------------------------------------------
(***************************************************************************)
(* The inductive invariant, and what it says.                              *)
(***************************************************************************)
IInv == TInv /\ LogInv /\ ToldInv /\ SentInv /\ WindowInv

LEMMA InitWindowInv == Init => WindowInv
  <1> SUFFICES ASSUME Init PROVE WindowInv
    OBVIOUS
  <1>1. \A c \in Calls : /\ pc[c] = "idle" /\ key[c] = NoKey /\ slots[c] = {} /\ at[c] = 0
                         /\ answer[c] = <<0, "none">>
    BY DEF Init
  <1>2. now = 0 /\ \A w \in WindowIds : windows[w] = {}
    BY DEF Init
  <1>3. \A c \in Calls : SlotFacts(c) /\ RefusalFacts(c)
    BY <1>1, <1>2 DEF SlotFacts, RefusalFacts, Before, Kinds
  <1>4. TuplesAreSlots
    BY <1>2 DEF TuplesAreSlots
  <1>5. StartedAreFinite
    <2>1. {c \in Calls : pc[c] # "idle"} = {}
      BY <1>1
    <2>2. QED
      BY <2>1, FS_EmptySet DEF StartedAreFinite
  <1>6. HeldWithinLimits
    <2> SUFFICES ASSUME NEW k \in Keys, NEW h \in 1..MaxHash, NEW t \in 0..MaxTime,
                        NEW window \in Kinds, Limit(k, window) # Unset
                 PROVE  Total(HeldBy(k, h, t, window), Weigh(window)) <= Limit(k, window)
      BY DEF HeldWithinLimits
    <2>1. HeldBy(k, h, t, window) = {}
      BY <1>1 DEF HeldBy
    <2>2. UnitsOf({}, Weigh(window)) = {}
      BY DEF UnitsOf
    <2>3. Total({}, Weigh(window)) = 0
      BY <2>2, FS_EmptySet DEF Total
    <2>4. Limit(k, window) \in Nat
      BY LimitTypes
    <2>5. QED
      BY <2>1, <2>3, <2>4
  <1>7. QED
    BY <1>3, <1>4, <1>5, <1>6 DEF WindowInv

LEMMA InitIInv == Init => IInv
  <1> SUFFICES ASSUME Init PROVE IInv
    OBVIOUS
  <1>1. TInv /\ WindowInv
    BY InitTInv, InitWindowInv
  <1>3. LogInv
    <2>1. \A c \in Calls : came[c] = <<>> /\ finish[c] = FALSE /\ usage[c] = 0 /\ logs[c] = <<>>
      BY DEF Init
    <2>2. QED
      BY <2>1, BearingNone DEF LogInv, LogFacts, IsMost
  <1>4. ToldInv
    BY DEF Init, ToldInv, ToldFacts
  <1>5. SentInv
    BY DEF Init, SentInv, SentFacts
  <1>6. QED
    BY <1>1, <1>3, <1>4, <1>5 DEF IInv

LEMMA Inductive == Spec => []IInv
  <1>1. IInv /\ [Next]_vars => IInv'
    BY TStep, LogStep, ToldStep, SentStep, WindowStep DEF IInv
  <1>2. QED
    BY <1>1, InitIInv, PTL DEF Spec

\* Every variable has its type, and no stream is longer than its bound
\* (proxy_routes.py: chat_completions, http_client.py: post_stream).
THEOREM TypeCorrect == Spec => []TypeOK
  <1>1. IInv => TypeOK
    <2> SUFFICES ASSUME IInv PROVE TypeOK
      OBVIOUS
    <2>1. GuardTypes /\ CallTypes /\ \A c \in Calls : Stage(c)
      BY DEF IInv, TInv
    <2>3. pc \in [Calls -> {"idle", "key", "guards", "budget", "connect",
                            "reply", "head", "stream", "log", "done"}]
      BY <2>1 DEF CallTypes, Silent, Before
    <2>4. \A c \in Calls : Len(came[c]) <= MaxChunks + 1 /\ Len(sent[c]) <= MaxChunks + 2
      BY <2>1 DEF Stage
    <2>5. \A c \in Calls : answer[c][1] \in {0, 200} \cup 400..599
      BY <2>1 DEF CallTypes, Statuses
    <2>6. QED
      BY <2>1, <2>3, <2>4, <2>5 DEF TypeOK, GuardTypes, CallTypes, Kinds
  <1>2. QED
    BY <1>1, Inductive, PTL

\* A pool never exceeds its size, a call has its connection as long as its
\* exchange lasts, and keeps it afterwards only if post_stream was left
\* suspended: the client went away at a chunk, or the chunk could not be
\* transformed (http_client.py: post_stream, types.py: StreamWrapper,
\* proxy_routes.py: _sse_generator).
THEOREM PoolsHold == Spec => []ConnectionsAreReturned
  <1>1. IInv => ConnectionsAreReturned
    <2> SUFFICES ASSUME IInv, NEW p \in Providers
                 PROVE  /\ Cardinality(conns[p]) <= MaxConns
                        /\ {c \in Calls : /\ Provider(c) = p
                                          /\ pc[c] \in {"reply", "head", "stream"}} \subseteq conns[p]
                        /\ \A c \in conns[p] :
                             pc[c] \notin {"reply", "head", "stream"} => Suspended(c)
      BY DEF ConnectionsAreReturned, Suspended
    <2>1. QED
      BY DEF IInv, TInv, ConnsInv, Connected
  <1>2. QED
    BY <1>1, Inductive, PTL

\* Whatever other calls do between a call's guards and its dispatch, the
\* calls dispatched for a key under one hash pass neither limit in any
\* window, and one is refused only when the window is full of calls that each
\* took a slot once (proxy_guard.py: check_rate_limit, rate_limiter.py).
THEOREM LimitsHold == Spec => []LimitsAreExact
  <1>1. IInv => WithinLimits
    <2> SUFFICES ASSUME IInv, NEW k \in Keys, NEW h \in 1..MaxHash, NEW t \in 0..MaxTime,
                        NEW window \in Kinds, Limit(k, window) # Unset
                 PROVE  Taken({c \in Recent(k, h, t) : Dispatched(c) /\ ~ask[c].admin}, window)
                          <= Limit(k, window)
      BY DEF WithinLimits, Kinds
    <2> DEFINE dispatched == {c \in Recent(k, h, t) : Dispatched(c) /\ ~ask[c].admin}
               held == HeldBy(k, h, t, window)
               inc == Weigh(window)
    <2>1. held \in SUBSET Calls /\ IsFiniteSet(held)
      BY HeldFinite DEF IInv, WindowInv
    <2>2. dispatched \in SUBSET held
      <3> SUFFICES ASSUME NEW c \in dispatched PROVE c \in held
        OBVIOUS
      <3>1. /\ c \in Calls /\ ask[c].key = k /\ key[c] = h /\ pc[c] \notin Before
            /\ t - Window < at[c] /\ at[c] <= t /\ ~ask[c].admin
        BY DEF Recent, Before
      <3>2. Guarded(c)
        BY <3>1 DEF Guarded, NoKey
      <3>3. answer[c][2] \notin Kinds \cup {"model"}
        BY DEF Dispatched, Kinds
      <3>4. slots[c] = Kinds
        BY <3>1, <3>2, <3>3 DEF IInv, WindowInv, SlotFacts
      <3>5. QED
        BY <3>1, <3>4 DEF HeldBy
    <2>3. Taken(dispatched, window) = Total(dispatched, inc)
      BY <2>1, <2>2, TakenIsTotal
    <2>4. inc \in [Calls -> Nat]
      BY WeighType DEF IInv, TInv
    <2>5. Total(held, inc) <= Limit(k, window) /\ Limit(k, window) \in Nat
      BY LimitTypes DEF IInv, WindowInv, HeldWithinLimits
    <2> HIDE DEF dispatched, held, inc
    <2>6. Total(dispatched, inc) \in Nat /\ Total(dispatched, inc) <= Total(held, inc)
      BY <2>1, <2>2, <2>4, TotalMonotone
    <2>7. Total(held, inc) \in Nat
      BY <2>1, <2>4, TotalFinite
    <2>8. Taken(dispatched, window) <= Limit(k, window)
      BY <2>3, <2>5, <2>6, <2>7
    <2>9. QED
      BY <2>8 DEF dispatched
  <1>2. IInv => RefusedOnlyWhenFull
    <2> SUFFICES ASSUME IInv, NEW c \in Calls, NEW window \in Kinds, answer[c][2] = window
                 PROVE  Taken({d \in Recent(ask[c].key, key[c], at[c]) \ {c} : window \in slots[d]},
                              window) + Increment(c, window) > Limit(ask[c].key, window)
      BY DEF RefusedOnlyWhenFull, Kinds
    <2> DEFINE held == HeldBy(ask[c].key, key[c], at[c], window) \ {c}
    <2>1. \A d \in Calls : window \in slots[d] => pc[d] \notin {"idle", "key", "guards"}
      BY DEF IInv, TInv, Stage, Before
    <2>2. {d \in Recent(ask[c].key, key[c], at[c]) \ {c} : window \in slots[d]} = held
      BY <2>1 DEF Recent, HeldBy
    <2>3. held \in SUBSET Calls
      BY DEF HeldBy
    <2>4. Taken(held, window) = Total(held, Weigh(window))
      BY <2>3, TakenIsTotal
    <2>5. Total(held, Weigh(window)) + Increment(c, window) > Limit(ask[c].key, window)
      BY DEF IInv, WindowInv, RefusalFacts
    <2>6. QED
      BY <2>2, <2>4, <2>5
  <1>3. QED
    BY <1>1, <1>2, Inductive, PTL DEF LimitsAreExact

\* A call is logged once at most, with what came of it, and a stream is
\* logged however it ends, unless its client went away or log_spend failed
\* (proxy_routes.py: _sse_generator, _log_spend).
THEOREM LogsAreTrue == Spec => []LogIsTrue
  <1>1. IInv => LogIsTrue
    <2> SUFFICES ASSUME IInv, NEW c \in Calls
                 PROVE  /\ Len(logs[c]) <= 1
                        /\ logs[c] # <<>> =>
                             /\ logs[c][1].status = "completed" <=> Bearing(c, "finish") # {}
                             /\ logs[c][1].usage = Max(Bearing(c, "usage") \cup {0})
                        /\ ask[c].stream /\ pc[c] = "done" /\ came[c] # <<>> =>
                             logs[c] # <<>> \/ c \in gone \/ answer[c][2] = "unlogged"
      BY DEF LogIsTrue
    <2>1. LogFacts(c) /\ CallTypes
      BY DEF IInv, LogInv, TInv
    <2>2. \A part : Bearing(c, part) = BearingIn(came[c], part)
      BY DEF Bearing, BearingIn
    <2>3. Max(Bearing(c, "usage") \cup {0}) = usage[c]
      <3>1. Bearing(c, "usage") \cup {0} \subseteq Nat /\ usage[c] \in Nat
        BY <2>1 DEF CallTypes, Bearing
      <3>2. IsMost(usage[c], Bearing(c, "usage") \cup {0})
        BY <2>1, <2>2 DEF LogFacts
      <3>3. QED
        BY <3>1, <3>2, MostIsMax
    <2>4. CASE logs[c] = <<>>
      BY <2>1, <2>4 DEF LogFacts
    <2>5. CASE logs[c] # <<>>
      <3>1. logs[c] = <<[status |-> IF finish[c] THEN "completed" ELSE "partial",
                         usage |-> usage[c]]>>
        BY <2>1, <2>5 DEF LogFacts
      <3>2. Len(logs[c]) = 1 /\ logs[c][1].usage = usage[c]
            /\ (logs[c][1].status = "completed" <=> finish[c])
        BY <2>1, <3>1 DEF CallTypes
      <3>3. finish[c] <=> Bearing(c, "finish") # {}
        BY <2>1, <2>2 DEF LogFacts
      <3>4. QED
        BY <2>3, <2>5, <3>2, <3>3
    <2>6. QED
      BY <2>4, <2>5
  <1>2. QED
    BY <1>1, Inductive, PTL

\* A client is told what became of its call: a refusal by the provider keeps
\* its meaning, its own failures staying failures of a server and only a rate
\* limit becoming one (get_error_class of the providers, proxy_guard.py:
\* map_sdk_error); and a stream is every chunk that came, in order, then [DONE]
\* unless it broke (proxy_routes.py: _sse_generator).
THEOREM ClientsAreTold == Spec => []ClientIsTold
  <1>1. IInv => RefusalIsTold
    <2> SUFFICES ASSUME IInv, NEW c \in Calls, pc[c] \in {"log", "done"}, came[c] # <<>>,
                        c \notin gone, Last(came[c]).is = "error"
                 PROVE  /\ Last(came[c]).status >= 500 => Told(c) >= 500
                        /\ Last(came[c]).status = 429 <=> Told(c) = 429
      BY DEF RefusalIsTold
    <2>1. ToldFacts(c) /\ Provider(c) \in Providers
      BY AskFields DEF IInv, ToldInv, TInv
    <2>2. PICK status \in Errors :
            /\ Last(came[c]) = Error(status)
            /\ IF ask[c].stream THEN sent[c] = <<Error(Relayed(c, status)), Done>>
                                ELSE pc[c] = "done" /\ answer[c][1] = Relayed(c, status)
      BY <2>1 DEF ToldFacts
    <2>3. Told(c) = Relayed(c, status) /\ Last(came[c]).status = status
      BY <2>2, EventKinds DEF Told
    <2>4. QED
      BY <2>1, <2>3, StatusKept DEF Relayed
  <1>2. IInv => StreamIsTold
    <2> SUFFICES ASSUME IInv, NEW c \in Calls, ask[c].stream, c \notin gone,
                        pc[c] \in {"log", "done"}, came[c] # <<>>
                 PROVE  CASE Last(came[c]) = Done -> /\ sent[c] # <<>> /\ Last(sent[c]) = Done
                                                     /\ ChunksAreSent(c, Len(sent[c]) - 1)
                          [] Last(came[c]).is = "error" -> sent[c] = <<Error(Told(c)), Done>>
                          [] OTHER -> ChunksAreSent(c, Len(sent[c]))
      BY DEF StreamIsTold
    <2>1. ToldFacts(c) /\ SentFacts(c)
      BY DEF IInv, ToldInv, SentInv
    <2>2. \A n : ChunksAreSent(c, n) <=> InOrder(came[c], sent[c], n)
      BY DEF ChunksAreSent, InOrder
    <2>3. CASE Last(came[c]).is = "error"
      <3>1. PICK status \in Errors : sent[c] = <<Error(Relayed(c, status)), Done>>
        BY <2>1, <2>3 DEF ToldFacts
      <3>2. Told(c) = Relayed(c, status)
        BY <3>1, EventKinds DEF Told
      <3>3. sent[c] = <<Error(Told(c)), Done>>
        BY <3>1, <3>2
      <3>4. Last(came[c]) # Done
        BY <2>3, EventKinds
      <3>5. QED
        BY <2>3, <3>3, <3>4
    <2>4. CASE Last(came[c]) = Done
      <3>1. Last(came[c]).is # "error"
        BY <2>4, EventKinds
      <3>2. sent[c] # <<>> /\ Last(sent[c]) = Done /\ ChunksAreSent(c, Len(sent[c]) - 1)
        BY <2>1, <2>2, <2>4, <3>1 DEF SentFacts
      <3>3. QED
        BY <2>4, <3>1, <3>2
    <2>5. CASE Last(came[c]).is # "error" /\ Last(came[c]) # Done
      <3>1. ChunksAreSent(c, Len(sent[c]))
        BY <2>1, <2>2, <2>5 DEF SentFacts
      <3>2. QED
        BY <2>5, <3>1
    <2>6. QED
      BY <2>3, <2>4, <2>5
  <1>3. QED
    BY <1>1, <1>2, Inductive, PTL DEF ClientIsTold
=============================================================================
