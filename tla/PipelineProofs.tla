--------------------------- MODULE PipelineProofs ---------------------------
(* Proofs about Pipeline, for every set of requests, origins and limits. *)
EXTENDS Pipeline, TLAPS

Names == {"SecurityHeaders", "RequestID", "I18n", "ReqRespLogger", "Recovery", "CORS", "MaxBodySize",
          "AdminAuth", "RateLimit", "Handler"}

\* What the chain of a route looks like.
LEMMA ChainShape ==
  ASSUME NEW route \in Routes
  PROVE  /\ Chain(route) \in Seq(Names)
         /\ Len(Chain(route)) \in 7..10
         /\ \A i \in 1..7 : Chain(route)[i] = Globals[i]
         /\ route = "none" => Len(Chain(route)) <= 7
         /\ route # "none" => Len(Chain(route)) >= 8
         /\ route \in Guarded => Chain(route)[8] = "AdminAuth" /\ Len(Chain(route)) >= 9
         /\ route \in Limited => Chain(route)[9] = "RateLimit" /\ Len(Chain(route)) >= 10
         /\ route \notin Limited => Len(Chain(route)) <= 9
         /\ route \notin Guarded => Len(Chain(route)) <= 8
         /\ route # "none" => Chain(route)[Len(Chain(route))] = "Handler"
  <1> USE DEF Routes, Guarded, Limited, Globals, Names
  <1>1. CASE route = "none"
    <2>1. Chain(route) = Globals
      BY <1>1 DEF Chain
    <2>2. Chain(route) \in Seq(Names) /\ (\A i \in 1..7 : Chain(route)[i] = Globals[i])
      BY <2>1
    <2>3. Len(Chain(route)) \in 7..7
      BY <2>1
    <2>4. \A n \in 7..7 : n \in 7..10 /\ n <= 7 /\ n <= 8 /\ n <= 9
      OBVIOUS
    <2>5. "none" \notin Guarded /\ "none" \notin Limited
      OBVIOUS
    <2>6. QED
      BY <1>1, <2>2, <2>3, <2>4, <2>5, Zenon
  <1>2. CASE route \in Limited
    <2>1. Chain(route) = Globals \o <<"AdminAuth", "RateLimit", "Handler">>
      BY <1>2 DEF Chain
    <2>2. QED
      BY <1>2, <2>1
  <1>3. CASE route \in Guarded \ Limited
    <2>1. Chain(route) = Globals \o <<"AdminAuth", "Handler">>
      BY <1>3 DEF Chain
    <2>2. QED
      BY <1>3, <2>1
  <1>4. CASE route \notin Guarded \cup {"none"}
    <2>1. Chain(route) = Globals \o <<"Handler">>
      BY <1>4 DEF Chain
    <2>2. QED
      BY <1>4, <2>1
  <1>5. QED
    BY <1>1, <1>2, <1>3, <1>4

\* Where the handlers stand in it.
LEMMA Places ==
  ASSUME NEW route \in Routes, NEW i \in 1..Len(Chain(route))
  PROVE  /\ Chain(route)[i] = "ReqRespLogger" <=> i = 4
         /\ Chain(route)[i] = "Recovery" <=> i = 5
         /\ Chain(route)[i] = "SecurityHeaders" => i = 1
         /\ Chain(route)[i] = "RequestID" => i = 2
         /\ Chain(route)[i] = "I18n" => i = 3
         /\ Chain(route)[i] = "CORS" => i = 6
         /\ Chain(route)[i] = "MaxBodySize" => i = 7
         /\ Chain(route)[i] = "AdminAuth" => i = 8 /\ route \in Guarded
         /\ Chain(route)[i] = "RateLimit" => i = 9 /\ route \in Limited
         /\ Chain(route)[i] = "Handler" =>
              /\ i >= Len(Chain(route)) /\ route # "none"
              /\ i >= 8 /\ (route \in Guarded => i >= 9) /\ (route \in Limited => i >= 10)
  <1> USE DEF Routes, Guarded, Limited, Globals
  <1>1. CASE route = "none"
    <2>1. Chain(route) = Globals
      BY <1>1 DEF Chain
    <2>2. QED
      BY <1>1, <2>1
  <1>2. CASE route \in Limited
    <2>1. Chain(route) = Globals \o <<"AdminAuth", "RateLimit", "Handler">>
      BY <1>2 DEF Chain
    <2>2. QED
      BY <1>2, <2>1
  <1>3. CASE route \in Guarded \ Limited
    <2>1. Chain(route) = Globals \o <<"AdminAuth", "Handler">>
      BY <1>3 DEF Chain
    <2>2. QED
      BY <1>3, <2>1
  <1>4. CASE route \notin Guarded \cup {"none"}
    <2>1. Chain(route) = Globals \o <<"Handler">>
      BY <1>4 DEF Chain
    <2>2. QED
      BY <1>4, <2>1
  <1>5. QED
    BY <1>1, <1>2, <1>3, <1>4

LEMMA RouteTyped == TypeOK => req.route \in Routes /\ Len(Route) \in 7..10 /\ Route \in Seq(Names)
  BY ChainShape, RequestAssumption DEF TypeOK, Route, Request

LEMMA LanguageTyped ==
  ASSUME NEW tags \in Seq(Base) PROVE ParseAcceptLanguage(tags) \in Language
  <1> DEFINE first == {i \in DOMAIN tags : /\ tags[i] \in DOMAIN Supported
                                           /\ \A j \in 1..(i - 1) : tags[j] \notin DOMAIN Supported}
             i == CHOOSE i \in first : TRUE
  <1>1. CASE first = {}
    BY <1>1 DEF ParseAcceptLanguage, Language, DefaultLang
  <1>2. CASE first # {}
    <2>1. \A j \in first : tags[j] \in {"zh", "en"}
      BY DEF Supported
    <2>2. ParseAcceptLanguage(tags) = Supported[tags[i]] /\ i \in first
      BY <1>2, Zenon DEF ParseAcceptLanguage
    <2>3. \A b \in {"zh", "en"} : Supported[b] \in Language
      BY DEF Supported, Language
    <2> HIDE DEF first, i
    <2>4. QED
      BY <2>1, <2>2, <2>3, Zenon
  <1>3. QED
    BY <1>1, <1>2

LEMMA TypingInit == Init => TypeOK
  <1> SUFFICES ASSUME Init PROVE TypeOK
    OBVIOUS
  <1>1. req \in Requests /\ req.arrives \in Nat
    BY RequestAssumption DEF Init, Request
  <1>2. status \in 200..599 /\ index \in 0..AbortIndex
    BY DEF Init, AbortIndex
  <1>3. frames \in Seq(1..Len(Route)) /\ answers \in Seq(Answer) /\ log \in Seq(Entry)
    BY DEF Init
  <1>4. QED
    BY <1>1, <1>2, <1>3 DEF Init, TypeOK

LEMMA NextIndex ==
  ASSUME NEW i \in 0..AbortIndex, NEW n \in 7..10, i < n
  PROVE  i + 1 \in 1..n /\ i + 1 \in 0..AbortIndex
  BY DEF AbortIndex

\* The types of gin's own state, and of an answer.
LEMMA FlowTyped ==
  ASSUME TypeOK, req' = req
  PROVE  /\ index < Len(Route) /\ CallNext =>
              index' \in 0..AbortIndex /\ frames' \in Seq(1..Len(Route)') /\ panicking' \in BOOLEAN
         /\ index < Len(Route) /\ Leaves =>
              index' \in 0..AbortIndex /\ frames' \in Seq(1..Len(Route)') /\ panicking' \in BOOLEAN
         /\ Abort =>
              index' \in 0..AbortIndex /\ frames' \in Seq(1..Len(Route)') /\ panicking' \in BOOLEAN
         /\ frames # <<>> /\ Pop => frames' \in Seq(1..Len(Route)')
  <1>1. Route' = Route /\ Len(Route) \in 7..10
    BY RouteTyped DEF Route
  <1> HIDE DEF Route
  <1>2. ASSUME index < Len(Route), CallNext
        PROVE  index' \in 0..AbortIndex /\ frames' \in Seq(1..Len(Route)') /\ panicking' \in BOOLEAN
    <2>1. index + 1 \in 1..Len(Route) /\ index + 1 \in 0..AbortIndex
      BY <1>1, <1>2, NextIndex, Zenon DEF TypeOK
    <2>2. frames' \in Seq(1..Len(Route))
      BY <1>2, <2>1 DEF TypeOK, CallNext
    <2>3. QED
      BY <1>1, <1>2, <2>1, <2>2, Zenon DEF TypeOK, CallNext
  <1>3. ASSUME index < Len(Route), Leaves
        PROVE  index' \in 0..AbortIndex /\ frames' \in Seq(1..Len(Route)') /\ panicking' \in BOOLEAN
    <2>1. index + 1 \in 0..AbortIndex
      BY <1>1, <1>3, NextIndex, Zenon DEF TypeOK
    <2>2. QED
      BY <1>1, <1>3, <2>1, Zenon DEF TypeOK, Leaves
  <1>4. ASSUME Abort
        PROVE  index' \in 0..AbortIndex /\ frames' \in Seq(1..Len(Route)') /\ panicking' \in BOOLEAN
    <2>1. AbortIndex \in 0..AbortIndex
      BY DEF AbortIndex
    <2>2. QED
      BY <1>1, <1>4, <2>1, Zenon DEF TypeOK, Abort
  <1>5. ASSUME frames # <<>>, Pop PROVE frames' \in Seq(1..Len(Route)')
    <2>1. frames' \in Seq(1..Len(Route))
      BY <1>5 DEF TypeOK, Pop
    <2>2. QED
      BY <1>1, <2>1, Zenon
  <1>6. QED
    BY <1>2, <1>3, <1>4, <1>5, Zenon

LEMMA SentTyped ==
  ASSUME TypeOK, NEW code \in 200..599, NEW l \in Language \cup {"none"}, NEW hs \in SUBSET Headers,
         Write(code, l, hs)
  PROVE  status' \in 200..599 /\ headers' \subseteq Headers /\ answers' \in Seq(Answer)
  <1>1. [status |-> code, headers |-> hs, lang |-> l] \in Answer
    BY DEF Answer
  <1>2. answers' \in Seq(Answer)
    BY <1>1 DEF TypeOK, Write
  <1>3. QED
    BY <1>2 DEF TypeOK, Write

LEMMA ErrorTyped ==
  ASSUME TypeOK, NEW code \in {"BadRequest", "Unauthorized", "Forbidden", "NotFound", "TooManyRequests", "Internal"},
         Error(code)
  PROVE  status' \in 200..599 /\ headers' \subseteq Headers /\ answers' \in Seq(Answer)
  <1>1. HTTPStatus[code] \in 200..599
    BY DEF HTTPStatus
  <1>2. GetLang \in Language \cup {"none"} /\ headers \in SUBSET Headers
    BY DEF TypeOK, GetLang, DefaultLang, Language
  <1>3. QED
    BY <1>1, <1>2, SentTyped DEF Error

LEMMA OutcomeTyped ==
  TypeOK => GetLang \in Language /\ \A code \in Outcome(req.route) : code \in 200..599
  BY DEF GetLang, TypeOK, Language, DefaultLang, Outcome

LEMMA SentStep ==
  ASSUME TypeOK,
         \/ UNCHANGED sent
         \/ \E hs \in SUBSET Headers : SetHeaders(hs)
         \/ \E code \in 200..599, l \in Language \cup {"none"}, hs \in SUBSET Headers : Write(code, l, hs)
         \/ \E code \in {"Unauthorized", "Forbidden", "TooManyRequests"} : Error(code)
  PROVE  status' \in 200..599 /\ headers' \subseteq Headers /\ answers' \in Seq(Answer)
  <1>1. CASE UNCHANGED sent
    BY <1>1 DEF sent, TypeOK
  <1>2. CASE \E hs \in SUBSET Headers : SetHeaders(hs)
    BY <1>2 DEF SetHeaders, TypeOK
  <1>3. CASE \E code \in 200..599, l \in Language \cup {"none"}, hs \in SUBSET Headers : Write(code, l, hs)
    BY <1>3, SentTyped
  <1>4. CASE \E code \in {"Unauthorized", "Forbidden", "TooManyRequests"} : Error(code)
    BY <1>4, ErrorTyped
  <1>5. QED
    BY <1>1, <1>2, <1>3, <1>4
LEMMA TypingNext == TypeOK /\ [Next]_vars => TypeOK'
  <1> SUFFICES ASSUME TypeOK, [Next]_vars PROVE TypeOK'
    OBVIOUS
  <1>0. CASE UNCHANGED vars
    BY <1>0 DEF vars, flow, sent, data, past, TypeOK, Route
  <1>1. CASE SecurityHeaders
    <2>1. index' \in 0..AbortIndex /\ frames' \in Seq(1..Len(Route)') /\ panicking' \in BOOLEAN
      BY <1>1, FlowTyped DEF SecurityHeaders, Runs
    <2>2. status' \in 200..599 /\ headers' \subseteq Headers /\ answers' \in Seq(Answer)
      BY <1>1 DEF SecurityHeaders, SetHeaders, TypeOK, Headers
    <2>3. QED
      BY <1>1, <2>1, <2>2 DEF SecurityHeaders, data, past, TypeOK
  <1>2. CASE RequestID
    <2>1. index' \in 0..AbortIndex /\ frames' \in Seq(1..Len(Route)') /\ panicking' \in BOOLEAN
      BY <1>2, FlowTyped DEF RequestID, Runs
    <2>2. id' \in RequestId
      BY <1>2, RequestAssumption DEF RequestID, RequestIDOf, RequestId, TypeOK, Request
    <2>3. status' \in 200..599 /\ headers' \subseteq Headers /\ answers' \in Seq(Answer)
      BY <1>2, <2>2 DEF RequestID, SetHeaders, TypeOK, Headers
    <2>4. QED
      BY <1>2, <2>1, <2>2, <2>3 DEF RequestID, past, TypeOK
  <1>3. CASE I18n
    <2>1. index' \in 0..AbortIndex /\ frames' \in Seq(1..Len(Route)') /\ panicking' \in BOOLEAN
      BY <1>3, FlowTyped DEF I18n, Runs
    <2>2. lang' \in Language
      BY <1>3, LanguageTyped, RequestAssumption DEF I18n, TypeOK, Request
    <2>3. QED
      BY <1>3, <2>1, <2>2 DEF I18n, sent, past, TypeOK
  <1>4. CASE ReqRespLogger
    <2>1. index' \in 0..AbortIndex /\ frames' \in Seq(1..Len(Route)') /\ panicking' \in BOOLEAN
      BY <1>4, FlowTyped DEF ReqRespLogger, Runs
    <2>2. body' \in Nat
      BY <1>4 DEF ReqRespLogger, Restored, TypeOK
    <2>3. QED
      BY <1>4, <2>1, <2>2 DEF ReqRespLogger, sent, past, TypeOK
  <1>5. CASE Recovery
    <2>1. index' \in 0..AbortIndex /\ frames' \in Seq(1..Len(Route)') /\ panicking' \in BOOLEAN
      BY <1>5, FlowTyped DEF Recovery, Runs
    <2>2. QED
      BY <1>5, <2>1 DEF Recovery, sent, data, past, TypeOK
  <1>6. CASE CORS
    <2>1. index < Len(Route) /\ (CallNext \/ Abort)
      BY <1>6, Zenon DEF CORS, Runs
    <2>2. index' \in 0..AbortIndex /\ frames' \in Seq(1..Len(Route)') /\ panicking' \in BOOLEAN
      BY <1>6, <2>1, FlowTyped DEF CORS
    <2>3. CORSHeaders(req) \in SUBSET Headers /\ headers \in SUBSET Headers
      BY <1>6 DEF CORSHeaders, TypeOK, Headers
    <2>4. (\E hs \in SUBSET Headers : SetHeaders(hs)) \/ UNCHANGED sent \/ \E code \in 200..599, l \in Language \cup {"none"}, hs \in SUBSET Headers : Write(code, l, hs)
      BY <1>6, <2>3 DEF CORS
    <2>5. status' \in 200..599 /\ headers' \subseteq Headers /\ answers' \in Seq(Answer)
      BY <1>6, <2>3, <2>4, SentStep
    <2>6. QED
      BY <1>6, <2>1, <2>2, <2>3, <2>4, <2>5 DEF CORS, data, past, TypeOK
  <1>7. CASE MaxBodySize
    <2>1. index' \in 0..AbortIndex /\ frames' \in Seq(1..Len(Route)') /\ panicking' \in BOOLEAN
      BY <1>7, FlowTyped DEF MaxBodySize, Runs
    <2>2. QED
      BY <1>7, <2>1 DEF MaxBodySize, sent, past, TypeOK
  <1>8. CASE AdminAuth
    <2>1. index < Len(Route) /\ (CallNext \/ Abort)
      BY <1>8, Zenon DEF AdminAuth, Runs, Refuse
    <2>2. index' \in 0..AbortIndex /\ frames' \in Seq(1..Len(Route)') /\ panicking' \in BOOLEAN
      BY <1>8, <2>1, FlowTyped DEF AdminAuth
    <2>3. UNCHANGED sent \/ \E code \in {"Unauthorized", "Forbidden", "TooManyRequests"} : Error(code)
      BY <1>8 DEF AdminAuth, Refuse
    <2>4. status' \in 200..599 /\ headers' \subseteq Headers /\ answers' \in Seq(Answer)
      BY <1>8, <2>3, SentStep
    <2>5. QED
      BY <1>8, <2>1, <2>2, <2>3, <2>4 DEF AdminAuth, data, past, TypeOK
  <1>9. CASE RateLimit
    <2>1. index < Len(Route) /\ (CallNext \/ Abort)
      BY <1>9, Zenon DEF RateLimit, Runs, Refuse
    <2>2. index' \in 0..AbortIndex /\ frames' \in Seq(1..Len(Route)') /\ panicking' \in BOOLEAN
      BY <1>9, <2>1, FlowTyped DEF RateLimit
    <2>3. UNCHANGED sent \/ \E code \in {"Unauthorized", "Forbidden", "TooManyRequests"} : Error(code)
      BY <1>9 DEF RateLimit, Refuse
    <2>4. status' \in 200..599 /\ headers' \subseteq Headers /\ answers' \in Seq(Answer)
      BY <1>9, <2>3, SentStep
    <2>5. QED
      BY <1>9, <2>1, <2>2, <2>3, <2>4 DEF RateLimit, data, TypeOK
  <1>10. CASE HandlerRefuses
    <2>1. index' \in 0..AbortIndex /\ frames' \in Seq(1..Len(Route)') /\ panicking' \in BOOLEAN
      BY <1>10, FlowTyped DEF HandlerRefuses, Runs
    <2>2. status' \in 200..599 /\ headers' \subseteq Headers /\ answers' \in Seq(Answer)
      BY <1>10, ErrorTyped DEF HandlerRefuses
    <2>3. QED
      BY <1>10, <2>1, <2>2 DEF HandlerRefuses, data, past, TypeOK
  <1>11. CASE HandlerServes
    <2>1. index' \in 0..AbortIndex /\ frames' \in Seq(1..Len(Route)') /\ panicking' \in BOOLEAN
      BY <1>11, FlowTyped DEF HandlerServes, Runs
    <2>2. \E code \in 200..599, l \in Language \cup {"none"} : Write(code, l, headers)
      BY <1>11, OutcomeTyped, 200 \in 200..599, Zenon DEF HandlerServes
    <2>3. headers \in SUBSET Headers
      BY <1>11 DEF TypeOK
    <2>4. status' \in 200..599 /\ headers' \subseteq Headers /\ answers' \in Seq(Answer)
      BY <1>11, <2>2, <2>3, SentStep
    <2>5. handled' \in Nat
      BY <1>11, RequestAssumption DEF HandlerServes, Bound, TypeOK, Request
    <2>6. QED
      BY <1>11, <2>1, <2>2, <2>3, <2>4, <2>5 DEF HandlerServes, data, TypeOK
  <1>12. CASE HandlerPanics
    <2>1. handled' \in Nat \cup {NoBody}
      BY <1>12, RequestAssumption DEF HandlerPanics, Bound, TypeOK, Request
    <2>2. QED
      BY <1>12, <2>1 DEF HandlerPanics, sent, data, Route, TypeOK
  <1>13. CASE Return
    <2>1. index' \in 0..AbortIndex /\ frames' \in Seq(1..Len(Route)') /\ panicking' \in BOOLEAN
      BY <1>13, FlowTyped DEF Return, TypeOK
    <2>2. [status |-> status, id |-> id] \in Entry
      BY <1>13 DEF TypeOK, Entry
    <2>3. log' \in Seq(Entry)
      BY <1>13, <2>2 DEF Return, TypeOK
    <2>4. QED
      BY <1>13, <2>1, <2>2, <2>3 DEF Return, sent, data, TypeOK
  <1>14. CASE Unwind
    <2>1. index' \in 0..AbortIndex /\ frames' \in Seq(1..Len(Route)') /\ panicking' \in BOOLEAN
      BY <1>14, FlowTyped DEF Unwind, TypeOK
    <2>2. QED
      BY <1>14, <2>1 DEF Unwind, sent, data, past, TypeOK
  <1>15. CASE Recover
    <2>1. frames' \in Seq(1..Len(Route)')
      BY <1>15, FlowTyped DEF Recover
    <2>2. index' \in 0..AbortIndex
      BY <1>15 DEF Recover, AbortIndex
    <2>3. status' \in 200..599 /\ headers' \subseteq Headers /\ answers' \in Seq(Answer)
      BY <1>15, ErrorTyped DEF Recover
    <2>4. QED
      BY <1>15, <2>1, <2>2, <2>3 DEF Recover, data, past, TypeOK
  <1>16. CASE Finish
    <2>1. status \in 200..599 /\ headers \in SUBSET Headers
      BY DEF TypeOK
    <2>2. UNCHANGED sent \/ Write(status, "none", headers)
      BY <1>16 DEF Finish
    <2>3. UNCHANGED sent
          \/ \E code \in 200..599, l \in Language \cup {"none"}, hs \in SUBSET Headers : Write(code, l, hs)
      BY <2>1, <2>2, Zenon
    <2>4. status' \in 200..599 /\ headers' \subseteq Headers /\ answers' \in Seq(Answer)
      BY <2>3, SentStep
    <2>5. QED
      BY <1>16, <2>4 DEF Finish, flow, data, past, Route, TypeOK
  <1>17. CASE Publish
    <2>1. message' \in RequestId \cup {NoId, NewUUID}
      BY <1>17 DEF Publish, UuidOf, TypeOK
    <2>2. QED
      BY <1>17, <2>1 DEF Publish, flow, sent, data, past, Route, TypeOK
  <1>18. QED
    BY <1>0, <1>1, <1>2, <1>3, <1>4, <1>5, <1>6, <1>7, <1>8, <1>9, <1>10, <1>11, <1>12, <1>13, <1>14, <1>15, <1>16, <1>17 DEF Next, Step

\* Every variable keeps its type, for all requests, origins and limits.
THEOREM TypeCorrect == Spec => []TypeOK
  BY TypingInit, TypingNext, PTL DEF Spec

\* How the frames follow the chain, and when an answer or a log entry is there.
FlowInv ==
  /\ \A i \in 1..Len(frames) : frames[i] = i
  /\ Len(frames) <= Len(Route)
  /\ index <= Len(Route) \/ index = AbortIndex
  /\ phase = "serving" /\ ~panicking /\ index < Len(Route) =>
       Len(frames) <= index /\ index <= Len(frames) /\ answers = <<>>
  /\ panicking => phase = "serving" /\ Len(frames) >= 5 /\ index >= 7 /\ index < Len(Route) /\ answers = <<>>
  /\ phase # "serving" => phase = "done" /\ frames = <<>> /\ index >= Len(Route)
  /\ AnsweredOnce

LogInv ==
  /\ (phase = "serving" /\ index < Len(Route)) \/ Len(frames) >= 4 => log = <<>>
  /\ Len(frames) < 4 /\ index >= Len(Route) => log = <<[status |-> status, id |-> id]>>

AnswerInv ==
  /\ index >= 1 => "security" \in headers
  /\ index >= 2 => id \in headers
  /\ index >= 3 => lang = ParseAcceptLanguage(req.tags)
  /\ index < 6 => "cors" \notin headers /\ answers = <<>>
  /\ index >= 6 => ("cors" \in headers <=> AllowsOrigin(req.origin))
  /\ \A i \in DOMAIN answers : /\ answers[i].status = status /\ answers[i].headers = headers
                               /\ answers[i].lang \in {"none", lang}

GateInv ==
  /\ req.route \in Guarded /\ index >= 8 /\ index # AbortIndex => req.token = "admin"
  /\ req.route \in Limited /\ index >= 9 /\ index # AbortIndex =>
       verdict = "allowed" \/ (verdict = "error" /\ ~FailClosed(req.route))
  /\ GatesHold

BodyInv ==
  /\ body = req.arrives
  /\ index >= 7 /\ index # AbortIndex => limited
  /\ handled # NoBody /\ req.route \in Binds =>
       handled = req.object /\ req.object \in 1..req.arrives /\ req.object <= BodyLimit

\* Where gin stands when a handler runs.
LEMMA At ==
  ASSUME TypeOK
  PROVE  /\ Runs("SecurityHeaders") => index = 0
         /\ Runs("RequestID") => index = 1
         /\ Runs("I18n") => index = 2
         /\ Runs("ReqRespLogger") => index = 3
         /\ Runs("Recovery") => index = 4
         /\ Runs("CORS") => index = 5
         /\ Runs("MaxBodySize") => index = 6
         /\ Runs("AdminAuth") => index = 7 /\ req.route \in Guarded
         /\ Runs("RateLimit") => index = 8 /\ req.route \in Limited
         /\ Runs("Handler") =>
              /\ index + 1 >= Len(Route) /\ index >= 7 /\ req.route # "none"
              /\ (req.route \in Guarded => index >= 8) /\ (req.route \in Limited => index >= 9)
  <1>1. req.route \in Routes /\ index \in Nat /\ Route = Chain(req.route)
    BY RouteTyped DEF TypeOK, Route
  <1>2. ASSUME NEW name, Runs(name)
        PROVE  index + 1 \in 1..Len(Chain(req.route)) /\ Chain(req.route)[index + 1] = name
    <2>1. Len(Chain(req.route)) \in Nat
      BY <1>1, ChainShape
    <2>2. QED
      BY <1>1, <1>2, <2>1 DEF Runs
  <1>3. QED
    BY <1>1, <1>2, Places

LEMMA DescendFlow ==
  ASSUME TypeOK, FlowInv, phase = "serving", ~panicking, index < Len(Route), CallNext,
         req' = req, phase' = phase, answers' = answers
  PROVE  FlowInv'
  <1>1. PICK n \in 7..10 : n = Len(Route)
    BY RouteTyped
  <1>2. Len(Route)' = n
    BY <1>1 DEF Route
  <1>3. frames \in Seq(Nat) /\ index \in Nat /\ Len(frames) = index
    BY <1>1 DEF TypeOK, FlowInv
  <1>4. frames' = Append(frames, index + 1) /\ index' = index + 1 /\ panicking' = panicking
    BY DEF CallNext
  <1>5. Len(frames') = index + 1 /\ index + 1 <= n
    BY <1>1, <1>3, <1>4
  <1>6. \A i \in 1..Len(frames') : frames'[i] = i
    BY <1>3, <1>4, <1>5 DEF FlowInv
  <1>7. answers = <<>>
    BY DEF FlowInv
  <1>8. AnsweredOnce'
    BY <1>7 DEF AnsweredOnce
  <1>9. QED
    BY <1>1, <1>2, <1>4, <1>5, <1>6, <1>7, <1>8 DEF FlowInv

LEMMA AnswerFlow ==
  ASSUME TypeOK, FlowInv, phase = "serving", ~panicking, index < Len(Route),
         Abort \/ (Leaves /\ index + 1 >= Len(Route)),
         req' = req, phase' = phase, Len(answers') = 1
  PROVE  FlowInv'
  <1>1. PICK n \in 7..10 : n = Len(Route)
    BY RouteTyped
  <1>2. Len(Route)' = n
    BY <1>1 DEF Route
  <1>3. frames' = frames /\ panicking' = panicking /\ (index' = AbortIndex \/ index' = n)
    BY <1>1 DEF Abort, Leaves, TypeOK
  <1>4. AnsweredOnce'
    BY DEF AnsweredOnce
  <1>5. index' \in n..AbortIndex /\ (index' <= n \/ index' = AbortIndex)
    <2>1. n \in n..AbortIndex /\ AbortIndex \in n..AbortIndex
      BY DEF AbortIndex
    <2>2. QED
      BY <1>3, <2>1
  <1>6. ~(index' < n)
    BY <1>5
  <1>7. QED
    BY <1>1, <1>2, <1>3, <1>4, <1>5, <1>6 DEF FlowInv

\* A write is the first one while the chain is on its way down.
LEMMA FirstWrite ==
  ASSUME answers = <<>>, NEW code, NEW l, NEW hs, Write(code, l, hs)
  PROVE  /\ Len(answers') = 1
         /\ answers' = <<[status |-> code, headers |-> hs, lang |-> l]>>
         /\ status' = code /\ headers' = hs
  BY DEF Write

LEMMA FlowInit == Init => FlowInv
  <1> SUFFICES ASSUME Init PROVE FlowInv
    OBVIOUS
  <1>1. frames = <<>> /\ answers = <<>> /\ index = 0 /\ phase = "serving" /\ panicking = FALSE
    BY DEF Init
  <1>2. Len(Route) \in Nat
    BY TypingInit, RouteTyped
  <1>3. AnsweredOnce
    BY <1>1 DEF AnsweredOnce
  <1>4. QED
    BY <1>1, <1>2, <1>3 DEF FlowInv

LEMMA FlowNext == TypeOK /\ FlowInv /\ [Next]_vars => FlowInv'
  <1> SUFFICES ASSUME TypeOK, FlowInv, [Next]_vars PROVE FlowInv'
    OBVIOUS
  <1>a. PICK n \in 7..10 : n = Len(Route)
    BY RouteTyped
  <1>b. req' = req /\ Len(Route)' = n
    <2>1. req' = req
      BY DEF Next, Step, vars, SecurityHeaders, RequestID, I18n, ReqRespLogger, Recovery, CORS, MaxBodySize,
             AdminAuth, RateLimit, HandlerRefuses, HandlerServes, HandlerPanics, Return, Unwind, Recover,
             Finish, Publish
    <2>2. QED
      BY <1>a, <2>1 DEF Route
  <1>c. frames \in Seq(Nat) /\ index \in Nat /\ answers \in Seq(Answer) /\ panicking \in BOOLEAN
    BY <1>a DEF TypeOK
  <1>d. phase = "serving" /\ ~panicking /\ index < Len(Route) => answers = <<>>
    BY DEF FlowInv
  <1>0. CASE UNCHANGED <<phase, flow, answers>>
    BY <1>0, <1>b, <1>a DEF flow, FlowInv, AnsweredOnce
  <1>1. CASE SecurityHeaders \/ RequestID \/ I18n \/ ReqRespLogger \/ Recovery \/ MaxBodySize
    BY <1>1, <1>b, DescendFlow DEF SecurityHeaders, RequestID, I18n, ReqRespLogger, Recovery, MaxBodySize,
       Runs, SetHeaders, sent
  <1>2. CASE CORS
    <2>1. phase = "serving" /\ ~panicking /\ index < Len(Route) /\ phase' = phase
      BY <1>2 DEF CORS, Runs
    <2>2. (CallNext /\ answers' = answers) \/ (Abort /\ Len(answers') = 1)
      BY <1>2, <1>d, <2>1, FirstWrite DEF CORS, SetHeaders, sent
    <2>3. QED
      BY <1>b, <2>1, <2>2, DescendFlow, AnswerFlow
  <1>3. CASE AdminAuth
    <2>1. phase = "serving" /\ ~panicking /\ index < Len(Route) /\ phase' = phase
      BY <1>3 DEF AdminAuth, Runs
    <2>2. (CallNext /\ answers' = answers) \/ (Abort /\ Len(answers') = 1)
      BY <1>3, <1>d, <2>1, FirstWrite DEF AdminAuth, Refuse, Error, sent
    <2>3. QED
      BY <1>b, <2>1, <2>2, DescendFlow, AnswerFlow
  <1>4. CASE RateLimit
    <2>1. phase = "serving" /\ ~panicking /\ index < Len(Route) /\ phase' = phase
      BY <1>4 DEF RateLimit, Runs
    <2>2. (CallNext /\ answers' = answers) \/ (Abort /\ Len(answers') = 1)
      BY <1>4, <1>d, <2>1, FirstWrite DEF RateLimit, Refuse, Error, sent
    <2>3. QED
      BY <1>b, <2>1, <2>2, DescendFlow, AnswerFlow
  <1>5. CASE HandlerRefuses
    <2>1. phase = "serving" /\ ~panicking /\ index < Len(Route) /\ phase' = phase /\ Leaves
      BY <1>5 DEF HandlerRefuses, Runs
    <2>2. Len(answers') = 1 /\ index + 1 >= Len(Route)
      BY <1>5, <1>d, <2>1, At, FirstWrite DEF HandlerRefuses, Error
    <2>3. QED
      BY <1>b, <2>1, <2>2, AnswerFlow
  <1>6. CASE HandlerServes
    <2>1. phase = "serving" /\ ~panicking /\ index < Len(Route) /\ phase' = phase /\ Leaves
      BY <1>6 DEF HandlerServes, Runs
    <2>2. Len(answers') = 1 /\ index + 1 >= Len(Route)
      BY <1>6, <1>d, <2>1, At, FirstWrite DEF HandlerServes
    <2>3. QED
      BY <1>b, <2>1, <2>2, AnswerFlow
  <1>7. CASE HandlerPanics
    <2>1. phase = "serving" /\ ~panicking /\ index < Len(Route) /\ index >= 7
      BY <1>7, At DEF HandlerPanics, Runs
    <2>2. UNCHANGED <<phase, index, frames, answers>> /\ panicking'
      BY <1>7 DEF HandlerPanics, sent
    <2>3. Len(frames) >= 7
      BY <1>a, <1>c, <2>1 DEF FlowInv
    <2>4. AnsweredOnce'
      BY <2>2 DEF FlowInv, AnsweredOnce
    <2>5. QED
      BY <1>a, <1>b, <1>c, <1>d, <2>1, <2>2, <2>3, <2>4 DEF FlowInv
  <1>8. CASE Return
    <2>1. phase = "serving" /\ phase' = phase /\ UNCHANGED <<index, panicking, answers>> /\ ~panicking /\ index >= n
      BY <1>8, <1>a DEF Return, sent
    <2>2. frames # <<>> /\ frames' = SubSeq(frames, 1, Len(frames) - 1)
      BY <1>8 DEF Return, Pop
    <2>d. PICK d \in 1..n : d = Len(frames)
      BY <1>a, <1>c, <2>2 DEF FlowInv
    <2>3. Len(frames') = d - 1 /\ \A i \in 1..Len(frames') : frames'[i] = i
      BY <1>c, <2>2, <2>d DEF FlowInv
    <2>4. AnsweredOnce'
      BY <2>1 DEF FlowInv, AnsweredOnce
    <2>5. Len(frames') <= n /\ ~(index' < n)
      BY <1>c, <2>1, <2>3
    <2>6. QED
      BY <1>a, <1>b, <2>1, <2>3, <2>4, <2>5 DEF FlowInv
  <1>9. CASE Unwind
    <2>1. frames # <<>> /\ frames' = SubSeq(frames, 1, Len(frames) - 1) /\ panicking /\ Innermost # "Recovery"
      BY <1>9 DEF Unwind, Pop
    <2>2. UNCHANGED <<index, panicking, answers>> /\ phase' = (IF Len(frames) = 1 THEN "closed" ELSE phase)
      BY <1>9 DEF Unwind, sent
    <2>3. PICK d \in 5..n : d = Len(frames)
      BY <1>a, <1>c, <2>1 DEF FlowInv
    <2>4. d # 5
      <3>1. Innermost = Chain(req.route)[d] /\ d \in 1..Len(Chain(req.route)) /\ req.route \in Routes
        BY <1>a, <2>3, RouteTyped DEF Innermost, FlowInv, Route
      <3>2. QED
        BY <2>1, <3>1, Places
    <2>5. Len(frames') = d - 1 /\ \A i \in 1..Len(frames') : frames'[i] = i
      BY <1>c, <2>1, <2>3 DEF FlowInv
    <2>6. phase' = phase /\ d - 1 >= 5 /\ d - 1 <= n
      BY <2>2, <2>3, <2>4
    <2>7. AnsweredOnce'
      BY <2>2, <2>6 DEF FlowInv, AnsweredOnce
    <2>8. QED
      BY <1>a, <1>b, <2>1, <2>2, <2>5, <2>6, <2>7 DEF FlowInv
  <1>10. CASE Recover
    <2>1. frames # <<>> /\ frames' = SubSeq(frames, 1, Len(frames) - 1) /\ panicking /\ answers = <<>>
      BY <1>10 DEF Recover, Pop, FlowInv
    <2>2. phase = "serving" /\ phase' = phase /\ panicking' = FALSE /\ index' = AbortIndex
      BY <1>10 DEF Recover
    <2>3. Len(answers') = 1
      BY <1>10, <2>1, FirstWrite DEF Recover, Error
    <2>4. Len(frames') <= n /\ \A i \in 1..Len(frames') : frames'[i] = i
      BY <1>a, <1>c, <2>1 DEF FlowInv
    <2>5. AnsweredOnce' /\ ~(AbortIndex < n)
      BY <2>2, <2>3 DEF AnsweredOnce, AbortIndex
    <2>6. QED
      BY <1>b, <2>2, <2>4, <2>5 DEF FlowInv
  <1>11. CASE Finish
    <2>1. /\ UNCHANGED flow /\ phase' = "done" /\ ~panicking /\ Len(answers) <= 1
          /\ frames = <<>> /\ index >= n
      BY <1>11, <1>a DEF Finish, FlowInv, AnsweredOnce
    <2>2. Len(answers') = 1
      <3>1. CASE answers = <<>>
        BY <1>11, <3>1, FirstWrite DEF Finish
      <3>2. CASE answers # <<>>
        <4>1. PICK k \in Nat : k = Len(answers)
          BY <1>c
        <4>2. k # 0
          BY <1>c, <3>2, <4>1
        <4>3. answers' = answers /\ k <= 1
          BY <1>11, <2>1, <3>2, <4>1 DEF Finish, sent
        <4>4. QED
          BY <4>1, <4>2, <4>3
      <3>3. QED
        BY <3>1, <3>2
    <2>3. AnsweredOnce'
      BY <2>1, <2>2 DEF AnsweredOnce
    <2>4. QED
      BY <1>a, <1>b, <2>1, <2>3 DEF flow, FlowInv
  <1>12. CASE Publish
    BY <1>0, <1>12 DEF Publish, sent
  <1>13. CASE UNCHANGED vars
    BY <1>0, <1>13 DEF vars, sent
  <1>14. QED
    BY <1>1, <1>2, <1>3, <1>4, <1>5, <1>6, <1>7, <1>8, <1>9, <1>10, <1>11, <1>12, <1>13 DEF Next, Step

LEMMA KeepAnswer ==
  ASSUME TypeOK, AnswerInv, UNCHANGED <<req, status, headers, answers, id, lang>>, index' \in Nat,
         index >= 6 /\ index' >= 6
  PROVE  AnswerInv'
  BY DEF TypeOK, AnswerInv, AllowsOrigin

LEMMA WriteAnswer ==
  ASSUME TypeOK, AnswerInv, answers = <<>>, NEW code, NEW l \in {"none", lang}, Write(code, l, headers),
         UNCHANGED <<req, id, lang>>, index' \in Nat, index >= 6 /\ index' >= 6
  PROVE  AnswerInv'
  <1>1. answers' = <<[status |-> code, headers |-> headers, lang |-> l]>> /\ status' = code /\ headers' = headers
    BY FirstWrite
  <1>2. \A i \in DOMAIN answers' : answers'[i] = [status |-> code, headers |-> headers, lang |-> l]
    BY <1>1
  <1>3. QED
    BY <1>1, <1>2 DEF TypeOK, AnswerInv, AllowsOrigin

LEMMA AnswerInit == Init => AnswerInv
  BY DEF Init, AnswerInv

LEMMA Spoken == TypeOK /\ AnswerInv /\ index >= 3 => GetLang = lang
  <1> SUFFICES ASSUME TypeOK, AnswerInv, index >= 3 PROVE GetLang = lang
    OBVIOUS
  <1>1. lang \in Language
    BY LanguageTyped, RequestAssumption DEF TypeOK, AnswerInv, Request
  <1>2. QED
    BY <1>1 DEF GetLang, Language

LEMMA AnswerNext == TypeOK /\ FlowInv /\ AnswerInv /\ [Next]_vars => AnswerInv'
  <1> SUFFICES ASSUME TypeOK, FlowInv, AnswerInv, [Next]_vars PROVE AnswerInv'
    OBVIOUS
  <1>a. PICK n \in 7..10 : n = Len(Route)
    BY RouteTyped
  <1>b. index \in Nat /\ AbortIndex \in Nat /\ AbortIndex >= 6
    BY DEF TypeOK, AbortIndex
  <1>c. phase = "serving" /\ ~panicking /\ index < n => answers = <<>>
    BY <1>a DEF FlowInv
  <1>d. "security" \notin RequestId /\ "cors" \notin RequestId
    BY NoneAssumption DEF RequestId
  <1>e. index >= 3 => GetLang = lang
    BY Spoken
  <1>0. CASE UNCHANGED <<req, index, sent, id, lang>>
    BY <1>0 DEF sent, AnswerInv, AllowsOrigin
  <1>1. CASE SecurityHeaders
    BY <1>1, At DEF SecurityHeaders, SetHeaders, CallNext, data, AnswerInv
  <1>2. CASE RequestID
    <2>1. id' \in RequestId /\ headers' = headers \cup {id'} /\ index = 1 /\ index' = 2
      BY <1>2, At, RequestAssumption DEF RequestID, RequestIDOf, RequestId, TypeOK, Request, SetHeaders, CallNext
    <2>2. QED
      BY <1>2, <1>d, <2>1 DEF RequestID, SetHeaders, AnswerInv
  <1>3. CASE I18n
    BY <1>3, At DEF I18n, CallNext, sent, AnswerInv
  <1>4. CASE ReqRespLogger
    BY <1>4, At DEF ReqRespLogger, CallNext, sent, AnswerInv
  <1>5. CASE Recovery
    BY <1>5, At DEF Recovery, CallNext, sent, data, AnswerInv
  <1>6. CASE CORS
    <2>1. index = 5 /\ answers = <<>> /\ UNCHANGED <<req, id, lang>>
      BY <1>6, At DEF CORS, data, AnswerInv
    <2>2. index' \in Nat /\ index' >= 6
      BY <1>6, <1>b, <2>1 DEF CORS, CallNext, Abort
    <2>3. "cors" \notin headers
      BY <2>1 DEF AnswerInv
    <2>4. /\ headers \subseteq headers'
          /\ "cors" \in headers' <=> AllowsOrigin(req.origin)
      BY <1>6, <2>3 DEF CORS, CORSHeaders, SetHeaders, Write, sent
    <2>5. \/ answers' = <<>>
          \/ \E code : /\ answers' = <<[status |-> code, headers |-> headers', lang |-> "none"]>>
                       /\ status' = code
      BY <1>6, <2>1, FirstWrite DEF CORS, SetHeaders, sent
    <2>6. \A i \in DOMAIN answers' : /\ answers'[i].status = status' /\ answers'[i].headers = headers'
                                     /\ answers'[i].lang = "none"
      BY <2>5
    <2>7. QED
      BY <2>1, <2>2, <2>4, <2>6 DEF AnswerInv, AllowsOrigin
  <1>7. CASE MaxBodySize
    BY <1>7, At, KeepAnswer DEF MaxBodySize, CallNext, sent
  <1>8. CASE AdminAuth
    <2>1. index = 7 /\ answers = <<>> /\ UNCHANGED <<req, id, lang>>
      BY <1>8, <1>a, <1>c, At DEF AdminAuth, Runs, data
    <2>2. index' \in Nat /\ index' >= 6
      BY <1>8, <1>b, <2>1 DEF AdminAuth, CallNext, Refuse, Abort
    <2>3. UNCHANGED sent \/ \E code : Write(code, lang, headers)
      BY <1>8, <1>e, <2>1 DEF AdminAuth, Refuse, Error
    <2>4. QED
      BY <2>1, <2>2, <2>3, KeepAnswer, WriteAnswer DEF sent
  <1>9. CASE RateLimit
    <2>1. index = 8 /\ answers = <<>> /\ UNCHANGED <<req, id, lang>>
      BY <1>9, <1>a, <1>c, At DEF RateLimit, Runs, data
    <2>2. index' \in Nat /\ index' >= 6
      BY <1>9, <1>b, <2>1 DEF RateLimit, CallNext, Refuse, Abort
    <2>3. UNCHANGED sent \/ \E code : Write(code, lang, headers)
      BY <1>9, <1>e, <2>1 DEF RateLimit, Refuse, Error
    <2>4. QED
      BY <2>1, <2>2, <2>3, KeepAnswer, WriteAnswer DEF sent
  <1>10. CASE HandlerRefuses
    <2>1. index >= 7 /\ answers = <<>> /\ UNCHANGED <<req, id, lang>> /\ index' = index + 1
      BY <1>10, <1>a, <1>c, At DEF HandlerRefuses, Runs, data, Leaves
    <2>2. \E code : Write(code, lang, headers)
      BY <1>10, <1>b, <1>e, <2>1 DEF HandlerRefuses, Error
    <2>3. QED
      BY <1>b, <2>1, <2>2, WriteAnswer
  <1>11. CASE HandlerServes
    <2>1. index >= 7 /\ answers = <<>> /\ UNCHANGED <<req, id, lang>> /\ index' = index + 1
      BY <1>11, <1>a, <1>c, At DEF HandlerServes, Runs, data, Leaves
    <2>2. \E code, l : l \in {"none", lang} /\ Write(code, l, headers)
      BY <1>11, <1>b, <1>e, <2>1 DEF HandlerServes
    <2>3. QED
      BY <1>b, <2>1, <2>2, WriteAnswer
  <1>12. CASE HandlerPanics
    BY <1>0, <1>12 DEF HandlerPanics, data
  <1>13. CASE Return
    BY <1>0, <1>13 DEF Return, data
  <1>14. CASE Unwind
    BY <1>0, <1>14 DEF Unwind, data
  <1>15. CASE Recover
    <2>1. index >= 7 /\ answers = <<>> /\ UNCHANGED <<req, id, lang>> /\ index' = AbortIndex
      BY <1>15 DEF Recover, data, FlowInv
    <2>2. \E code : Write(code, lang, headers)
      BY <1>15, <1>b, <1>e, <2>1 DEF Recover, Error
    <2>3. QED
      BY <1>b, <2>1, <2>2, WriteAnswer
  <1>16. CASE Finish
    <2>0. index >= n
      BY <1>16, <1>a DEF Finish
    <2>1. index >= 7 /\ UNCHANGED <<req, id, lang, index>>
      BY <1>16, <1>b, <2>0 DEF Finish, flow, data
    <2>2. (answers = <<>> /\ Write(status, "none", headers)) \/ UNCHANGED sent
      BY <1>16 DEF Finish
    <2>3. QED
      BY <1>0, <1>b, <2>1, <2>2, WriteAnswer
  <1>17. CASE Publish
    BY <1>0, <1>17 DEF Publish, flow, data
  <1>18. CASE UNCHANGED vars
    BY <1>0, <1>18 DEF vars, flow, data
  <1>19. QED
    BY <1>1, <1>2, <1>3, <1>4, <1>5, <1>6, <1>7, <1>8, <1>9, <1>10, <1>11, <1>12, <1>13, <1>14, <1>15,
       <1>16, <1>17, <1>18 DEF Next, Step

LEMMA LogInit == Init => LogInv
  <1> SUFFICES ASSUME Init PROVE LogInv
    OBVIOUS
  <1>1. PICK n \in 7..10 : n = Len(Route)
    BY TypingInit, RouteTyped
  <1>2. index = 0 /\ log = <<>>
    BY DEF Init
  <1>3. QED
    BY <1>1, <1>2 DEF LogInv

\* On the way down nothing is logged, and the first four middlewares wait for the rest.
LEMMA LogDown ==
  ASSUME TypeOK, FlowInv, LogInv, phase = "serving", ~panicking, index < Len(Route),
         req' = req, phase' = phase, log' = log,
         \/ CallNext /\ status' = status /\ (id' = id \/ index < 4)
         \/ (Abort \/ Leaves) /\ index >= 4
  PROVE  LogInv'
  <1>1. PICK n \in 7..10 : n = Len(Route)
    BY RouteTyped
  <1>2. Len(Route)' = n
    BY <1>1 DEF Route
  <1>3. frames \in Seq(Nat) /\ index \in Nat /\ Len(frames) = index /\ log = <<>>
    BY <1>1 DEF TypeOK, FlowInv, LogInv
  <1>4. CASE CallNext
    <2>1. Len(frames') = index + 1 /\ index' = index + 1
      BY <1>3, <1>4 DEF CallNext
    <2>2. ~(Len(frames') < 4 /\ index' >= n)
      BY <1>3, <2>1
    <2>3. QED
      BY <1>2, <1>3, <2>1, <2>2 DEF LogInv
  <1>5. CASE (Abort \/ Leaves) /\ index >= 4
    <2>1. frames' = frames
      BY <1>5 DEF Abort, Leaves
    <2>2. ~(Len(frames') < 4)
      BY <1>3, <1>5, <2>1
    <2>3. QED
      BY <1>2, <1>3, <2>1, <2>2 DEF LogInv
  <1>6. QED
    BY <1>4, <1>5

LEMMA LogNext == TypeOK /\ FlowInv /\ LogInv /\ AnswerInv /\ [Next]_vars => LogInv'
  <1> SUFFICES ASSUME TypeOK, FlowInv, LogInv, AnswerInv, [Next]_vars PROVE LogInv'
    OBVIOUS
  <1>a. PICK n \in 7..10 : n = Len(Route)
    BY RouteTyped
  <1>b. frames \in Seq(Nat) /\ index \in Nat
    BY <1>a DEF TypeOK
  <1>0. CASE UNCHANGED <<req, phase, index, frames, status, id, log>>
    BY <1>0 DEF LogInv, Route
  <1>1. CASE SecurityHeaders \/ RequestID \/ I18n \/ ReqRespLogger \/ Recovery \/ MaxBodySize
    BY <1>1, At, LogDown DEF SecurityHeaders, RequestID, I18n, ReqRespLogger, Recovery, MaxBodySize,
       Runs, SetHeaders, sent, data, past
  <1>2. CASE CORS
    BY <1>2, At, LogDown DEF CORS, Runs, SetHeaders, sent, data, past
  <1>3. CASE AdminAuth
    BY <1>3, At, LogDown DEF AdminAuth, Runs, Refuse, sent, data, past
  <1>4. CASE RateLimit
    BY <1>4, At, LogDown DEF RateLimit, Runs, Refuse, sent, data, past
  <1>5. CASE HandlerRefuses
    <2>1. index >= 4
      BY <1>5, <1>b, At DEF HandlerRefuses
    <2>2. QED
      BY <1>5, <2>1, LogDown DEF HandlerRefuses, Runs, data, past
  <1>6. CASE HandlerServes
    <2>1. index >= 4
      BY <1>6, <1>b, At DEF HandlerServes
    <2>2. QED
      BY <1>6, <2>1, LogDown DEF HandlerServes, Runs, data, past
  <1>7. CASE HandlerPanics
    BY <1>0, <1>7 DEF HandlerPanics, sent, data
  <1>8. CASE Return
    <2>1. /\ UNCHANGED <<req, phase, index, status, id>> /\ index >= n /\ Len(Route)' = n
          /\ frames # <<>> /\ frames' = SubSeq(frames, 1, Len(frames) - 1)
      BY <1>8, <1>a DEF Return, Pop, sent, data, Route
    <2>2. PICK d \in 1..n : d = Len(frames)
      BY <1>a, <1>b, <2>1 DEF FlowInv
    <2>3. Len(frames') = d - 1
      BY <1>b, <2>1, <2>2
    <2>4. Innermost = "ReqRespLogger" <=> d = 4
      <3>1. Innermost = Chain(req.route)[d] /\ d \in 1..Len(Chain(req.route)) /\ req.route \in Routes
        BY <1>a, <2>2, RouteTyped DEF Innermost, FlowInv, Route
      <3>2. QED
        BY <3>1, Places
    <2>5. CASE d = 4
      <3>1. log = <<>> /\ log' = <<[status |-> status, id |-> id]>>
        BY <1>8, <2>2, <2>4, <2>5 DEF Return, LogInv
      <3>2. QED
        <4>1. log' = <<[status |-> status', id |-> id']>>
          BY <2>1, <3>1
        <4>2. ~(Len(frames') >= 4) /\ ~(index' < n)
          BY <1>b, <2>1, <2>3, <2>5
        <4>3. QED
          BY <2>1, <4>1, <4>2 DEF LogInv
    <2>6. CASE d # 4
      <3>1. log' = log
        BY <1>8, <2>4, <2>6 DEF Return
      <3>2. d >= 4 => log = <<>>
        BY <2>2 DEF LogInv
      <3>3. d < 4 => log = <<[status |-> status, id |-> id]>>
        BY <1>a, <2>1, <2>2 DEF LogInv
      <3>4. d - 1 >= 4 => d >= 4
        OBVIOUS
      <3>5. d - 1 < 4 => d < 4
        BY <2>6
      <3>6. QED
        BY <1>b, <2>1, <2>3, <3>1, <3>2, <3>3, <3>4, <3>5 DEF LogInv
    <2>7. QED
      BY <2>5, <2>6
  <1>9. CASE Unwind
    <2>1. Len(frames) >= 5 /\ index < n /\ log = <<>> /\ log' = log /\ UNCHANGED <<req, index>>
      BY <1>9, <1>a DEF Unwind, FlowInv, LogInv, past
    <2>2. QED
      BY <1>a, <1>b, <2>1 DEF LogInv, Route
  <1>10. CASE Recover
    <2>1. /\ panicking /\ log' = log /\ frames # <<>>
          /\ frames' = SubSeq(frames, 1, Len(frames) - 1) /\ index' = AbortIndex
      BY <1>10 DEF Recover, past, Pop
    <2>2. Len(frames) >= 5 /\ log = <<>>
      BY <2>1 DEF FlowInv, LogInv
    <2>3. Len(frames') >= 4
      BY <1>b, <2>1, <2>2
    <2>4. QED
      BY <2>1, <2>2, <2>3, <1>b DEF LogInv
  <1>11. CASE Finish
    <2>1. /\ UNCHANGED <<req, index, frames, id, log>> /\ index >= n /\ frames = <<>>
          /\ status' = status
      BY <1>11, <1>a DEF Finish, flow, data, past, Write, sent
    <2>2. log = <<[status |-> status, id |-> id]>>
      BY <1>a, <2>1 DEF LogInv
    <2>3. QED
      BY <1>a, <1>b, <2>1, <2>2 DEF LogInv, Route
  <1>12. CASE Publish
    BY <1>0, <1>12 DEF Publish, flow, sent, data, past
  <1>13. CASE UNCHANGED vars
    BY <1>0, <1>13 DEF vars, flow, sent, data, past
  <1>14. QED
    BY <1>1, <1>2, <1>3, <1>4, <1>5, <1>6, <1>7, <1>8, <1>9, <1>10, <1>11, <1>12, <1>13 DEF Next, Step

\* No service has been called on the way down.
HandledInv == phase = "serving" /\ ~panicking /\ index < Len(Route) => handled = NoBody

LEMMA HandledInit == Init => HandledInv
  BY DEF Init, HandledInv

LEMMA HandledNext == TypeOK /\ FlowInv /\ HandledInv /\ [Next]_vars => HandledInv'
  <1> SUFFICES ASSUME TypeOK, FlowInv, HandledInv, [Next]_vars PROVE HandledInv'
    OBVIOUS
  <1>a. PICK n \in 7..10 : n = Len(Route)
    BY RouteTyped
  <1>b. index \in Nat /\ ~(AbortIndex < n)
    BY DEF TypeOK, AbortIndex
  <1>c. req' = req => Len(Route)' = n
    BY <1>a DEF Route
  <1>0. CASE UNCHANGED <<req, phase, index, panicking, handled>>
    BY <1>0 DEF HandledInv, Route
  <1>1. CASE SecurityHeaders \/ RequestID \/ I18n \/ ReqRespLogger \/ Recovery \/ CORS \/ MaxBodySize \/ AdminAuth
    BY <1>1 DEF SecurityHeaders, RequestID, I18n, ReqRespLogger, Recovery, CORS, MaxBodySize, AdminAuth,
                Runs, past, HandledInv
  <1>2. CASE RateLimit
    BY <1>2 DEF RateLimit, Runs, HandledInv
  <1>3. CASE HandlerRefuses \/ HandlerServes
    <2>1. req' = req /\ index' = index + 1 /\ index + 1 >= n
      BY <1>3, <1>a, At DEF HandlerRefuses, HandlerServes, Leaves
    <2>2. ~(index' < n)
      BY <1>b, <2>1
    <2>3. QED
      BY <1>c, <2>1, <2>2 DEF HandledInv
  <1>4. CASE HandlerPanics \/ Unwind
    BY <1>4 DEF HandlerPanics, Unwind, HandledInv
  <1>5. CASE Return \/ Finish
    <2>1. req' = req /\ index' = index /\ index >= n
      BY <1>5, <1>a DEF Return, Finish, flow
    <2>2. ~(index' < n)
      BY <1>b, <2>1
    <2>3. QED
      BY <1>c, <2>1, <2>2 DEF HandledInv
  <1>6. CASE Recover
    BY <1>6, <1>b, <1>c DEF Recover, HandledInv
  <1>7. CASE Publish
    BY <1>0, <1>7 DEF Publish, flow, past
  <1>8. CASE UNCHANGED vars
    BY <1>0, <1>8 DEF vars, flow, past
  <1>9. QED
    BY <1>1, <1>2, <1>3, <1>4, <1>5, <1>6, <1>7, <1>8 DEF Next, Step

LEMMA GateInit == Init => GateInv
  BY DEF Init, GateInv, GatesHold

LEMMA GateNext == TypeOK /\ HandledInv /\ GateInv /\ [Next]_vars => GateInv'
  <1> SUFFICES ASSUME TypeOK, HandledInv, GateInv, [Next]_vars PROVE GateInv'
    OBVIOUS
  <1>a. PICK n \in 7..10 : n = Len(Route)
    BY RouteTyped
  <1>b. index \in Nat
    BY DEF TypeOK
  <1>0. CASE UNCHANGED <<req, verdict, handled>> /\ (index' = index \/ index' = AbortIndex \/ index' <= 7)
    <2>1. index' <= 7 => ~(index' >= 8) /\ ~(index' >= 9)
      <3>1. index' \in Int
        BY TypingNext DEF TypeOK
      <3>2. QED
        BY <3>1
    <2>2. QED
      BY <1>0, <2>1 DEF GateInv, GatesHold
  <1>1. CASE SecurityHeaders \/ RequestID \/ I18n \/ ReqRespLogger \/ Recovery \/ MaxBodySize
    <2>1. index \in 0..6 /\ index' = index + 1 /\ UNCHANGED <<req, verdict, handled>>
      BY <1>1, At DEF SecurityHeaders, RequestID, I18n, ReqRespLogger, Recovery, MaxBodySize, CallNext, past
    <2>2. index' <= 7
      BY <2>1
    <2>3. QED
      BY <1>0, <2>1, <2>2
  <1>2. CASE CORS
    BY <1>0, <1>2, At DEF CORS, CallNext, Abort, past
  <1>3. CASE AdminAuth
    <2>1. index = 7 /\ UNCHANGED <<req, verdict, handled>>
      BY <1>3, At DEF AdminAuth, past
    <2>2. (req.token = "admin" /\ index' = 8) \/ index' = AbortIndex
      BY <1>3, <2>1 DEF AdminAuth, CallNext, Refuse, Abort
    <2>3. QED
      BY <1>0, <2>1, <2>2 DEF GateInv, GatesHold
  <1>4. CASE RateLimit
    <2>1. index = 8 /\ req.route \in Limited /\ UNCHANGED <<req, handled>>
      BY <1>4, At DEF RateLimit
    <2>2. index # AbortIndex /\ Limited \subseteq Guarded
      BY <2>1 DEF AbortIndex, Limited, Guarded
    <2>3. req.token = "admin" /\ handled = NoBody
      BY <1>4, <2>1, <2>2 DEF GateInv, HandledInv, RateLimit, Runs
    <2>4. \/ index' = 9 /\ (verdict' = "allowed" \/ (verdict' = "error" /\ ~FailClosed(req.route)))
          \/ index' = AbortIndex
      BY <1>4, <2>1 DEF RateLimit, CallNext, Refuse, Abort
    <2>5. QED
      BY <2>1, <2>3, <2>4 DEF GateInv, GatesHold
  <1>5. CASE HandlerRefuses \/ HandlerServes \/ HandlerPanics
    <2>1. Runs("Handler") /\ UNCHANGED <<req, verdict>>
      BY <1>5 DEF HandlerRefuses, HandlerServes, HandlerPanics, past
    <2>2. /\ index < n /\ index >= 7 /\ req.route # "none" /\ index # AbortIndex
          /\ req.route \in Guarded => index >= 8
          /\ req.route \in Limited => index >= 9
      BY <1>a, <1>b, <2>1, At DEF Runs, AbortIndex
    <2>3. /\ req.route \in Guarded => req.token = "admin"
          /\ req.route \in Limited => verdict = "allowed" \/ (verdict = "error" /\ ~FailClosed(req.route))
          /\ ~req.preflight
      <3>1. req.preflight \in BOOLEAN /\ (req.preflight => req.route = "none")
        BY RequestAssumption DEF TypeOK, Request
      <3>2. QED
        BY <2>2, <3>1 DEF GateInv
    <2>4. verdict # "none" => req.token = "admin" /\ req.route \in Limited
      BY DEF GateInv, GatesHold
    <2>5. QED
      BY <2>1, <2>3, <2>4 DEF GateInv, GatesHold
  <1>6. CASE Return \/ Unwind \/ Recover \/ Finish \/ Publish
    BY <1>0, <1>6 DEF Return, Unwind, Recover, Finish, Publish, past, flow
  <1>7. CASE UNCHANGED vars
    BY <1>0, <1>7 DEF vars, flow, past
  <1>8. QED
    BY <1>1, <1>2, <1>3, <1>4, <1>5, <1>6, <1>7 DEF Next, Step

LEMMA BodyInit == Init => BodyInv
  BY DEF Init, BodyInv

\* Behind the limit an object can be bound exactly when it arrived and ends within it.
LEMMA Binding ==
  ASSUME TypeOK, BodyInv, Runs("Handler"), req.route \in Binds
  PROVE  CanBind <=> req.object \in 1..req.arrives /\ req.object <= BodyLimit
  <1>1. PICK n \in 7..10 : n = Len(Route)
    BY RouteTyped
  <1>2. index \in Nat /\ index >= 7 /\ index < n
    BY <1>1, At DEF Runs, TypeOK
  <1>3. limited /\ body = req.arrives
    BY <1>2 DEF BodyInv, AbortIndex
  <1>4. req.arrives \in Nat /\ req.object \in Nat /\ BodyLimit \in Nat
    BY RequestAssumption, LimitAssumption DEF TypeOK, Request
  <1>5. Available = IF req.arrives > BodyLimit THEN BodyLimit ELSE req.arrives
    BY <1>3 DEF Available
  <1>6. req.object \in 1..Available <=> req.object \in 1..req.arrives /\ req.object <= BodyLimit
    BY <1>4, <1>5
  <1>7. QED
    BY <1>6 DEF CanBind

LEMMA BodyNext == TypeOK /\ FlowInv /\ BodyInv /\ [Next]_vars => BodyInv'
  <1> SUFFICES ASSUME TypeOK, FlowInv, BodyInv, [Next]_vars PROVE BodyInv'
    OBVIOUS
  <1>a. PICK n \in 7..10 : n = Len(Route)
    BY RouteTyped
  <1>b. index \in Nat
    BY DEF TypeOK
  <1>c. index < n => index # AbortIndex
    BY DEF AbortIndex
  <1>0. CASE UNCHANGED <<req, handled, limited, body>> /\ (index' = index \/ index' = AbortIndex)
    BY <1>0 DEF BodyInv
  <1>1. CASE SecurityHeaders \/ RequestID \/ I18n \/ ReqRespLogger \/ Recovery \/ CORS
    <2>1. /\ index \in 0..5 /\ (index' = index + 1 \/ index' = AbortIndex)
          /\ UNCHANGED <<req, handled, limited>> /\ body' = body
      BY <1>1, At DEF SecurityHeaders, RequestID, I18n, ReqRespLogger, Restored, Recovery, CORS, CallNext, Abort,
                      data, past
    <2>2. index' >= 7 => index' = AbortIndex
      BY <2>1
    <2>3. QED
      BY <2>1, <2>2 DEF BodyInv
  <1>2. CASE MaxBodySize
    BY <1>2 DEF MaxBodySize, past, BodyInv
  <1>3. CASE AdminAuth \/ RateLimit \/ HandlerRefuses
    <2>1. /\ index >= 7 /\ index < n
          /\ UNCHANGED <<req, handled, limited, body>>
      BY <1>3, <1>a, <1>b, At DEF AdminAuth, RateLimit, HandlerRefuses, Runs, data, past
    <2>2. QED
      BY <1>c, <2>1 DEF BodyInv
  <1>4. CASE HandlerServes \/ HandlerPanics
    <2>1. /\ index >= 7 /\ index < n
          /\ Runs("Handler") /\ UNCHANGED <<req, limited, body>>
      BY <1>4, <1>a, <1>b, At DEF HandlerServes, HandlerPanics, Runs, data
    <2>2. handled' = handled \/ (CanBind /\ handled' = Bound)
      BY <1>4 DEF HandlerServes, HandlerPanics
    <2>3. \/ handled' = handled
          \/ req.route \in Binds =>
               handled' = req.object /\ req.object \in 1..req.arrives /\ req.object <= BodyLimit
      BY <2>1, <2>2, Binding DEF Bound
    <2>4. limited
      BY <1>c, <2>1 DEF BodyInv
    <2>5. QED
      BY <2>1, <2>3, <2>4 DEF BodyInv
  <1>5. CASE Return \/ Unwind \/ Recover \/ Finish \/ Publish
    BY <1>0, <1>5 DEF Return, Unwind, Recover, Finish, Publish, flow, data, past
  <1>6. CASE UNCHANGED vars
    BY <1>0, <1>6 DEF vars, flow, data, past
  <1>7. QED
    BY <1>1, <1>2, <1>3, <1>4, <1>5, <1>6 DEF Next, Step

PipelineInv == TypeOK /\ FlowInv /\ LogInv /\ AnswerInv /\ HandledInv /\ GateInv /\ BodyInv

\* The chain, its frames, the answer, the log, the gates and the body stay in step.
THEOREM ChainInStep == Spec => []PipelineInv
  <1>1. Init => PipelineInv
    BY TypingInit, FlowInit, LogInit, AnswerInit, HandledInit, GateInit, BodyInit DEF PipelineInv
  <1>2. PipelineInv /\ [Next]_vars => PipelineInv'
    BY TypingNext, FlowNext, LogNext, AnswerNext, HandledNext, GateNext, BodyNext DEF PipelineInv
  <1>3. QED
    BY <1>1, <1>2, PTL DEF Spec

\* One answer for every request, a panic of the handler included.
THEOREM OneAnswer == Spec => []AnsweredOnce
  <1>1. PipelineInv => AnsweredOnce
    BY DEF PipelineInv, FlowInv
  <1>2. QED
    BY <1>1, ChainInStep, PTL

\* One log entry for every finished request of the chain, with the status and the id that were sent.
THEOREM LogTellsTheAnswer == Spec => []LoggedAsSent
  <1>1. PipelineInv => LoggedAsSent
    <2> SUFFICES ASSUME PipelineInv, phase = "done"
                 PROVE  /\ Len(log) = 1
                        /\ \A i \in DOMAIN answers : /\ log[1].status = answers[i].status
                                                     /\ log[1].id \in answers[i].headers
      BY DEF LoggedAsSent
    <2>1. index >= Len(Route) /\ frames = <<>>
      BY DEF PipelineInv, FlowInv
    <2>2. index >= 2
      <3>1. PICK n \in 7..10 : n = Len(Route)
        BY RouteTyped DEF PipelineInv
      <3>2. index \in Nat /\ index >= n
        BY <2>1, <3>1 DEF PipelineInv, TypeOK
      <3>3. QED
        BY <3>2
    <2>3. log = <<[status |-> status, id |-> id]>> /\ id \in headers
      BY <2>1, <2>2 DEF PipelineInv, LogInv, AnswerInv
    <2>4. Len(log) = 1 /\ log[1].status = status /\ log[1].id = id
      BY <2>3
    <2>5. QED
      BY <2>3, <2>4 DEF PipelineInv, AnswerInv
  <1>2. QED
    BY <1>1, ChainInStep, PTL

\* No gate of the admin routes can be passed by.
THEOREM NoGatePassedBy == Spec => []GatesHold
  <1>1. PipelineInv => GatesHold
    BY DEF PipelineInv, GateInv
  <1>2. QED
    BY <1>1, ChainInStep, PTL

\* Whatever the logger's reading met, a handler can bind exactly the objects that arrived in
\* full and end within the limit, and a service is given no other.
THEOREM BodyArrivesWhole == Spec => []BodyIntact
  <1>1. PipelineInv => BodyIntact
    BY Binding DEF PipelineInv, BodyInv, BodyIntact
  <1>2. QED
    BY <1>1, ChainInStep, PTL

\* Every answer carries its headers and speaks the language asked for.
THEOREM AnswersCarryHeaders == Spec => []AnswersComplete
  <1>1. PipelineInv => AnswersComplete
    <2> SUFFICES ASSUME PipelineInv, NEW i \in DOMAIN answers
                 PROVE  /\ "security" \in answers[i].headers
                        /\ "cors" \in answers[i].headers <=> AllowsOrigin(req.origin)
                        /\ answers[i].lang \in {"none", ParseAcceptLanguage(req.tags)}
      BY DEF AnswersComplete
    <2>1. index \in Nat /\ ~(index < 6)
      BY DEF PipelineInv, TypeOK, AnswerInv
    <2>2. index >= 1 /\ index >= 3 /\ index >= 6
      BY <2>1
    <2>3. QED
      BY <2>2 DEF PipelineInv, AnswerInv
  <1>2. QED
    BY <1>1, ChainInStep, PTL

=============================================================================
