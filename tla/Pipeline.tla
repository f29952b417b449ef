------------------------------ MODULE Pipeline ------------------------------
(***************************************************************************)
(* One request on its way through gin: the global middleware, the admin    *)
(* authentication and the rate limit of some routes, the handler, and the  *)
(* way back, a panic of the handler included.  A middleware that calls     *)
(* Next waits until the rest of the chain has returned; one that does not  *)
(* lets the chain go on after it unless it aborts.  Requests share nothing *)
(* here: the limiter and the health cache have modules of their own.  gin  *)
(* answers a path that differs from a route in its trailing slash with a   *)
(* redirect and calls no handler: those requests are outside this module.  *)
(***************************************************************************)
EXTENDS Integers, Sequences

CONSTANTS
  Requests,             \* the requests a client may send
  Origin,               \* origins of web pages
  CORSOrigins,          \* server.cors_origins; empty: every origin
  LogLimit,             \* bodies above it are not logged (10 KB)
  BodyLimit,            \* argument of MaxBodySize (4 MB)
  ContextWithFallback,  \* the option of gin.Engine; Setup leaves it FALSE
  ClientId,             \* values of X-Request-ID clients send
  GeneratedId, NewUUID, \* fresh values of generateRequestID and watermill.NewUUID
  NoOrigin, NoId, NoBody

\* The routes of Setup, those that differ in nothing modelled here as one:
\* "none" has no handler of its own, "read" stands for the routes of the app, which need no token.
Routes  == {"none", "health", "userLogin", "adminLogin", "read", "manage", "update", "create", "list"}
Guarded == {"manage", "update", "create", "list"}    \* "manage": GET and DELETE of one product
Limited == {"create", "list"}
Binds   == {"userLogin", "adminLogin", "update", "create"}
Token   == {"none", "invalid", "user", "admin"}
Base    == {"zh", "en", "other"}    \* base languages of Accept-Language

\* Of a body: its length, whether Content-Length says it, the bytes that arrive before the
\* connection, a chunk or the read timeout breaks it off, and where its first JSON object
\* ends, 0 if it starts with none; what follows the object is not looked at.
Request == [route : Routes, preflight : BOOLEAN, origin : Origin \cup {NoOrigin}, token : Token,
            size : Nat, arrives : Nat, object : Nat, declared : BOOLEAN, binary : BOOLEAN, tags : Seq(Base),
            id : ClientId \cup {NoId}]

ASSUME RequestAssumption ==
  /\ Requests \subseteq Request
  /\ \A r \in Requests : /\ r.preflight => r.route = "none"    \* Setup registers no OPTIONS route
                          /\ r.arrives <= r.size /\ r.object <= r.size
ASSUME LimitAssumption == LogLimit \in Nat /\ BodyLimit \in Nat
ASSUME OptionAssumption == CORSOrigins \subseteq Origin /\ ContextWithFallback \in BOOLEAN
ASSUME NoneAssumption ==
  /\ NoOrigin \notin Origin /\ NoBody \notin Nat /\ NoId # GeneratedId /\ NoId # NewUUID
  /\ {"security", "cors"} \cap (ClientId \cup {GeneratedId}) = {}
  /\ NoId \notin ClientId /\ GeneratedId \notin ClientId /\ NewUUID \notin ClientId \cup {GeneratedId}

VARIABLES
  req,       \* the request
  phase,     \* "serving", "done", or "closed": the connection without an answer
  index,     \* how many handlers of the chain gin has called
  frames,    \* those of them that wait in Next, innermost last
  panicking, \* a panic unwinds the frames
  status,    \* the status gin would send now
  headers,   \* the headers set so far: "security", "id", "cors"
  answers,   \* what was written to the client
  id,        \* the request id of the context
  lang,      \* the language of the context
  body,      \* bytes c.Request.Body still yields before it ends or fails
  limited,   \* whether MaxBytesReader wraps it
  verdict,   \* what the limiter said
  handled,   \* where the object ends that the service was given
  log,       \* the entries of ReqRespLogger
  message    \* UUID of the welcome mail: NoId, "pending" or its value

flow == <<index, frames, panicking>>
sent == <<status, headers, answers>>
data == <<id, lang, body, limited>>
past == <<verdict, handled, log>>
vars == <<req, phase, flow, sent, data, past, message>>

\* The order of the r.Use calls, and what the groups put before their handlers.
RecoveryOutside == <<"SecurityHeaders", "RequestID", "I18n", "Recovery", "ReqRespLogger", "CORS", "MaxBodySize">>
Globals == <<"SecurityHeaders", "RequestID", "I18n", "ReqRespLogger", "Recovery", "CORS", "MaxBodySize">>
LimitBeforeAuth(route) ==
  Globals \o CASE route = "none"   -> <<>>
               [] route \in Limited -> <<"RateLimit", "AdminAuth", "Handler">>
               [] route \in Guarded \ Limited -> <<"AdminAuth", "Handler">>
               [] OTHER -> <<"Handler">>
Chain(route) ==
  Globals \o CASE route = "none"   -> <<>>
               [] route \in Limited -> <<"AdminAuth", "RateLimit", "Handler">>
               [] route \in Guarded \ Limited -> <<"AdminAuth", "Handler">>
               [] OTHER -> <<"Handler">>
AbortIndex == 64    \* gin's abortIndex, 63, which its loop increments

Init ==
  /\ req \in Requests
  /\ phase = "serving"
  /\ index = 0 /\ frames = <<>> /\ panicking = FALSE
  /\ status = (IF req.route = "none" THEN 404 ELSE 200)
  /\ headers = {} /\ answers = <<>>
  /\ id = NoId /\ lang = "none" /\ body = req.arrives /\ limited = FALSE
  /\ verdict = "none" /\ handled = NoBody /\ log = <<>>
  /\ message = NoId

\* The handler gin calls next.
Route == Chain(req.route)
Runs(name) ==
  /\ phase = "serving" /\ ~panicking
  /\ index < Len(Route) /\ Route[index + 1] = name

\* A handler calls Next, or returns without it, or aborts the chain and returns.
CallNext == index' = index + 1 /\ frames' = Append(frames, index + 1) /\ UNCHANGED panicking
Leaves   == index' = index + 1 /\ UNCHANGED <<frames, panicking>>
Abort    == index' = AbortIndex /\ UNCHANGED <<frames, panicking>>

SetHeaders(hs) == headers' = hs /\ UNCHANGED <<status, answers>>

\* The first write sends status and headers; a later one only adds to the body.
Write(code, language, hs) ==
  /\ answers' = Append(answers, [status |-> code, headers |-> hs, lang |-> language])
  /\ status' = (IF answers = <<>> THEN code ELSE status)
  /\ headers' = hs

\* The first language of Accept-Language the program speaks; weights are ignored.
Supported == [zh |-> "zh-CN", en |-> "en-US"]
DefaultLang == "zh-CN"
ParseAcceptLanguage(tags) ==
  LET first == {i \in DOMAIN tags : /\ tags[i] \in DOMAIN Supported
                                    /\ \A j \in 1..(i - 1) : tags[j] \notin DOMAIN Supported}
  IN IF first = {} THEN DefaultLang ELSE Supported[tags[CHOOSE i \in first : TRUE]]
GetLang == IF lang = "none" THEN DefaultLang ELSE lang

NoStatusForLimit == [BadRequest |-> 400, Unauthorized |-> 401, Forbidden |-> 403, NotFound |-> 404,
                     TooManyRequests |-> 0, Internal |-> 500]
HTTPStatus == [BadRequest |-> 400, Unauthorized |-> 401, Forbidden |-> 403, NotFound |-> 404,
               TooManyRequests |-> 429, Internal |-> 500]
Error(code) == Write(HTTPStatus[code], GetLang, headers)
RefusesWithoutAbort(code) == Error(code) /\ Leaves
Refuse(code) == Error(code) /\ Abort

SecurityHeaders ==
  /\ Runs("SecurityHeaders")
  /\ SetHeaders(headers \cup {"security"}) /\ CallNext
  /\ UNCHANGED <<req, phase, data, past, message>>

RequestIDOf(r) == IF r.id = NoId THEN GeneratedId ELSE r.id
RequestID ==
  /\ Runs("RequestID")
  /\ id' = RequestIDOf(req)
  /\ SetHeaders(headers \cup {id'}) /\ CallNext
  /\ UNCHANGED <<req, phase, lang, body, limited, past, message>>

I18n ==
  /\ Runs("I18n")
  /\ lang' = ParseAcceptLanguage(req.tags) /\ CallNext
  /\ UNCHANGED <<req, phase, sent, id, body, limited, past, message>>

\* A body of unknown length has ContentLength -1, which no limit excludes.
ShouldLogRequestBody(r) == ~r.binary /\ (r.declared => r.size <= LogLimit)

\* What the body yields after the logger has read n bytes of it.  The error that broke the
\* reading off is dropped: the handler sees a body that ends there.
Drained(n) == 0
Restored(n) == n
ReqRespLogger ==
  /\ Runs("ReqRespLogger")
  /\ body' = (IF ShouldLogRequestBody(req) THEN Restored(body) ELSE body)
  /\ CallNext
  /\ UNCHANGED <<req, phase, sent, id, lang, limited, past, message>>

Recovery ==
  /\ Runs("Recovery") /\ CallNext
  /\ UNCHANGED <<req, phase, sent, data, past, message>>

AllowsOrigin(o) == o # NoOrigin /\ (CORSOrigins = {} \/ o \in CORSOrigins)
HeadersForPreflight(r) == IF r.preflight THEN headers \cup {"cors"} ELSE headers
CORSHeaders(r) == headers \cup {"cors"}
CORS ==
  /\ Runs("CORS")
  /\ \/ AllowsOrigin(req.origin) /\ ~req.preflight /\ SetHeaders(CORSHeaders(req)) /\ CallNext
     \/ AllowsOrigin(req.origin) /\ req.preflight /\ Write(204, "none", CORSHeaders(req)) /\ Abort
     \/ /\ ~AllowsOrigin(req.origin) /\ (req.origin = NoOrigin \/ ~req.preflight)
        /\ CallNext /\ UNCHANGED sent
     \/ /\ ~AllowsOrigin(req.origin) /\ req.origin # NoOrigin /\ req.preflight
        /\ Write(403, "none", headers) /\ Abort
  /\ UNCHANGED <<req, phase, data, past, message>>

\* Its check of c.Errors on the way back finds nothing: no text put there is the one it looks for.
MaxBodySize ==
  /\ Runs("MaxBodySize")
  /\ limited' = TRUE /\ CallNext
  /\ UNCHANGED <<req, phase, sent, id, lang, body, past, message>>

AdminAuth ==
  /\ Runs("AdminAuth")
  /\ \/ req.token = "admin" /\ CallNext /\ UNCHANGED sent
     \/ req.token = "user" /\ Refuse("Forbidden")
     \/ req.token \in {"none", "invalid"} /\ Refuse("Unauthorized")
  /\ UNCHANGED <<req, phase, data, past, message>>

\* The limiter's own module says when it allows; only creation fails closed.
FailClosed(route) == route = "create"
RateLimit ==
  /\ Runs("RateLimit")
  /\ verdict' \in {"allowed", "refused", "error"}
  /\ \/ /\ verdict' = "allowed" \/ (verdict' = "error" /\ ~FailClosed(req.route))
        /\ CallNext /\ UNCHANGED sent
     \/ /\ verdict' = "refused" \/ (verdict' = "error" /\ FailClosed(req.route))
        /\ Refuse("TooManyRequests")
  /\ UNCHANGED <<req, phase, data, handled, log, message>>

\* MaxBytesReader yields the bytes up to its limit and fails the read that crosses it.
Available == IF limited /\ body > BodyLimit THEN BodyLimit ELSE body

\* ShouldBindJSON decodes the first value of the body, which has to be there in full, and
\* reads no further.
CanBind == req.route \in Binds => req.object \in 1..Available
Bound == IF req.route \in Binds THEN req.object ELSE 0
Outcome(route) ==
  CASE route = "health" -> {503}
    [] route \in {"userLogin", "adminLogin"} -> {401, 403, 500}
    [] route \in {"list", "create"} -> {500}
    [] OTHER -> {404, 500}

\* A malformed id, a body that does not bind, or a product that is not there.
HandlerRefuses ==
  /\ Runs("Handler") /\ req.route \in {"read", "manage"} \cup Binds
  /\ \/ Error("BadRequest")
     \/ req.route = "update" /\ (Error("NotFound") \/ Error("Internal"))
  /\ Leaves
  /\ UNCHANGED <<req, phase, data, past, message>>

HandlerServes ==
  /\ Runs("Handler")
  /\ CanBind
  /\ handled' = Bound
  /\ \/ /\ Write(200, "none", headers)
        /\ message' = (IF req.route = "userLogin" THEN "pending" ELSE message)
     \/ /\ \E code \in Outcome(req.route) :
             Write(code, IF req.route = "health" THEN "none" ELSE GetLang, headers)
        /\ UNCHANGED message
  /\ Leaves
  /\ UNCHANGED <<req, phase, data, verdict, log>>

HandlerPanics ==
  /\ Runs("Handler")
  /\ handled' \in {handled} \cup (IF CanBind THEN {Bound} ELSE {})
  /\ panicking' = TRUE
  /\ UNCHANGED <<req, phase, index, frames, sent, data, verdict, log, message>>

Innermost == Route[frames[Len(frames)]]
Pop == frames' = SubSeq(frames, 1, Len(frames) - 1)

\* Next returns to the middleware that called it; the logger then writes its entry.
Return ==
  /\ phase = "serving" /\ ~panicking /\ index >= Len(Route) /\ frames # <<>>
  /\ Pop
  /\ log' = (IF Innermost = "ReqRespLogger" THEN Append(log, [status |-> status, id |-> id]) ELSE log)
  /\ UNCHANGED <<req, phase, index, panicking, sent, data, verdict, handled, message>>

\* A panic leaves a middleware; Recovery stops it, and outside all of them net/http
\* closes the connection.
Unwind ==
  /\ phase = "serving" /\ panicking /\ frames # <<>> /\ Innermost # "Recovery"
  /\ Pop
  /\ phase' = (IF Len(frames) = 1 THEN "closed" ELSE phase)
  /\ UNCHANGED <<req, index, panicking, sent, data, past, message>>

Recover ==
  /\ phase = "serving" /\ panicking /\ frames # <<>> /\ Innermost = "Recovery"
  /\ Pop
  /\ panicking' = FALSE /\ index' = AbortIndex
  /\ Error("Internal")
  /\ UNCHANGED <<req, phase, data, past, message>>

\* gin writes what nobody wrote: the 404 of an unknown route, an empty answer.
Finish ==
  /\ phase = "serving" /\ ~panicking /\ index >= Len(Route) /\ frames = <<>>
  /\ phase' = "done"
  /\ IF answers = <<>> THEN Write(status, "none", headers) ELSE UNCHANGED sent
  /\ UNCHANGED <<req, flow, data, past, message>>

\* The goroutine of Login publishes with the gin.Context for a context.  Without
\* ContextWithFallback that yields no value for the logger's key.
UuidOf(requestId) == IF ContextWithFallback THEN requestId ELSE NewUUID
Publish ==
  /\ message = "pending"
  /\ message' = UuidOf(id)
  /\ UNCHANGED <<req, phase, flow, sent, data, past>>

Step ==
  \/ SecurityHeaders \/ RequestID \/ I18n \/ ReqRespLogger \/ Recovery \/ CORS \/ MaxBodySize
  \/ AdminAuth \/ RateLimit \/ HandlerRefuses \/ HandlerServes \/ HandlerPanics
  \/ Return \/ Unwind \/ Recover \/ Finish

Next == Step \/ Publish
Spec == Init /\ [][Next]_vars

-----------------------------------------------------------------------------
RequestId == ClientId \cup {GeneratedId}
Language  == {"zh-CN", "en-US"}
Headers   == {"security", "cors"} \cup RequestId
Answer    == [status : 200..599, headers : SUBSET Headers, lang : Language \cup {"none"}]
Entry     == [status : 200..599, id : RequestId \cup {NoId}]

\* Every variable keeps its type: no error without a status of its own reaches gin, and
\* the frames are positions of the chain.
TypeOK ==
  /\ req \in Requests /\ phase \in {"serving", "done", "closed"}
  /\ index \in 0..AbortIndex /\ frames \in Seq(1..Len(Route)) /\ panicking \in BOOLEAN
  /\ status \in 200..599 /\ headers \subseteq Headers /\ answers \in Seq(Answer)
  /\ id \in RequestId \cup {NoId} /\ lang \in Language \cup {"none"}
  /\ body \in Nat /\ limited \in BOOLEAN
  /\ verdict \in {"none", "allowed", "refused", "error"} /\ handled \in Nat \cup {NoBody}
  /\ log \in Seq(Entry) /\ message \in RequestId \cup {NoId, NewUUID, "pending"}

\* The client gets one answer: no middleware or handler answers where another did, the
\* handler of a panicking request does not leave it without one (recovery.go), and a
\* middleware that answers ends the chain (auth.go, ratelimit.go, cors.go).
AnsweredOnce ==
  /\ Len(answers) <= 1 /\ phase # "closed"
  /\ phase = "done" => Len(answers) = 1

\* A finished request of the chain has one log entry, with the status and the request id the client
\* was sent, also after a panic, a refusal, or the 404 gin writes after the chain.
LoggedAsSent ==
  phase = "done" => /\ Len(log) = 1
                    /\ \A i \in DOMAIN answers : /\ log[1].status = answers[i].status
                                                 /\ log[1].id \in answers[i].headers

\* A service sees a request of the admin routes only with an admin token and the limiter's
\* consent, or without its consent if it fails open; the limiter counts no request that
\* authentication refused, and nothing sees a browser's preflight.
GatesHold ==
  /\ verdict # "none" => req.token = "admin" /\ req.route \in Limited
  /\ handled # NoBody =>
       /\ req.route \in Guarded => req.token = "admin"
       /\ req.route \in Limited => \/ verdict = "allowed"
                                   \/ verdict = "error" /\ ~FailClosed(req.route)
       /\ ~req.preflight

\* Although the logger has read the body before and dropped what went wrong with it, a
\* handler can bind exactly the objects that arrived in full and end within the limit, and
\* a service is given no other: none cut off, and of a body above the limit (MaxBodySize)
\* only an object that ends before it.
BodyIntact ==
  /\ Runs("Handler") /\ req.route \in Binds =>
       (CanBind <=> req.object \in 1..req.arrives /\ req.object <= BodyLimit)
  /\ handled # NoBody /\ req.route \in Binds =>
       handled = req.object /\ req.object \in 1..req.arrives /\ req.object <= BodyLimit

\* Whatever the answer, a refusal or the answer to a panic included, it carries the security
\* headers, a CORS header exactly for the origins allowed, and its message in the language
\* asked for.
AnswersComplete ==
  \A i \in DOMAIN answers :
    /\ "security" \in answers[i].headers
    /\ "cors" \in answers[i].headers <=> AllowsOrigin(req.origin)
    /\ answers[i].lang \in {"none", ParseAcceptLanguage(req.tags)}

\* docs/MQ_USAGE.md: the UUID of a message is the request id of the HTTP request.
MessageCarriesRequestId == message \in {NoId, "pending", id}
=============================================================================
