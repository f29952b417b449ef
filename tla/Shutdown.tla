------------------------------ MODULE Shutdown ------------------------------
(***************************************************************************)
(* The life of the process: what main opens, each step of which can fail,  *)
(* App.Run with the HTTP server and the message router it starts, and the  *)
(* deferred calls that close what was opened.  Composes the HTTP handlers, *)
(* the consumers and the goroutines that publish, as far as starting and   *)
(* stopping concerns them.                                                 *)
(*                                                                         *)
(* Time is counted from the moment Run leaves its select.  The main        *)
(* goroutine takes its steps without delay; handlers take any time.        *)
(***************************************************************************)
EXTENDS Integers, Sequences

CONSTANTS
  Req,              \* HTTP requests
  Job,              \* messages a consumer may handle
  ShutdownTimeout,  \* server.shutdown_timeout, in ticks
  DefaultTimeout,   \* the 10 seconds used when it is not positive
  CloseTimeout,     \* the close timeout of the message router (30 s)
  Faults            \* which of "listen" and "consume" can fail while running

ASSUME TimeoutAssumption ==
  /\ ShutdownTimeout \in Int
  /\ DefaultTimeout \in Nat \ {0} /\ CloseTimeout \in Nat \ {0}
ASSUME FaultAssumption == Faults \subseteq {"listen", "consume"}

VARIABLES
  main,      \* where the main goroutine stands
  open,      \* which of MySQL, Redis, the publisher and the poison publisher are open
  defers,    \* how many deferred calls are still to close something
  signalled, \* SIGINT or SIGTERM arrived: the context is done
  http,      \* the HTTP server
  router,    \* the message router
  errs,      \* errors in errCh
  elapsed,   \* ticks since Run left its select
  runErr,    \* Run returns an error
  req,       \* Req -> where the request stands
  mail,      \* Req -> the goroutine that publishes its welcome mail
  job        \* Job -> the handler of the message

vars == <<main, open, defers, signalled, http, router, errs, elapsed, runErr, req, mail, job>>

Startup == {"config", "mysql", "redis", "migrate", "publisher", "router", "run"}

\* What the deferred calls of run close, in the order in which they are deferred.
\* Nothing closes the poison publisher.
Closers == <<"mysql", "redis", "publisher">>
AllOpen == {"mysql", "redis", "publisher", "poison"}

Init ==
  /\ main = "config" /\ open = {} /\ defers = 0 /\ signalled = FALSE
  /\ http = "new" /\ router = "new"
  /\ errs = 0 /\ elapsed = 0 /\ runErr = FALSE
  /\ req = [q \in Req |-> "none"]
  /\ mail = [q \in Req |-> "none"]
  /\ job = [j \in Job |-> "none"]

Gone == main \in {"exited", "killed"}

Busy == \E q \in Req : req[q] = "running"
Consuming == \E j \in Job : job[j] = "running"

-----------------------------------------------------------------------------
(* What runs beside the main goroutine *)

\* NotifyContext turns the signal into the end of the context while Run runs.
Signal ==
  /\ ~signalled /\ main \in {"running", "closing", "shutdown", "draining"}
  /\ signalled' = TRUE
  /\ UNCHANGED <<main, open, defers, http, router, errs, elapsed, runErr, req, mail, job>>

\* ListenAndServe returns an error other than ErrServerClosed.
ListenFails ==
  /\ "listen" \in Faults /\ http = "serving" /\ ~Gone
  /\ http' = "failed"
  /\ errs' = errs + 1
  /\ UNCHANGED <<main, open, defers, signalled, router, elapsed, runErr, req, mail, job>>

\* The router's Run returns an error; after the signal nobody is told.
ConsumeFails ==
  /\ "consume" \in Faults /\ router = "consuming" /\ main \in {"running", "closing"}
  /\ router' = "failed"
  /\ errs' = IF signalled THEN errs ELSE errs + 1
  /\ UNCHANGED <<main, open, defers, signalled, http, elapsed, runErr, req, mail, job>>

\* The HTTP server accepts requests until Shutdown closes its listener and the idle
\* connections; on open connections it does so even when ListenAndServe has failed.
Accept(q) ==
  /\ http \in {"serving", "failed"} /\ main \in {"running", "closing", "shutdown"}
  /\ req[q] = "none"
  /\ req' = [req EXCEPT ![q] = "running"]
  /\ UNCHANGED <<main, open, defers, signalled, http, router, errs, elapsed, runErr, mail, job>>

\* A handler answers; that of a login leaves a goroutine behind.
Serve(q) ==
  /\ req[q] = "running" /\ ~Gone
  /\ req' = [req EXCEPT ![q] = "served"]
  /\ mail' \in {mail, [mail EXCEPT ![q] = "publishing"]}
  /\ UNCHANGED <<main, open, defers, signalled, http, router, errs, elapsed, runErr, job>>

\* The goroutine publishes, or finds the publisher and Redis closed.
PublishMail(q) ==
  /\ mail[q] = "publishing" /\ ~Gone
  /\ mail' = [mail EXCEPT ![q] = IF {"publisher", "redis"} \subseteq open THEN "sent" ELSE "lost"]
  /\ UNCHANGED <<main, open, defers, signalled, http, router, errs, elapsed, runErr, req, job>>

\* A consumer takes a message, until the context is done or the router closes.
Take(j) ==
  /\ router = "consuming" /\ main = "running" /\ ~signalled /\ job[j] = "none"
  /\ job' = [job EXCEPT ![j] = "running"]
  /\ UNCHANGED <<main, open, defers, signalled, http, router, errs, elapsed, runErr, req, mail>>

Finish(j) ==
  /\ job[j] = "running" /\ ~Gone
  /\ job' = [job EXCEPT ![j] = "done"]
  /\ UNCHANGED <<main, open, defers, signalled, http, router, errs, elapsed, runErr, req, mail>>

-----------------------------------------------------------------------------
(* The main goroutine: starting *)

\* A step of the startup that failed is reported and run returns.
FatalSkipsDefers == main' = "exited" /\ runErr' = TRUE
GiveUp == main' = "deferred" /\ runErr' = TRUE

\* A step either goes on, having opened what it is for, or fails and leaves behind
\* one of the sets in leaks.
Step(from, to, opens, leaks) ==
  /\ main = from
  /\ \/ main' = to /\ open' = open \union opens /\ UNCHANGED runErr
        /\ defers' = IF opens \subseteq {"poison"} THEN defers ELSE defers + 1
     \/ GiveUp /\ UNCHANGED defers /\ \E left \in leaks : open' = open \union left
  /\ UNCHANGED <<signalled, http, router, errs, elapsed, req, mail, job>>

\* The configuration is read and validated; MySQL and Redis are opened and must
\* answer a ping, after which a failing step closes nothing; the tables are migrated;
\* the publisher, then the router of the consumers with its poison publisher are made.
LoadConfig    == Step("config", "mysql", {}, {{}})
OpenMySQL     == Step("mysql", "redis", {"mysql"}, {{}, {"mysql"}})
OpenRedis     == Step("redis", "migrate", {"redis"}, {{"redis"}})
Migrate       == Step("migrate", "publisher", {}, {{}})
OpenPublisher == Step("publisher", "router", {"publisher"}, {{}})
MakeRouter    == Step("router", "run", {"poison"}, {{}, {"poison"}})

\* Run starts both servers.
Run ==
  /\ main = "run"
  /\ main' = "running"
  /\ http' = "serving" /\ router' = "consuming"
  /\ UNCHANGED <<open, defers, signalled, errs, elapsed, runErr, req, mail, job>>

Start == \/ LoadConfig \/ OpenMySQL \/ OpenRedis \/ Migrate \/ OpenPublisher
         \/ MakeRouter \/ Run

-----------------------------------------------------------------------------
(* The main goroutine: stopping *)

Timeout == IF ShutdownTimeout > 0 THEN ShutdownTimeout ELSE DefaultTimeout

LeavesOnSignalOnly ==
  /\ main = "running" /\ signalled
  /\ main' = "closing"
  /\ UNCHANGED <<open, defers, signalled, http, router, errs, elapsed, runErr, req, mail, job>>

\* The select of Run: the context is done, or a goroutine failed.
Leave ==
  /\ main = "running"
  /\ \/ signalled /\ UNCHANGED <<errs, runErr>>
     \/ errs > 0 /\ errs' = errs - 1 /\ runErr' = TRUE
  /\ main' = "closing"
  /\ UNCHANGED <<open, defers, signalled, http, router, elapsed, req, mail, job>>

\* mqRouter.Close waits for the handlers, at most CloseTimeout.  It then reports an
\* error, unless the router had begun to close itself when the context was done.
DoesNotWait == TRUE
RouterClosed == ~Consuming \/ elapsed >= CloseTimeout

CloseRouter ==
  /\ main = "closing" /\ RouterClosed
  /\ router' = "closed"
  /\ \/ Consuming /\ runErr' = TRUE
     \/ (Consuming => signalled) /\ UNCHANGED runErr
  /\ main' = "shutdown"
  /\ UNCHANGED <<open, defers, signalled, http, errs, elapsed, req, mail, job>>

ListenerStaysOpen ==
  /\ main = "shutdown"
  /\ main' = "draining"
  /\ UNCHANGED <<open, defers, signalled, http, router, errs, elapsed, runErr, req, mail, job>>

\* httpServer.Shutdown closes the listener ...
CloseListener ==
  /\ main = "shutdown"
  /\ http' = IF http = "serving" THEN "closed" ELSE http
  /\ main' = "draining"
  /\ UNCHANGED <<open, defers, signalled, router, errs, elapsed, runErr, req, mail, job>>

\* ... and waits for the requests until the deadline of shutdownCtx, which was set
\* before the router was closed.
SetAfterClosingRouter == Timeout + CloseTimeout
CancelledContext == 0
Deadline == Timeout

ErrorIgnored == UNCHANGED runErr
ReportTimeout == runErr' = TRUE

Drain ==
  /\ main = "draining"
  /\ \/ ~Busy /\ UNCHANGED runErr
     \/ Busy /\ elapsed >= Deadline /\ ReportTimeout
  /\ main' = "deferred"
  /\ UNCHANGED <<open, defers, signalled, http, router, errs, elapsed, req, mail, job>>

\* The deferred calls close what was opened, the last first ...
CloseResource ==
  /\ main = "deferred" /\ defers > 0
  /\ open' = open \ {Closers[defers]}
  /\ defers' = defers - 1
  /\ UNCHANGED <<main, signalled, http, router, errs, elapsed, runErr, req, mail, job>>

\* The process ends with everything that still runs.
CutShort ==
  /\ req'  = [q \in Req |-> IF req[q] = "running" THEN "cut" ELSE req[q]]
  /\ mail' = [q \in Req |-> IF mail[q] = "publishing" THEN "lost" ELSE mail[q]]
  /\ job'  = [j \in Job |-> IF job[j] = "running" THEN "abandoned" ELSE job[j]]

\* ... and then main returns.
Exit ==
  /\ main = "deferred" /\ defers = 0
  /\ main' = "exited"
  /\ CutShort
  /\ UNCHANGED <<open, defers, signalled, http, router, errs, elapsed, runErr>>

\* Outside Run a signal has its default effect: NotifyContext is called after the
\* startup, and its stop is the first of the deferred calls.
Kill ==
  /\ main \in Startup \union {"deferred"}
  /\ main' = "killed" /\ signalled' = TRUE
  /\ CutShort
  /\ UNCHANGED <<open, defers, http, router, errs, elapsed, runErr>>

Main == Start \/ Leave \/ CloseRouter \/ CloseListener \/ Drain \/ CloseResource \/ Exit

\* Time passes only while the main goroutine waits.
Waiting ==
  \/ main = "closing" /\ ~RouterClosed
  \/ main = "draining" /\ Busy /\ elapsed < Deadline

Tick ==
  /\ Waiting
  /\ elapsed' = elapsed + 1
  /\ UNCHANGED <<main, open, defers, signalled, http, router, errs, runErr, req, mail, job>>

Next ==
  \/ Signal \/ ListenFails \/ ConsumeFails
  \/ \E q \in Req : Accept(q) \/ Serve(q) \/ PublishMail(q)
  \/ \E j \in Job : Take(j) \/ Finish(j)
  \/ Main \/ Kill \/ Tick

Spec == Init /\ [][Next]_vars

\* The main goroutine runs and time passes; no handler need ever end.
FairSpec == Spec /\ WF_vars(Main) /\ WF_vars(Tick)

-----------------------------------------------------------------------------
(* Properties *)

Longest == IF Timeout < CloseTimeout THEN CloseTimeout ELSE Timeout

\* The types; errCh never holds more than the two errors it has room for, and no
\* listener is open once requests are awaited.
TypeOK ==
  /\ main \in Startup \union
       {"running", "closing", "shutdown", "draining", "deferred", "exited", "killed"}
  /\ open \subseteq AllOpen /\ defers \in 0 .. Len(Closers)
  /\ signalled \in BOOLEAN /\ runErr \in BOOLEAN
  /\ http \in {"new", "serving", "failed", "closed"}
  /\ router \in {"new", "consuming", "failed", "closed"}
  /\ errs \in 0 .. 2
  /\ main \in {"draining", "deferred"} \/ Gone => http # "serving"
  /\ elapsed \in Nat
  /\ req \in [Req -> {"none", "running", "served", "cut"}]
  /\ mail \in [Req -> {"none", "publishing", "sent", "lost"}]
  /\ job \in [Job -> {"none", "running", "done", "abandoned"}]

\* A process that ends without reporting an error, killed by a signal or not, has
\* answered every request it had accepted, those that arrived while the router was
\* closing included.
CleanExitCutsNobody ==
  Gone /\ ~runErr => \A q \in Req : req[q] \notin {"running", "cut"}

\* No request is cut before the whole shutdown timeout has passed, and no message
\* handler before the router's close timeout, whatever started the shutdown and
\* however long the router took to close.
GraceIsKept ==
  Gone =>
    /\ \A q \in Req : req[q] = "cut" => elapsed >= Timeout
    /\ \A j \in Job : job[j] = "abandoned" => elapsed >= CloseTimeout

\* The two timeouts overlap: the process is gone after the longer one.
ExitIsBounded == elapsed <= Longest

\* Everything main opened is open whenever a request or a message is handled that has
\* not yet had its full grace.  After an exit at most one thing is left open: MySQL or
\* Redis, if opening that one is what failed, or the poison publisher, which nothing
\* closes; an exit without error leaves no more than the latter.
ResourcesOutliveUsers ==
  /\ open # AllOpen =>
       /\ \A q \in Req : req[q] = "running" => elapsed >= Timeout
       /\ \A j \in Job : job[j] = "running" => elapsed >= CloseTimeout
  /\ main = "exited" =>
       /\ open \in {{}, {"mysql"}, {"redis"}, {"poison"}}
       /\ ~runErr => open \subseteq {"poison"}

\* A signal, during the startup too, or a failed server stops the process, even if no
\* handler ever returns.
Stops == (signalled \/ errs > 0) ~> Gone

=============================================================================
