--------------------------- MODULE ShutdownProofs ---------------------------
(***************************************************************************)
(* Proofs about Shutdown, for every number of requests and messages, all   *)
(* timeouts and any choice of faults.                                      *)
(***************************************************************************)
EXTENDS Shutdown, TLAPS

\* The error of a server is sent once, so two places in errCh are enough.
ErrsFit ==
  /\ http # "failed" => errs <= 1
  /\ router = "consuming" => errs <= 1
  /\ http # "failed" /\ router = "consuming" => errs = 0

\* What the deferred calls are still to close.
Due ==
  IF defers = 0 THEN {}
  ELSE IF defers = 1 THEN {"mysql"}
  ELSE IF defers = 2 THEN {"mysql", "redis"} ELSE {"mysql", "redis", "publisher"}

\* Besides, one thing at most is open: what a failing step left, or the poison publisher.
Deferring ==
  \E x \in {{}, {"mysql"}, {"redis"}, {"poison"}} :
    /\ open = Due \union x
    /\ x = {"mysql"} => defers = 0
    /\ x = {"redis"} => defers <= 1
    /\ ~runErr => x = {"poison"}

\* Nothing runs before Run does, and everything is open from then on until main defers.
Started ==
  /\ main \in Startup =>
       /\ http = "new" /\ router = "new" /\ errs = 0 /\ elapsed = 0
       /\ \A q \in Req : req[q] = "none"
       /\ \A j \in Job : job[j] = "none"
  /\ main \in {"config", "mysql"} => open = {} /\ defers = 0
  /\ main = "redis" => open = {"mysql"} /\ defers = 1
  /\ main \in {"migrate", "publisher"} => open = {"mysql", "redis"} /\ defers = 2
  /\ main = "router" => open = {"mysql", "redis", "publisher"} /\ defers = 3
  /\ main \in {"run", "running", "closing", "shutdown", "draining"} => open = AllOpen /\ defers = 3
  /\ main \in {"deferred", "exited"} => Deferring
  /\ main = "exited" => defers = 0

\* How far the clock has come at each stage of the main goroutine.
Clock ==
  /\ main = "running" => elapsed = 0
  /\ main \in {"closing", "shutdown"} => elapsed <= CloseTimeout
  /\ elapsed <= Longest

\* Handlers are cut at the end only; what the main goroutine left running has had
\* the time that it was due.
Grace ==
  /\ \A q \in Req : req[q] = "cut" => Gone /\ elapsed >= Timeout
  /\ \A j \in Job : job[j] = "abandoned" => Gone /\ elapsed >= CloseTimeout
  /\ main = "deferred" => \A q \in Req : req[q] = "running" => elapsed >= Timeout
  /\ main \in {"shutdown", "draining", "deferred"} =>
       \A j \in Job : job[j] = "running" => elapsed >= CloseTimeout

\* Past the wait for requests, no error means that none was left.
Clean ==
  /\ main = "deferred" /\ ~runErr => \A q \in Req : req[q] # "running"
  /\ Gone /\ ~runErr => \A q \in Req : req[q] \notin {"running", "cut"}
  /\ Gone => /\ \A q \in Req : req[q] # "running"
             /\ \A j \in Job : job[j] # "running"

Inv == TypeOK /\ ErrsFit /\ Started /\ Clock /\ Grace /\ Clean

LEMMA TimeoutsArePositive == Timeout \in Nat \ {0} /\ Longest \in Nat /\ Timeout <= Longest /\ CloseTimeout <= Longest
BY TimeoutAssumption DEF Timeout, Longest

LEMMA InitInv == Init => Inv
<1> SUFFICES ASSUME Init PROVE Inv
  OBVIOUS
<1>1. TypeOK
  <2>1. errs \in 0 .. 2 /\ elapsed \in Nat
    BY DEF Init
  <2>2. signalled \in BOOLEAN /\ runErr \in BOOLEAN
    BY Zenon DEF Init
  <2> QED
    BY <2>1, <2>2 DEF Init, TypeOK, Startup, AllOpen, Gone
<1>2. ErrsFit /\ Clock
  BY TimeoutsArePositive, TimeoutAssumption DEF Init, ErrsFit, Clock, Startup
<1>3. Grace /\ Clean /\ Started
  BY DEF Init, Grace, Clean, Started, Startup, AllOpen, Gone
<1> QED
  BY <1>1, <1>2, <1>3 DEF Inv

LEMMA StepTypes == Inv /\ [Next]_vars => TypeOK' /\ ErrsFit'
<1> SUFFICES ASSUME Inv, [Next]_vars PROVE TypeOK' /\ ErrsFit'
  OBVIOUS
<1> USE DEF Inv, TypeOK, ErrsFit, Startup, Gone, AllOpen
<1>1. CASE Signal
  BY <1>1 DEF Signal
<1>2. CASE ListenFails
  BY <1>2 DEF ListenFails
<1>3. CASE ConsumeFails
  BY <1>3 DEF ConsumeFails
<1>4. ASSUME NEW q \in Req, Accept(q) PROVE TypeOK' /\ ErrsFit'
  BY <1>4 DEF Accept
<1>5. ASSUME NEW q \in Req, Serve(q) PROVE TypeOK' /\ ErrsFit'
  BY <1>5 DEF Serve
<1>6. ASSUME NEW q \in Req, PublishMail(q) PROVE TypeOK' /\ ErrsFit'
  BY <1>6 DEF PublishMail
<1>7. ASSUME NEW j \in Job, Take(j) PROVE TypeOK' /\ ErrsFit'
  BY <1>7 DEF Take
<1>8. ASSUME NEW j \in Job, Finish(j) PROVE TypeOK' /\ ErrsFit'
  BY <1>8 DEF Finish
<1>9. CASE Leave
  <2>1. CASE signalled /\ UNCHANGED <<errs, runErr>>
    BY <1>9, <2>1 DEF Leave
  <2>2. CASE errs > 0 /\ errs' = errs - 1 /\ runErr' = TRUE
    <3>1. errs' \in 0 .. 2 /\ errs' <= 1
      BY <2>2
    <3>2. http # "failed" /\ router = "consuming" => errs' = 0
      BY <2>2
    <3> QED
      BY <1>9, <2>2, <3>1, <3>2 DEF Leave
  <2> QED
    BY <1>9, <2>1, <2>2 DEF Leave
<1>10. CASE CloseRouter
  BY <1>10 DEF CloseRouter
<1>11. CASE CloseListener
  BY <1>11 DEF CloseListener
<1>12. CASE Drain
  BY <1>12 DEF Drain, ReportTimeout
<1>13. CASE Exit \/ Kill
  <2>1. /\ req'  \in [Req -> {"none", "running", "served", "cut"}]
        /\ mail' \in [Req -> {"none", "publishing", "sent", "lost"}]
        /\ job'  \in [Job -> {"none", "running", "done", "abandoned"}]
    BY <1>13 DEF Exit, Kill, CutShort
  <2>2. main' \in {"exited", "killed"} /\ http # "serving"
    BY <1>13 DEF Exit, Kill, Started
  <2>3. signalled' \in BOOLEAN
    BY <1>13, Zenon DEF Exit, Kill
  <2> QED
    BY <1>13, <2>1, <2>2, <2>3 DEF Exit, Kill
<1>14. CASE Tick
  BY <1>14 DEF Tick
<1>15. CASE UNCHANGED vars
  BY <1>15 DEF vars
<1>16. CASE CloseResource
  <2>1. defers \in 0 .. 3 /\ Len(Closers) = 3
    BY DEF Closers
  <2>2. open' \subseteq AllOpen /\ defers' \in 0 .. Len(Closers)
    <3>1. open' = open \ {Closers[defers]} /\ defers' = defers - 1 /\ defers > 0
      BY <1>16 DEF CloseResource
    <3>2. open \subseteq AllOpen
      OBVIOUS
    <3>3. open' \subseteq AllOpen
      BY <3>1, <3>2, Zenon
    <3>4. defers' \in 0 .. Len(Closers)
      BY <2>1, <3>1
    <3> QED
      BY <3>3, <3>4
  <2> QED
    BY <1>16, <2>2 DEF CloseResource
<1>17. CASE Start
  <2>1. CASE Run
    BY <1>17, <2>1 DEF Run, Started
  <2>2. ASSUME NEW from \in Startup, NEW to \in Startup, NEW opens \in SUBSET AllOpen,
               NEW leaks \in SUBSET (SUBSET AllOpen), Step(from, to, opens, leaks),
               defers' \in 0 .. 3
        PROVE  TypeOK' /\ ErrsFit'
    <3>1. runErr' \in BOOLEAN
      BY <2>2, Zenon DEF Step, GiveUp
    <3>2. main' \in Startup \union {"deferred"} /\ http # "serving"
      BY <2>2 DEF Step, GiveUp, Started
    <3>3. open' \subseteq AllOpen
      BY <2>2 DEF Step
    <3>4. Len(Closers) = 3
      BY DEF Closers
    <3> QED
      BY <2>2, <3>1, <3>2, <3>3, <3>4 DEF Step
  <2>3. CASE LoadConfig \/ OpenMySQL \/ OpenRedis \/ Migrate \/ OpenPublisher \/ MakeRouter
    <3>1. defers' \in 0 .. 3
      BY <2>3 DEF LoadConfig, OpenMySQL, OpenRedis, Migrate, OpenPublisher, MakeRouter, Step, Started
    <3> HIDE DEF Inv, TypeOK, ErrsFit
    <3> QED
      BY <2>2, <2>3, <3>1
      DEF LoadConfig, OpenMySQL, OpenRedis, Migrate, OpenPublisher, MakeRouter
  <2> QED
    BY <1>17, <2>1, <2>3 DEF Start
<1> QED
  BY <1>1, <1>2, <1>3, <1>4, <1>5, <1>6, <1>7, <1>8, <1>9, <1>10, <1>11, <1>12,
     <1>13, <1>14, <1>15, <1>16, <1>17 DEF Next, Main

\* A step of the startup: main goes on or gives up, and nothing else changes but open.
LEMMA StartupSteps ==
  ASSUME LoadConfig \/ OpenMySQL \/ OpenRedis \/ Migrate \/ OpenPublisher \/ MakeRouter
  PROVE  /\ main \in Startup /\ main' \in Startup \union {"deferred"}
         /\ UNCHANGED <<signalled, http, router, errs, elapsed, req, mail, job>>
<1> USE DEF LoadConfig, OpenMySQL, OpenRedis, Migrate, OpenPublisher, MakeRouter, Step, GiveUp
<1>1. main \in Startup /\ main' \in Startup \union {"deferred"}
  BY DEF Startup
<1>2. UNCHANGED <<signalled, http, router, errs, elapsed, req, mail, job>>
  BY Zenon
<1> QED
  BY <1>1, <1>2

LEMMA StepStarted == Inv /\ [Next]_vars => Started'
<1> SUFFICES ASSUME Inv, [Next]_vars PROVE Started'
  OBVIOUS
<1> USE DEF Started, Startup, AllOpen
<1>1. Started /\ open \subseteq AllOpen /\ defers \in 0 .. 3
  BY DEF Inv, TypeOK, Closers
<1>2. CASE LoadConfig \/ OpenMySQL \/ OpenRedis \/ Migrate \/ OpenPublisher \/ MakeRouter
  <2>1. main \in Startup /\ UNCHANGED <<http, router, errs, elapsed, req, job>>
    BY <1>2, StartupSteps
  <2>2. /\ http' = "new" /\ router' = "new" /\ errs' = 0 /\ elapsed' = 0
        /\ \A q \in Req : req'[q] = "none"
        /\ \A j \in Job : job'[j] = "none"
    BY <1>1, <2>1
  <2>3. CASE main' \in Startup
    <3>1. CASE LoadConfig
      BY <1>1, <2>2, <2>3, <3>1 DEF LoadConfig, Step, GiveUp
    <3>2. CASE OpenMySQL
      <4>1. main' = "redis" /\ open' = {"mysql"} /\ defers' = 1
        <5>1. main = "mysql" /\ main' # "deferred"
          BY <2>3, <3>2 DEF OpenMySQL, Step
        <5>2. /\ main' = "redis" /\ open' = open \union {"mysql"}
              /\ defers' = IF {"mysql"} \subseteq {"poison"} THEN defers ELSE defers + 1
          BY <3>2, <5>1 DEF OpenMySQL, Step, GiveUp
        <5>3. open = {} /\ defers = 0
          BY <1>1, <5>1
        <5> QED
          BY <5>2, <5>3
      <4> QED
        BY <2>2, <4>1
    <3>3. CASE OpenRedis
      BY <1>1, <2>2, <2>3, <3>3 DEF OpenRedis, Step, GiveUp
    <3>4. CASE Migrate
      BY <1>1, <2>2, <2>3, <3>4 DEF Migrate, Step, GiveUp
    <3>5. CASE OpenPublisher
      BY <1>1, <2>2, <2>3, <3>5 DEF OpenPublisher, Step, GiveUp
    <3>6. CASE MakeRouter
      BY <1>1, <2>2, <2>3, <3>6 DEF MakeRouter, Step, GiveUp
    <3> QED
      BY <1>2, <3>1, <3>2, <3>3, <3>4, <3>5, <3>6
  <2>4. CASE main' = "deferred"
    <3>1. runErr' = TRUE /\ defers' = defers
      BY <1>2, <2>4
      DEF LoadConfig, OpenMySQL, OpenRedis, Migrate, OpenPublisher, MakeRouter, Step, GiveUp
    <3> SUFFICES Deferring'
      BY <2>2, <2>4
    <3>2. CASE LoadConfig \/ Migrate \/ OpenPublisher
      <4>1. open' = Due' \union {}
        <5>1. open' = open
          BY <2>4, <3>2 DEF LoadConfig, Migrate, OpenPublisher, Step
        <5>2. main \in {"config", "migrate", "publisher"}
          BY <3>2 DEF LoadConfig, Migrate, OpenPublisher, Step
        <5>3. open = Due
          BY <1>1, <5>2 DEF Due
        <5> QED
          BY <3>1, <5>1, <5>3 DEF Due
      <4> QED
        BY <3>1, <4>1 DEF Deferring
    <3>3. CASE OpenMySQL
      BY <1>1, <2>4, <3>1, <3>3 DEF OpenMySQL, Step, Due, Deferring
    <3>4. CASE OpenRedis
      BY <1>1, <2>4, <3>1, <3>4 DEF OpenRedis, Step, Due, Deferring
    <3>5. CASE MakeRouter
      BY <1>1, <2>4, <3>1, <3>5 DEF MakeRouter, Step, Due, Deferring
    <3> QED
      BY <1>2, <3>2, <3>3, <3>4, <3>5
  <2>5. main' \in Startup \/ main' = "deferred"
    BY <1>2, StartupSteps
  <2> QED
    BY <2>3, <2>4, <2>5
<1>3. CASE Run
  BY <1>1, <1>3 DEF Run
<1>4. CASE Leave \/ CloseRouter \/ CloseListener
  BY <1>1, <1>4 DEF Leave, CloseRouter, CloseListener
<1>9. CASE Drain
  <2>1. open' = AllOpen /\ defers' = 3 /\ main' = "deferred"
    BY <1>1, <1>9 DEF Drain
  <2>2. Deferring'
    BY <2>1 DEF Deferring, Due
  <2> QED
    BY <2>1, <2>2
<1>10. CASE CloseResource
  <2>1. /\ main = "deferred" /\ main' = "deferred" /\ defers \in 1 .. 3 /\ defers' = defers - 1
        /\ open' = open \ {Closers[defers]} /\ runErr' = runErr
    BY <1>1, <1>10 DEF CloseResource
  <2>2. PICK x \in {{}, {"mysql"}, {"redis"}, {"poison"}} :
          /\ open = Due \union x
          /\ x = {"mysql"} => defers = 0
          /\ x = {"redis"} => defers <= 1
          /\ ~runErr => x = {"poison"}
    BY <1>1, <2>1 DEF Deferring
  <2>3. Due' = Due \ {Closers[defers]} /\ Closers[defers] \notin x
    <3>1. CASE defers = 1
      BY <2>1, <2>2, <3>1 DEF Due, Closers
    <3>2. CASE defers = 2
      BY <2>1, <2>2, <3>2 DEF Due, Closers
    <3>3. CASE defers = 3
      BY <2>1, <2>2, <3>3 DEF Due, Closers
    <3> QED
      BY <2>1, <3>1, <3>2, <3>3
  <2>4. open' = Due' \union x
    BY <2>1, <2>2, <2>3
  <2>5. Deferring'
    BY <2>1, <2>2, <2>4 DEF Deferring
  <2> QED
    BY <2>1, <2>5
<1>5. CASE Exit \/ Kill
  <2>1. UNCHANGED <<open, defers, runErr>>
    BY <1>5 DEF Exit, Kill
  <2>2. Deferring => Deferring'
    BY <2>1 DEF Deferring, Due
  <2> QED
    BY <1>1, <1>5, <2>1, <2>2 DEF Exit, Kill
<1>6. CASE Signal \/ ListenFails \/ ConsumeFails \/ Tick \/ UNCHANGED vars
  BY <1>1, <1>6 DEF Signal, ListenFails, ConsumeFails, Tick, Waiting, vars, Deferring, Due
<1>7. ASSUME NEW q \in Req, Accept(q) \/ Serve(q) \/ PublishMail(q) PROVE Started'
  BY <1>1, <1>7 DEF Accept, Serve, PublishMail, Deferring, Due
<1>8. ASSUME NEW j \in Job, Take(j) \/ Finish(j) PROVE Started'
  BY <1>1, <1>8 DEF Take, Finish, Deferring, Due
<1> QED
  BY <1>2, <1>3, <1>4, <1>5, <1>6, <1>7, <1>8, <1>9, <1>10 DEF Next, Main, Start

LEMMA StepClock == Inv /\ [Next]_vars => Clock'
<1> SUFFICES ASSUME Inv, [Next]_vars PROVE Clock'
  OBVIOUS
<1>1. elapsed \in Nat /\ CloseTimeout \in Nat /\ Timeout \in Nat
  BY TimeoutAssumption, TimeoutsArePositive DEF Inv, TypeOK
<1> USE DEF Inv, Clock
<1>2. CASE /\ UNCHANGED elapsed
          /\ \/ UNCHANGED main
             \/ Leave \/ CloseRouter \/ CloseListener \/ Drain \/ Exit \/ Kill
  BY <1>1, <1>2, TimeoutsArePositive
  DEF Leave, CloseRouter, CloseListener, Drain, Exit, Kill
<1>3. CASE Tick
  <2>1. elapsed' = elapsed + 1 /\ main' = main
    BY <1>3 DEF Tick
  <2>2. CASE main = "closing" /\ ~RouterClosed
    BY <1>1, <2>1, <2>2, TimeoutsArePositive DEF RouterClosed
  <2>3. CASE main = "draining" /\ elapsed < Deadline
    BY <1>1, <2>1, <2>3, TimeoutsArePositive DEF Deadline
  <2> QED
    BY <1>3, <2>2, <2>3 DEF Tick, Waiting
<1>4. CASE Signal \/ ListenFails \/ ConsumeFails \/ UNCHANGED vars
  BY <1>2, <1>4 DEF Signal, ListenFails, ConsumeFails, vars
<1>5. ASSUME NEW q \in Req, Accept(q) \/ Serve(q) \/ PublishMail(q) PROVE Clock'
  BY <1>2, <1>5 DEF Accept, Serve, PublishMail
<1>6. ASSUME NEW j \in Job, Take(j) \/ Finish(j) PROVE Clock'
  BY <1>2, <1>6 DEF Take, Finish
<1>7. CASE Leave \/ CloseRouter \/ CloseListener \/ Drain \/ CloseResource \/ Exit \/ Kill
  BY <1>2, <1>7 DEF Leave, CloseRouter, CloseListener, Drain, CloseResource, Exit, Kill
<1>8. CASE Start
  <2>1. main \in Startup /\ UNCHANGED elapsed
    BY <1>8, StartupSteps DEF Start, Run, Startup
  <2>2. elapsed' = 0
    BY <2>1 DEF Started
  <2> QED
    BY <2>2, TimeoutsArePositive, TimeoutAssumption
<1> QED
  BY <1>3, <1>4, <1>5, <1>6, <1>7, <1>8 DEF Next, Main

LEMMA StepGrace == Inv /\ [Next]_vars => Grace' /\ Clean'
<1> SUFFICES ASSUME Inv, [Next]_vars PROVE Grace' /\ Clean'
  OBVIOUS
<1>1. /\ elapsed \in Nat /\ CloseTimeout \in Nat /\ Timeout \in Nat
      /\ req \in [Req -> {"none", "running", "served", "cut"}]
      /\ job \in [Job -> {"none", "running", "done", "abandoned"}]
      /\ main \in Startup \union
           {"running", "closing", "shutdown", "draining", "deferred", "exited", "killed"}
      /\ runErr \in BOOLEAN
      /\ main \in {"draining", "deferred"} \/ Gone => http # "serving"
  BY TimeoutAssumption, TimeoutsArePositive DEF Inv, TypeOK
<1> USE DEF Grace, Clean, Gone, Startup
<1>2. Grace /\ Clean
  BY DEF Inv
<1>3. CASE Signal \/ ListenFails \/ ConsumeFails \/ UNCHANGED vars
  BY <1>2, <1>3 DEF Signal, ListenFails, ConsumeFails, vars
<1>4. ASSUME NEW q \in Req, Accept(q) PROVE Grace' /\ Clean'
  BY <1>1, <1>2, <1>4 DEF Accept
<1>5. ASSUME NEW q \in Req, Serve(q) PROVE Grace' /\ Clean'
  BY <1>1, <1>2, <1>5 DEF Serve
<1>6. ASSUME NEW q \in Req, PublishMail(q) PROVE Grace' /\ Clean'
  BY <1>2, <1>6 DEF PublishMail
<1>7. ASSUME NEW j \in Job, Take(j) PROVE Grace' /\ Clean'
  BY <1>1, <1>2, <1>7 DEF Take
<1>8. ASSUME NEW j \in Job, Finish(j) PROVE Grace' /\ Clean'
  BY <1>1, <1>2, <1>8 DEF Finish
<1>9. CASE Leave
  BY <1>1, <1>2, <1>9 DEF Leave
<1>10. CASE CloseRouter
  BY <1>1, <1>2, <1>10 DEF CloseRouter, RouterClosed, Consuming
<1>11. CASE CloseListener
  BY <1>1, <1>2, <1>11 DEF CloseListener
<1>12. CASE Drain
  BY <1>1, <1>2, <1>12 DEF Drain, ReportTimeout, Busy, Deadline
<1>13. CASE Exit \/ CloseResource
  BY <1>1, <1>2, <1>13 DEF Exit, CutShort, CloseResource
<1>14. CASE Tick
  BY <1>1, <1>2, <1>14 DEF Tick, Waiting, RouterClosed, Consuming
<1>15. main \in Startup =>
         /\ \A q \in Req : req[q] = "none"
         /\ \A j \in Job : job[j] = "none"
  BY DEF Inv, Started
<1>16. CASE Kill
  BY <1>1, <1>2, <1>15, <1>16 DEF Kill, CutShort
<1>17. CASE Start
  <2>1. main \in Startup /\ main' \in Startup \union {"running", "deferred"} /\ UNCHANGED <<req, job>>
    BY <1>17, StartupSteps DEF Start, Run
  <2>2. /\ \A q \in Req : req'[q] = "none"
        /\ \A j \in Job : job'[j] = "none"
    BY <1>15, <2>1
  <2> QED
    BY <2>1, <2>2
<1> QED
  BY <1>3, <1>4, <1>5, <1>6, <1>7, <1>8, <1>9, <1>10, <1>11, <1>12, <1>13, <1>14,
     <1>16, <1>17 DEF Next, Main

LEMMA Invariance == Spec => []Inv
<1>1. Inv /\ [Next]_vars => Inv'
  BY StepTypes, StepStarted, StepClock, StepGrace DEF Inv
<1> QED
  BY <1>1, InitInv, PTL DEF Spec

\* The types, among them the two places of errCh (App.Run) and the closed listener.
THEOREM TypeCorrect == Spec => []TypeOK
BY Invariance, PTL DEF Inv

\* An exit that App.Run reports as clean has answered every request, whatever the
\* timeouts, failures and the order of the servers' ends.
THEOREM CleanExits == Spec => []CleanExitCutsNobody
<1>1. Inv => CleanExitCutsNobody
  BY DEF Inv, Clean, CleanExitCutsNobody
<1> QED
  BY <1>1, Invariance, PTL

\* Requests get the shutdown timeout and message handlers the close timeout.
THEOREM GraceHolds == Spec => []GraceIsKept
<1>1. Inv => GraceIsKept
  BY DEF Inv, Grace, GraceIsKept
<1> QED
  BY <1>1, Invariance, PTL

\* The deferred calls of main close nothing under a handler that is still due time, and
\* leave nothing open but what a failing step left behind or the poison publisher.
THEOREM ResourcesLast == Spec => []ResourcesOutliveUsers
<1>1. Inv => ResourcesOutliveUsers
  <2> SUFFICES ASSUME Inv PROVE ResourcesOutliveUsers
    OBVIOUS
  <2>1. CASE main \in Startup
    BY <2>1 DEF Inv, Started, ResourcesOutliveUsers, Startup
  <2>2. CASE main \in {"running", "closing", "shutdown", "draining"}
    BY <2>2 DEF Inv, Started, ResourcesOutliveUsers
  <2>3. CASE main = "deferred" \/ Gone
    <3>1. /\ \A q \in Req : req[q] = "running" => elapsed >= Timeout
          /\ \A j \in Job : job[j] = "running" => elapsed >= CloseTimeout
      BY <2>3 DEF Inv, Grace, Clean, Gone
    <3>2. ASSUME main = "exited"
          PROVE  /\ open \in {{}, {"mysql"}, {"redis"}, {"poison"}}
                 /\ ~runErr => open \subseteq {"poison"}
      BY <3>2 DEF Inv, Started, Deferring, Due
    <3> QED
      BY <3>1, <3>2 DEF ResourcesOutliveUsers
  <2> QED
    BY <2>1, <2>2, <2>3 DEF Inv, TypeOK, Gone
<1> QED
  BY <1>1, Invariance, PTL

\* The main goroutine waits no longer than the longer timeout.
THEOREM ExitBound == Spec => []ExitIsBounded
<1>1. Inv => ExitIsBounded
  BY DEF Inv, Clock, ExitIsBounded
<1> QED
  BY <1>1, Invariance, PTL

=============================================================================
