----------------------------- MODULE HealthCheck -----------------------------
(***************************************************************************)
(* GET /health: pings MySQL and Redis and serves the result to every       *)
(* request of the next second.  Requests run concurrently; the cached      *)
(* result is guarded by a mutex, but nothing holds it during the pings.    *)
(*                                                                         *)
(* A dependency is up while it answers a ping before the deadline of 3 s.  *)
(* How long a ping takes is left open, so the deadline needs no clock.     *)
(***************************************************************************)
EXTENDS Integers

CONSTANTS
  Probe,   \* health requests that can be in progress at the same time
  Ttl,     \* cacheTTL, in ticks
  Faults,  \* which of "down" (a dependency) and "cancel" (a client leaves) can happen
  MaxNow   \* bound on time

ASSUME TtlAssumption   == Ttl \in Nat \ {0}
ASSUME FaultAssumption == Faults \subseteq {"down", "cancel"}
ASSUME BoundAssumption == MaxNow \in Nat

Dep == {"mysql", "redis"}

\* Why a ping fails: the dependency is down, or the client of the request left.
Cause == Dep \union {"client"}

VARIABLES
  now,     \* the clock
  up,      \* Dep -> the dependency answers
  cached,  \* the cached result: when (last) and what (lastOK)
  pc,      \* Probe -> where the request stands
  start,   \* Probe -> the time its handler took first
  result,  \* Probe -> outcome of its own pings
  gone,    \* Probe -> the client went away
  upAt,    \* history: Dep -> latest time it was up
  downAt   \* history: Cause -> latest time it was there

hist == <<upAt, downAt>>
vars == <<now, up, cached, pc, start, result, gone, upAt, downAt>>

Init ==
  /\ now = 0
  /\ up = [d \in Dep |-> TRUE]
  /\ cached = [at |-> -Ttl, ok |-> FALSE]
  /\ pc = [p \in Probe |-> "idle"]
  /\ start = [p \in Probe |-> 0]
  /\ result = [p \in Probe |-> FALSE]
  /\ gone = [p \in Probe |-> FALSE]
  /\ upAt = [d \in Dep |-> 0]
  /\ downAt = [d \in Cause |-> -Ttl]

Answer(ok) == IF ok THEN "healthy" ELSE "unhealthy"
Idle == {"idle", "healthy", "unhealthy"}

\* The handler starts and reads the clock.
Arrive(p) ==
  /\ pc[p] \in Idle
  /\ pc' = [pc EXCEPT ![p] = "lookup"]
  /\ start' = [start EXCEPT ![p] = now]
  /\ gone' = [gone EXCEPT ![p] = FALSE]
  /\ UNCHANGED <<now, up, cached, result, hist>>

\* The comparison of the handler's time with the cached one.
ServesTwiceAsLong(at, t) == t - at < 2 * Ttl
Fresh(at, t) == t - at < Ttl

\* The cached result is copied under the read lock; if fresh it is the answer.
Lookup(p) ==
  /\ pc[p] = "lookup"
  /\ pc' = [pc EXCEPT ![p] = IF Fresh(cached.at, start[p]) THEN Answer(cached.ok) ELSE "mysql"]
  /\ UNCHANGED <<now, up, cached, start, result, gone, hist>>

\* HealthCheck pings MySQL, then Redis, with the context of the request.
Works(p, d) == up[d] /\ ~gone[p]

Ping(p) ==
  /\ pc[p] \in Dep
  /\ result' = [result EXCEPT ![p] = Works(p, pc[p])]
  /\ pc' = [pc EXCEPT ![p] = IF pc[p] = "mysql" /\ Works(p, "mysql") THEN "redis" ELSE "store"]
  /\ UNCHANGED <<now, up, cached, start, gone, hist>>

\* The result is stored under the write lock, as of the start of the handler.
TimeOfStore(p) == now
TimeOfExpiry(p) == start[p] + Ttl
TimeOf(p) == start[p]

Store(p) ==
  /\ pc[p] = "store"
  /\ cached' = [at |-> TimeOf(p), ok |-> result[p]]
  /\ pc' = [pc EXCEPT ![p] = Answer(result[p])]
  /\ UNCHANGED <<now, up, start, result, gone, hist>>

\* The client of p disconnects: the request context is cancelled.
Disconnect(p) ==
  /\ "cancel" \in Faults
  /\ pc[p] \notin Idle /\ ~gone[p]
  /\ gone' = [gone EXCEPT ![p] = TRUE]
  /\ downAt' = [downAt EXCEPT !["client"] = now]
  /\ UNCHANGED <<now, up, cached, pc, start, result, upAt>>

\* A dependency goes down or comes back.
Toggle(d) ==
  /\ "down" \in Faults
  /\ up' = [up EXCEPT ![d] = ~@]
  /\ upAt'   = IF up[d] THEN upAt ELSE [upAt EXCEPT ![d] = now]
  /\ downAt' = IF up[d] THEN [downAt EXCEPT ![d] = now] ELSE downAt
  /\ UNCHANGED <<now, cached, pc, start, result, gone>>

\* What can make a ping fail now.
Failing(d) == IF d \in Dep THEN ~up[d] ELSE \E p \in Probe : gone[p] /\ pc[p] \notin Idle

Tick ==
  /\ now < MaxNow
  /\ now' = now + 1
  /\ upAt'   = [d \in Dep |-> IF up[d] THEN now + 1 ELSE upAt[d]]
  /\ downAt' = [d \in Cause |-> IF Failing(d) THEN now + 1 ELSE downAt[d]]
  /\ UNCHANGED <<up, cached, pc, start, result, gone>>

Next ==
  \/ \E p \in Probe : Arrive(p) \/ Lookup(p) \/ Ping(p) \/ Store(p) \/ Disconnect(p)
  \/ \E d \in Dep : Toggle(d)
  \/ Tick

Spec == Init /\ [][Next]_vars

-----------------------------------------------------------------------------
(* Properties *)

\* The types; no recorded time is in the future.
TypeOK ==
  /\ now \in Nat
  /\ up \in [Dep -> BOOLEAN]
  /\ cached \in [at : Int, ok : BOOLEAN]
  /\ pc \in [Probe -> Idle \union Dep \union {"lookup", "store"}]
  /\ start \in [Probe -> Nat]
  /\ result \in [Probe -> BOOLEAN]
  /\ gone \in [Probe -> BOOLEAN]
  /\ upAt \in [Dep -> Int]
  /\ downAt \in [Cause -> Int]
  /\ cached.at <= now /\ \A p \in Probe : start[p] <= now

Answers(p, a) == pc[p] \notin Idle /\ pc'[p] = a

\* A healthy answer, cached or not, is true of the last second: each dependency was
\* up at a time less than Ttl before the request started, or later.  A slow check
\* that stores its result late, over a newer one, does not change that.
HealthyIsRecent ==
  [][\A p \in Probe : Answers(p, "healthy") => \A d \in Dep : upAt[d] > start[p] - Ttl]_vars

\* So is an unhealthy answer: a dependency was really down then, or the client of a
\* check in progress had left.  Nothing older is ever reported, so once everything is
\* back for a second, and nobody leaves, no request is told otherwise.
UnhealthyIsRecent ==
  [][\A p \in Probe : Answers(p, "unhealthy") => \E d \in Cause : downAt[d] > start[p] - Ttl]_vars

=============================================================================
