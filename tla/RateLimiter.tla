----------------------------- MODULE RateLimiter -----------------------------
(***************************************************************************)
(* The rate limit of a route: the middleware, the limiter and the Lua      *)
(* script that counts requests in Redis.  A key is one client address,     *)
(* method and route.  A request sends the script, Redis runs it in one     *)
(* step, and the reply may be lost: go-redis then sends the script again.  *)
(* Time is counted in ticks; a tick stands for a millisecond of Redis.     *)
(***************************************************************************)
EXTENDS Integers, Sequences, FiniteSets

CONSTANTS
  Req,         \* requests that can be in progress at the same time
  Key,         \* the keys BuildKey makes
  FailClosed,  \* the keys of routes that refuse requests when Redis fails
  Limit,       \* requests allowed in a window
  Window,      \* length of the window in ticks
  Second,      \* ticks of a second
  MaxRetries,  \* redis.max_retries
  Faults,      \* which of "lost" (replies), "down" (Redis) and "flush" can happen
  MaxNow,      \* bound on time
  MaxArrivals  \* bound on the number of requests

ASSUME LimitAssumption  == Limit \in Nat \ {0} /\ Window \in Nat \ {0}
ASSUME SecondAssumption == Second \in Nat \ {0}
ASSUME KeyAssumption    == FailClosed \subseteq Key
ASSUME RetryAssumption  == MaxRetries \in Nat
ASSUME FaultAssumption  == Faults \subseteq {"lost", "down", "flush"}
ASSUME BoundAssumption  == MaxNow \in Nat /\ MaxArrivals \in Nat

VARIABLES
  now,      \* the clock of Redis
  count,    \* Key -> value of the counter, 0 if the key is absent
  expire,   \* Key -> when the counter expires
  pc,       \* Req -> where the request stands
  key,      \* Req -> its key
  tries,    \* Req -> how often the script was sent again
  reply,    \* Req -> the script's reply: allowed, time to live, when
  arrivals, \* number of requests so far
  since,    \* history: when Redis last started
  allowed,  \* history: Key -> times since then at which the script allowed a request
  passed,   \* history: Key -> times, as far as known, of the requests let through
  last      \* history: Key -> the request for which the script ran last

hist == <<since, allowed, passed, last>>
vars == <<now, count, expire, pc, key, tries, reply, arrivals, since, allowed, passed, last>>

Reply   == [ok : BOOLEAN, ttl : Nat, at : Nat]
NoReply == [ok |-> FALSE, ttl |-> 0, at |-> 0]

Init ==
  /\ now = 0
  /\ count = [k \in Key |-> 0]
  /\ expire = [k \in Key |-> 0]
  /\ pc = [r \in Req |-> "idle"]
  /\ key \in [Req -> Key]
  /\ tries = [r \in Req |-> 0]
  /\ reply = [r \in Req |-> NoReply]
  /\ arrivals = 0
  /\ since = 0
  /\ allowed = [k \in Key |-> <<>>]
  /\ passed = [k \in Key |-> <<>>]
  /\ last \in [Key -> Req]

Final == {"idle", "passed", "limited", "refused"}

\* Redis keeps a key up to and including the millisecond it expires at.
Alive(k) == count[k] > 0 /\ now <= expire[k]

\* INCR: an absent key counts from zero.
Incremented(k) == IF Alive(k) THEN count[k] + 1 ELSE 1

\* PEXPIRE only when INCR created the counter.
NeverExpires(k, current) == expire[k]
EveryRequestExtends(k, current) == now + Window
ExpireAfter(k, current) == IF current = 1 THEN now + Window ELSE expire[k]

\* The comparison of the script.
AllowsOneMore(current) == current <= Limit + 1
Allows(current) == current <= Limit

\* A request of some client reaches the middleware of a limited route.
Arrive(r) ==
  /\ pc[r] \in Final
  /\ arrivals < MaxArrivals
  /\ arrivals' = arrivals + 1
  /\ \E k \in Key : key' = [key EXCEPT ![r] = k]
  /\ pc' = [pc EXCEPT ![r] = "sent"]
  /\ reply' = [reply EXCEPT ![r] = NoReply]
  /\ UNCHANGED <<now, count, expire, tries, hist>>

\* The script runs: it counts the request and compares with the limit.
Eval(r) ==
  LET k == key[r]
      current == Incremented(k)
      ok == Allows(current)
  IN
  /\ pc[r] = "sent"
  /\ count'  = [count EXCEPT ![k] = current]
  /\ expire' = [expire EXCEPT ![k] = ExpireAfter(k, current)]
  /\ reply'  = [reply EXCEPT ![r] = [ok |-> ok, ttl |-> ExpireAfter(k, current) - now, at |-> now]]
  /\ allowed' = IF ok THEN [allowed EXCEPT ![k] = Append(@, now)] ELSE allowed
  /\ last' = [last EXCEPT ![k] = r]
  /\ pc' = [pc EXCEPT ![r] = "replied"]
  /\ UNCHANGED <<now, key, tries, arrivals, since, passed>>

\* The reply is lost; the client library sends the script again or gives up.
Lose(r) ==
  /\ "lost" \in Faults
  /\ pc[r] = "replied"
  /\ \/ /\ tries[r] < MaxRetries
        /\ tries' = [tries EXCEPT ![r] = @ + 1]
        /\ pc' = [pc EXCEPT ![r] = "sent"]
     \/ /\ tries[r] = MaxRetries
        /\ pc' = [pc EXCEPT ![r] = "error"]
        /\ UNCHANGED tries
  /\ reply' = [reply EXCEPT ![r] = NoReply]
  /\ UNCHANGED <<now, count, expire, key, arrivals, hist>>

\* Redis cannot be reached at all.
Unreachable(r) ==
  /\ "down" \in Faults
  /\ pc[r] = "sent"
  /\ pc' = [pc EXCEPT ![r] = "error"]
  /\ UNCHANGED <<now, count, expire, key, tries, reply, arrivals, hist>>

RoundsDown(d) == IF d < Second THEN 1 ELSE d \div Second

\* RetryAfterSeconds: whole seconds, rounded up, at least one.
RetryAfterSeconds(d) ==
  IF d <= 0 THEN 1
  ELSE (d \div Second) + (IF d % Second # 0 THEN 1 ELSE 0)

\* The middleware lets the request through or answers 429 with Retry-After.
Verdict(r) ==
  /\ pc[r] = "replied"
  /\ IF reply[r].ok
     THEN /\ pc' = [pc EXCEPT ![r] = "passed"]
          /\ passed' = [passed EXCEPT ![key[r]] = Append(@, reply[r].at)]
          /\ reply' = [reply EXCEPT ![r] = NoReply]
     ELSE pc' = [pc EXCEPT ![r] = "limited"] /\ UNCHANGED <<passed, reply>>
  /\ tries' = [tries EXCEPT ![r] = 0]
  /\ UNCHANGED <<now, count, expire, key, arrivals, since, allowed, last>>

\* An error of the limiter: 429 without Retry-After, or through unmetered.
LetsThrough(k) == FALSE
Refuses(k) == k \in FailClosed

OnError(r) ==
  /\ pc[r] = "error"
  /\ IF Refuses(key[r])
     THEN pc' = [pc EXCEPT ![r] = "refused"] /\ UNCHANGED passed
     ELSE /\ pc' = [pc EXCEPT ![r] = "passed"]
          /\ passed' = [passed EXCEPT ![key[r]] = Append(@, now)]
  /\ tries' = [tries EXCEPT ![r] = 0]
  /\ UNCHANGED <<now, count, expire, key, reply, arrivals, since, allowed, last>>

Tick ==
  /\ now < MaxNow
  /\ now' = now + 1
  /\ UNCHANGED <<count, expire, pc, key, tries, reply, arrivals, hist>>

\* Redis restarts without its data, which takes a moment.
Flush ==
  /\ "flush" \in Faults
  /\ now < MaxNow
  /\ now' = now + 1
  /\ since' = now + 1
  /\ count' = [k \in Key |-> 0]
  /\ allowed' = [k \in Key |-> <<>>]
  /\ UNCHANGED <<expire, pc, key, tries, reply, arrivals, passed, last>>

Handle(r) == Eval(r) \/ Lose(r) \/ Unreachable(r) \/ Verdict(r) \/ OnError(r)

Next == Tick \/ Flush \/ \E r \in Req : Arrive(r) \/ Handle(r)

Spec == Init /\ [][Next]_vars

-----------------------------------------------------------------------------
(* Properties *)

TypeOK ==
  /\ now \in Nat
  /\ count \in [Key -> Nat]
  /\ expire \in [Key -> Nat]
  /\ pc \in [Req -> Final \union {"sent", "replied", "error"}]
  /\ key \in [Req -> Key]
  /\ tries \in [Req -> Nat]
  /\ reply \in [Req -> Reply]
  /\ arrivals \in Nat
  /\ since \in Nat
  /\ allowed \in [Key -> Seq(Nat)]
  /\ passed \in [Key -> Seq(Nat)]
  /\ last \in [Key -> Req]

\* The bound of a fixed window, over any interval: 2 * Limit requests allowed since
\* Redis last started always span more than a window.  For the routes of the product
\* API, whose limit is 1, two allowed requests are more than the window apart
\* ("1 request / 3 seconds").
WindowBound ==
  \A k \in Key : \A i, j \in 1 .. Len(allowed[k]) :
    j - i >= 2 * Limit - 1 => allowed[k][j] > allowed[k][i] + Window

\* The same bound for the requests that reach the handler of a route that fails
\* closed, placed at the time the script ran: neither an error of Redis nor a script
\* sent twice lets one through that was not counted.
FailClosedBound ==
  \A k \in FailClosed : \A i \in 1 .. Len(passed[k]) :
    LET from == passed[k][i]
    IN  from >= since =>
          Cardinality({j \in 1 .. Len(passed[k]) : passed[k][j] \in from .. from + Window})
            <= 2 * Limit - 1

\* The header is honest: if nobody used the key since the refusal, a request made
\* after the announced seconds is allowed.
RetryAfterHonest ==
  \A r \in Req :
    LET k == key[r]
        over == reply[r].at + RetryAfterSeconds(reply[r].ttl) * Second
    IN  pc[r] = "limited" /\ now > over /\ last[k] = r => Incremented(k) <= Limit

\* Nothing a client sends, refused requests included, postpones the end of a window.
WindowNeverExtended ==
  [][\A k \in Key : Alive(k) => expire'[k] = expire[k]]_vars

=============================================================================
