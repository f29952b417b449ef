---------------------------- MODULE ProductCache ----------------------------
(***************************************************************************)
(* The product endpoints: the HTTP handlers, the product service with its  *)
(* cache-aside reads, the singleflight wrapper around the Redis cache and  *)
(* the products table.  Each request is a process; a step is one call to   *)
(* Redis or to the database, or one step inside singleflight.Group.        *)
(*                                                                         *)
(* A product is the function from its fields to the stamp of the request   *)
(* body that last set them: bodies are told apart, their text is not.      *)
(***************************************************************************)
EXTENDS Integers, FiniteSets

CONSTANTS
  Req,          \* client requests that can be in progress at the same time
  Server,       \* instances of the service; each has its own singleflight group
  Id,           \* product ids
  Field,        \* fields of a product an update request can name
  Defaulted,    \* those whose column has a default other than zero (status)
  MaxStamp,     \* bound on the number of write requests issued
  MaxLate,      \* bound on the SETs and DELs under way that nobody waits for
  Faults,       \* which of "redis", "db", "cancel", "crash" can happen
  CacheExpire,  \* redis.cache_expire, in seconds
  JitterCap,    \* the 60 seconds of addJitter
  NotFound,     \* what a read returns for an absent product (marker "null")
  NoRow,        \* the id was never inserted
  Deleted,      \* the row is soft-deleted
  Failed,       \* the request or the load ended in an internal error
  Rejected,     \* the request body was refused (400)
  Miss,         \* no entry in Redis
  NoFlight      \* no call in flight in the singleflight group

ASSUME BoundAssumption  == MaxStamp \in Nat /\ MaxLate \in Nat
ASSUME FieldAssumption  == Defaulted \subseteq Field
ASSUME FaultAssumption  == Faults \subseteq {"redis", "db", "cancel", "crash"}
ASSUME ExpireAssumption == CacheExpire \in Nat \ {0} /\ JitterCap \in Nat
ASSUME NoFlightAssumption == NoFlight \notin Req

VARIABLES
  db,      \* Id -> row of the products table
  cache,   \* Id -> entry of key product:<id> in Redis
  flight,  \* Server -> Id -> the request whose call is in flight
  pc,      \* Req -> where the request stands
  job,     \* Req -> what the request asks for and where it is served
  buf,     \* Req -> the value the request holds, finally its answer
  gone,    \* Req -> the client went away, the request context is cancelled
  stamp,   \* number of write requests issued
  late,    \* SETs and DELs that timed out and can still take effect
  taint    \* Id -> history: a fault or a slow loader left a stale entry behind

vars == <<db, cache, flight, pc, job, buf, gone, stamp, late, taint>>

-----------------------------------------------------------------------------
(* Values *)

Product == [Field -> Nat]
Value   == Product \union {NotFound}
Row     == Product \union {NoRow, Deleted}
Answer  == Value \union {Failed, Rejected, Deleted}
Entry   == [val : Value, ttl : Nat]
Command == [id : Id, val : Value \union {Miss}]    \* SET of a value, or DEL
Op      == {"get", "create", "update", "delete"}
Job     == [op : Op, srv : Server, id : Id, set : SUBSET Field, stamp : Nat]

ASSUME DistinctAssumption ==
  /\ {NotFound, NoRow, Deleted, Failed, Rejected} \intersect Product = {}
  /\ Miss \notin Entry \union Value
  /\ Failed \notin {NotFound, NoRow, Deleted, Rejected}
  /\ NotFound \notin {NoRow, Deleted, Rejected}
  /\ NoRow \notin {Deleted, Rejected} /\ Deleted # Rejected

\* What a query of the live row finds: gorm hides soft-deleted rows.
SeesRawRow(row) == row
Seen(row) == IF row \in {NoRow, Deleted} THEN NotFound ELSE row
View(k)   == Seen(db[k])

Key(r)     == job[r].id
Holders(s, k) == {r \in Req : job[r].srv = s /\ job[r].id = k}

Min2(a, b) == IF a < b THEN a ELSE b

\* addJitter(ttl): ttl plus a random amount below min(JitterCap, ttl / 10).
Jittered(ttl) ==
  LET maxJitter == Min2(ttl \div 10, JitterCap)
  IN  IF maxJitter = 0 THEN {ttl} ELSE ttl .. (ttl + maxJitter - 1)

\* The time to live GetOrLoad gives an entry: the same for every value.
NullNeverExpires(val) == IF val = NotFound THEN {0} ELSE Jittered(CacheExpire)
TtlOf(val) == Jittered(CacheExpire)

\* The body of an update patches the fields it names onto the product read.
Patched(base, fields, s) == [f \in Field |-> IF f \in fields THEN s ELSE base[f]]

Stale(k) == cache[k] # Miss /\ cache[k].val # View(k)

Active(r) == pc[r] \notin {"idle", "done"}

\* Create, Update and Delete of the service all call delCache after the write.
CreateKeepsCache(op) == IF op = "create" THEN "done" ELSE "del"
DeleteKeepsCache(op) == IF op = "delete" THEN "done" ELSE "del"
AfterWrite(op) == "del"

\* Redis and the database work unless faults are allowed; once the client has
\* gone, every later call with the request context fails.
RedisUp(r)   == ~gone[r]
RedisDown(r) == gone[r] \/ "redis" \in Faults
DbUp(r)      == ~gone[r]
DbDown(r)    == gone[r] \/ "db" \in Faults

-----------------------------------------------------------------------------
\* What fields hold that no request has set.
Unset == [f \in Field |-> 0]

\* The servers start over a table that may hold products, and with an empty Redis.
Init ==
  /\ db     \in [Id -> {NoRow, Unset}]
  /\ cache  = [k \in Id |-> Miss]
  /\ flight = [s \in Server |-> [k \in Id |-> NoFlight]]
  /\ pc     = [r \in Req |-> "idle"]
  /\ job    \in {[r \in Req |-> j] : j \in [op : {"get"}, srv : Server, id : Id,
                                            set : {{}}, stamp : {0}]}
  /\ buf    = [r \in Req |-> NotFound]
  /\ gone   = [r \in Req |-> FALSE]
  /\ stamp  = 0
  /\ late   = {}
  /\ taint  = [k \in Id |-> FALSE]

\* The first step of each operation.
FirstPc(op) ==
  CASE op = "create" -> "bind"
    [] op = "delete" -> "delete"
    [] OTHER -> "get"

\* A body sets every field of a created product and any fields of an updated one.
Bodies(op) ==
  CASE op = "create" -> {Field}
    [] op = "update" -> SUBSET Field
    [] OTHER -> {{}}

\* The id MySQL will assign to a created product: unused, reserved by no one.
Fresh(k) == /\ db[k] = NoRow
            /\ \A r \in Req : Active(r) /\ job[r].op = "create" => Key(r) # k

\* What a request asks for; only writes are numbered.
NewJob(op, s, k, body) ==
  [op |-> op, srv |-> s, id |-> k, set |-> body,
   stamp |-> IF op = "get" THEN 0 ELSE stamp + 1]

\* A client sends a request and the router of server s runs its handler.
Submit(r, op, s, k, body) ==
  /\ op # "get" => stamp < MaxStamp
  /\ op = "create" => Fresh(k)
  /\ stamp' = IF op = "get" THEN stamp ELSE stamp + 1
  /\ job'  = [job EXCEPT ![r] = NewJob(op, s, k, body)]
  /\ pc'   = [pc EXCEPT ![r] = FirstPc(op)]
  /\ buf'  = [buf EXCEPT ![r] = NotFound]
  /\ gone' = [gone EXCEPT ![r] = FALSE]
  /\ UNCHANGED <<db, cache, flight, late, taint>>

Start(r) ==
  /\ ~Active(r)
  /\ \E op \in Op, s \in Server, k \in Id :
       \E body \in Bodies(op) : Submit(r, op, s, k, body)

\* net/http cancels the request context when the client disconnects; the
\* handler goes on running.
Disconnect(r) ==
  /\ "cancel" \in Faults
  /\ Active(r) /\ ~gone[r]
  /\ gone' = [gone EXCEPT ![r] = TRUE]
  /\ UNCHANGED <<db, cache, flight, pc, job, buf, stamp, late, taint>>

Goto(r, l)    == pc' = [pc EXCEPT ![r] = l]
Hold(r, v)    == buf' = [buf EXCEPT ![r] = v]
Answered(r, v) == Goto(r, "done") /\ Hold(r, v)

-----------------------------------------------------------------------------
(* Reading: GetByID and GetOrLoad *)

\* A GET of the cached value: a hit, or a miss.  Any error counts as a miss.
Lookup(r, hit, miss) ==
  /\ \/ RedisUp(r) /\ cache[Key(r)] # Miss /\ Goto(r, hit) /\ Hold(r, cache[Key(r)].val)
     \/ RedisUp(r) /\ cache[Key(r)] = Miss /\ Goto(r, miss) /\ UNCHANGED buf
     \/ RedisDown(r) /\ Goto(r, miss) /\ UNCHANGED buf
  /\ UNCHANGED <<db, cache, flight, job, gone, stamp, late, taint>>

RedisErrorFails(r) ==
  /\ pc[r] = "get"
  /\ IF "redis" \in Faults
     THEN Answered(r, Failed) /\ UNCHANGED <<db, cache, flight, job, gone, stamp, late, taint>>
     ELSE Lookup(r, "got", "join")
CacheGet(r) == pc[r] = "get" /\ Lookup(r, "got", "join")

\* sf.Do: the first caller for a key leads, the others wait for its result.
AlwaysLeads(r) == TRUE
Leads(r) == flight[job[r].srv][Key(r)] = NoFlight

Join(r) ==
  /\ pc[r] = "join"
  /\ IF Leads(r)
     THEN /\ flight' = [flight EXCEPT ![job[r].srv][Key(r)] = r]
          /\ Goto(r, "recheck")
     ELSE Goto(r, "wait") /\ UNCHANGED flight
  /\ UNCHANGED <<db, cache, job, buf, gone, stamp, late, taint>>

\* The leader looks into the cache again: another flight may have filled it.
Recheck(r) == pc[r] = "recheck" /\ Lookup(r, "finish", "load")

ErrorReadsAsAbsent(r, found, failed) ==
  /\ \/ DbUp(r) /\ Goto(r, found) /\ Hold(r, View(Key(r)))
     \/ DbDown(r) /\ Goto(r, found) /\ Hold(r, NotFound)
  /\ UNCHANGED <<db, cache, flight, job, gone, stamp, late, taint>>

\* The loader queries the row; an absent row is the value NotFound, an error
\* is the result of the flight.
Query(r, found, failed) ==
  /\ \/ DbUp(r) /\ Goto(r, found) /\ Hold(r, View(Key(r)))
     \/ DbDown(r) /\ Goto(r, failed) /\ Hold(r, Failed)
  /\ UNCHANGED <<db, cache, flight, job, gone, stamp, late, taint>>

Load(r) == pc[r] = "load" /\ Query(r, "set", "finish")

\* SET of a value with its time to live.
StoreEntry(k, v) ==
  /\ \E ttl \in TtlOf(v) : cache' = [cache EXCEPT ![k] = [val |-> v, ttl |-> ttl]]
  /\ taint' = [taint EXCEPT ![k] = (v # View(k))]

\* DEL, or the end of the time to live.
RemoveEntry(k) ==
  /\ cache' = [cache EXCEPT ![k] = Miss]
  /\ taint' = [taint EXCEPT ![k] = FALSE]

\* The loaded value is stored; an error of SET is ignored.
Fill(r) ==
  /\ pc[r] = "set"
  /\ Goto(r, "finish")
  /\ \/ RedisUp(r) /\ StoreEntry(Key(r), buf[r])
     \/ RedisDown(r) /\ UNCHANGED <<cache, taint>>
  /\ UNCHANGED <<db, flight, job, buf, gone, stamp, late>>

\* Those the flight of r answers: r and the callers waiting for its key.
WakesOnlyLeader(r) == {r}
Woken(r) == {r} \union {q \in Holders(job[r].srv, Key(r)) : pc[q] = "wait"}

\* The call returns: the key is forgotten and every caller has the result.
Finish(r) ==
  /\ pc[r] = "finish"
  /\ flight' = [flight EXCEPT ![job[r].srv][Key(r)] = NoFlight]
  /\ pc'  = [q \in Req |-> IF q \in Woken(r) THEN "got" ELSE pc[q]]
  /\ buf' = [q \in Req |-> IF q \in Woken(r) THEN buf[r] ELSE buf[q]]
  /\ UNCHANGED <<db, cache, job, gone, stamp, late, taint>>

\* GetByID returned: a GET answers, an update goes on if there is a product.
AfterRead(r) ==
  /\ pc[r] = "got"
  /\ Goto(r, IF job[r].op = "update" /\ buf[r] \notin {NotFound, Failed}
             THEN "bind" ELSE "done")
  /\ UNCHANGED <<db, cache, flight, job, buf, gone, stamp, late, taint>>

-----------------------------------------------------------------------------
(* Writing *)

\* ShouldBindJSON of a create or of an update, which binds after its read.
Bind(r) ==
  /\ pc[r] = "bind"
  /\ \/ Goto(r, IF job[r].op = "create" THEN "insert" ELSE "save") /\ UNCHANGED buf
     \/ Answered(r, Rejected)
  /\ UNCHANGED <<db, cache, flight, job, gone, stamp, late, taint>>

\* One write statement.  It succeeds, fails without effect, or takes effect
\* although the caller is told that it failed.
Write(r, row, ans) ==
  LET k == Key(r) IN
  /\ \/ /\ DbUp(r)
        /\ db' = [db EXCEPT ![k] = row]
        /\ Goto(r, AfterWrite(job[r].op)) /\ Hold(r, ans)
        /\ UNCHANGED taint
     \/ /\ DbDown(r)
        /\ Answered(r, Failed)
        /\ UNCHANGED <<db, taint>>
     \/ /\ DbDown(r)
        /\ Answered(r, Failed)
        /\ db' = [db EXCEPT ![k] = row]
        /\ taint' = [taint EXCEPT ![k] = (cache[k] # Miss /\ cache[k].val # Seen(row))]
  /\ UNCHANGED <<cache, flight, job, gone, stamp, late>>

\* INSERT of the new product.
Insert(r) ==
  /\ pc[r] = "insert"
  /\ LET new == Patched(Unset, job[r].set, job[r].stamp)
     IN  Write(r, new, new)

\* db.Save: UPDATE of all fields, and when no live row matched, INSERT ... ON
\* DUPLICATE KEY UPDATE of all fields, deleted_at included.  The insert turns a zero
\* into the default of the column; which bodies hold a zero is left open.
Saved(k, new) ==
  IF View(k) # NotFound THEN {new}
  ELSE {[f \in Field |-> IF f \in reset THEN 0 ELSE new[f]] : reset \in SUBSET Defaulted}

Save(r) ==
  /\ pc[r] = "save"
  /\ \E new \in Saved(Key(r), Patched(buf[r], job[r].set, job[r].stamp)) : Write(r, new, new)

\* UPDATE of deleted_at; no row affected is ErrRecordNotFound.
SoftDelete(r) ==
  /\ pc[r] = "delete"
  /\ \/ View(Key(r)) # NotFound /\ Write(r, Deleted, Deleted)
     \/ /\ View(Key(r)) = NotFound
        /\ \/ DbUp(r) /\ Answered(r, NotFound)
           \/ DbDown(r) /\ Answered(r, Failed)
        /\ UNCHANGED <<db, cache, flight, job, gone, stamp, late, taint>>

\* delCache after the write; an error is only logged.
Invalidate(r) ==
  LET k == Key(r) IN
  /\ pc[r] = "del"
  /\ Goto(r, "done")
  /\ \/ RedisUp(r) /\ RemoveEntry(k)
     \/ /\ RedisDown(r)
        /\ taint' = [taint EXCEPT ![k] = @ \/ Stale(k)]
        /\ UNCHANGED cache
  /\ UNCHANGED <<db, flight, job, buf, gone, stamp, late>>

-----------------------------------------------------------------------------
(* The surroundings *)

CommandOf(r) == [id |-> Key(r), val |-> IF pc[r] = "set" THEN buf[r] ELSE Miss]
Execute(c)   == IF c.val = Miss THEN RemoveEntry(c.id) ELSE StoreEntry(c.id, c.val)

\* An attempt at a SET or DEL times out: it took effect and its reply was lost, or it
\* is still under way.  The request stays where it is: go-redis makes another attempt
\* or, when Redis is down for this one too, gives up.  How often (MaxRetries) is left open.
Resend(r) ==
  /\ "redis" \in Faults /\ RedisUp(r) /\ pc[r] \in {"set", "del"}
  /\ \/ Execute(CommandOf(r)) /\ UNCHANGED late
     \/ /\ Cardinality(late) < MaxLate
        /\ late' = late \union {CommandOf(r)}
        /\ UNCHANGED <<cache, taint>>
  /\ UNCHANGED <<db, flight, pc, job, buf, gone, stamp>>

\* It takes effect in the end, wherever the request is by then.
Arrive ==
  /\ \E c \in late : Execute(c) /\ late' = late \ {c}
  /\ UNCHANGED <<db, flight, pc, job, buf, gone, stamp>>

\* The time to live of an entry runs out; an entry stored with 0 has none.
Expire(k) ==
  /\ cache[k] # Miss /\ cache[k].ttl > 0
  /\ RemoveEntry(k)
  /\ UNCHANGED <<db, flight, pc, job, buf, gone, stamp, late>>

\* A server dies and restarts: its requests fail, its flights are forgotten,
\* and the invalidations it still owed are never made.
Lost(s) == {r \in Req : job[r].srv = s /\ Active(r)}

Crash(s) ==
  /\ "crash" \in Faults
  /\ Lost(s) # {}
  /\ flight' = [flight EXCEPT ![s] = [k \in Id |-> NoFlight]]
  /\ pc'  = [r \in Req |-> IF r \in Lost(s) THEN "done" ELSE pc[r]]
  /\ buf' = [r \in Req |-> IF r \in Lost(s) THEN Failed ELSE buf[r]]
  /\ taint' = [k \in Id |-> \/ taint[k]
                            \/ Stale(k) /\ \E r \in Lost(s) : pc[r] = "del" /\ Key(r) = k]
  /\ UNCHANGED <<db, cache, job, gone, stamp, late>>

-----------------------------------------------------------------------------
\* What the goroutine of request r does next.
Serve(r) ==
  \/ CacheGet(r) \/ Join(r) \/ Recheck(r) \/ Load(r) \/ Fill(r) \/ Finish(r)
  \/ AfterRead(r) \/ Bind(r)
  \/ Insert(r) \/ Save(r) \/ SoftDelete(r) \/ Invalidate(r)

Next ==
  \/ \E r \in Req : Start(r) \/ Disconnect(r) \/ Resend(r) \/ Serve(r)
  \/ \E k \in Id : Expire(k)
  \/ Arrive
  \/ \E s \in Server : Crash(s)

Spec == Init /\ [][Next]_vars

\* Handlers run to their end, and Redis expires entries and executes what it was sent;
\* clients owe nothing.
FairSpec ==
  /\ Spec
  /\ \A r \in Req : WF_vars(Serve(r))
  /\ \A k \in Id : WF_vars(Expire(k))
  /\ WF_vars(Arrive)

-----------------------------------------------------------------------------
(* Properties *)

TypeOK ==
  /\ db \in [Id -> Row]
  /\ cache \in [Id -> Entry \union {Miss}]
  /\ flight \in [Server -> [Id -> Req \union {NoFlight}]]
  /\ pc \in [Req -> {"idle", "get", "join", "wait", "recheck", "load", "set", "finish",
                    "got", "bind", "insert", "save", "delete", "del", "done"}]
  /\ job \in [Req -> Job]
  /\ buf \in [Req -> Answer]
  /\ gone \in [Req -> BOOLEAN]
  /\ stamp \in Nat
  /\ late \subseteq Command
  /\ taint \in [Id -> BOOLEAN]

LeadingPc  == {"recheck", "load", "set", "finish"}
Leading(r) == pc[r] \in LeadingPc

\* "At any moment only one request runs the loader of a key": on each server, a
\* request that is past Join is the one its group has in flight.
SingleLoader ==
  \A r \in Req : Leading(r) => flight[job[r].srv][Key(r)] = r

\* No caller is left waiting in singleflight: a flight that is recorded belongs to
\* a request that is still running it, and whoever waits waits for such a flight.
WaitersHaveLeader ==
  /\ \A s \in Server, k \in Id :
       flight[s][k] # NoFlight => Leading(flight[s][k]) /\ flight[s][k] \in Holders(s, k)
  /\ \A r \in Req : pc[r] = "wait" => flight[job[r].srv][Key(r)] # NoFlight

\* Redis disagrees with the database only while a writer of that product is about
\* to delete the key, or after one of the known causes: a DEL that failed, a write
\* reported as failed that took effect, a crash before the DEL, or a loader that
\* stored what it had read before the write, at once or by a SET that came late.
StaleExplained ==
  \A k \in Id : Stale(k) /\ ~taint[k] => \E r \in Req : pc[r] = "del" /\ Key(r) = k

\* What the request holds fits the step it is at: the loader stores only values,
\* an update goes on only with a product.
HoldsWhatItNeeds ==
  \A r \in Req :
    /\ pc[r] = "set" => buf[r] \in Value
    /\ pc[r] \in {"finish", "got"} => buf[r] \in Value \union {Failed}
    /\ pc[r] = "bind" => job[r].op \in {"create", "update"}
    /\ (pc[r] = "bind" /\ job[r].op = "update") \/ pc[r] = "save" => buf[r] \in Product

\* Redis can fail in every call, and a client that leaves cancels its own calls: as
\* long as the database and the servers work, a client that is still there is told
\* of an error only by a flight for its own product on its own server, whose leader
\* lost its client.
FailureHasCause ==
  [][Faults \subseteq {"redis", "cancel"} =>
       \A q \in Req : buf[q] # Failed /\ buf'[q] = Failed /\ ~gone[q] =>
         \E r \in Req \ {q} :
           /\ gone[r] /\ pc[r] = "finish" /\ pc[q] = "wait"
           /\ flight[job[q].srv][Key(q)] = r]_vars

\* One client at a time, nothing failing: every read answers the current value,
\* right after any sequence of creates, updates, deletes, reads and expiries.
SequentialReadsAreCurrent ==
  \A r \in Req : pc[r] = "done" /\ job[r].op = "get" => buf[r] = View(Key(r))

\* One client at a time, nothing failing: db.Save never revives a deleted product.
DeletedStaysDeleted ==
  [][\A k \in Id : db[k] = Deleted => db'[k] = Deleted]_vars

\* Every request is answered, those waiting for another request's load included.
EveryRequestReplied == \A r \in Req : Active(r) ~> pc[r] = "done"

\* Once the writes are over, what Redis holds is for good the current value.
CacheHeals == <>[](\A k \in Id : ~Stale(k))

\* The value of k each request still carries: loaded, or read as base of an update.
Carried(k) ==
  {buf[r] : r \in {q \in Req : /\ Key(q) = k /\ buf[q] # Failed
                               /\ \/ pc[q] \in {"set", "finish", "got"}
                                  \/ pc[q] \in {"bind", "save"} /\ job[q].op = "update"}}
Cached(k)  == IF cache[k] = Miss THEN {} ELSE {cache[k].val}
Delayed(k) == {c.val : c \in {d \in late : d.id = k /\ d.val # Miss}}

\* The refinement mapping: what the abstract store's variables are here.
viewShown    == [k \in Id |-> View(k)]
visibleShown == [k \in Id |-> {View(k)} \union Cached(k) \union Carried(k) \union Delayed(k)]
asked        == [r \in Req |-> Key(r)]
replied      == [r \in Req |-> IF pc[r] = "done" /\ job[r].op = "get" THEN buf[r] ELSE Failed]

Promise == INSTANCE LingeringStore WITH
  NoReply <- Failed,
  view    <- viewShown,
  visible <- visibleShown,
  ask     <- asked,
  reply   <- replied

\* The endpoints keep the promise of LingeringStore whatever fails: an answer is
\* current or still lingers in Redis, on its way there or in a running request, and an
\* update is based on such a value.
KeepsPromise == Promise!LingeringSpec

=============================================================================
