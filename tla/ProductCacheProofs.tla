------------------------- MODULE ProductCacheProofs -------------------------
(***************************************************************************)
(* Proofs about ProductCache, for every value of its constants: types and  *)
(* singleflight, stale entries, one client alone, the causes of failures,  *)
(* and that every step implements a step of LingeringStore.                *)
(***************************************************************************)
EXTENDS ProductCache, TLAPS

\* Types and what requests hold, which together are inductive.
Typing == TypeOK /\ HoldsWhatItNeeds

\* What the database shows of an id is a product or NotFound.
LEMMA ViewIsValue == ASSUME TypeOK, NEW k \in Id PROVE View(k) \in Value
  BY DEF TypeOK, View, Seen, Row, Value

\* Patching a product with stamps gives a product.
LEMMA PatchIsProduct ==
  ASSUME NEW base \in Product, NEW fields, NEW s \in Nat
  PROVE  Patched(base, fields, s) \in Product
  BY DEF Patched, Product

\* The jitter only adds to the time to live.
LEMMA JitterIsNat == ASSUME NEW ttl \in Nat PROVE Jittered(ttl) \subseteq Nat
  <1> DEFINE m == Min2(ttl \div 10, JitterCap)
  <1>1. m \in Nat
    BY ExpireAssumption DEF Min2
  <1>2. QED
    BY <1>1 DEF Jittered

\* What db.Save can write for a product is a product, whatever the columns default to.
LEMMA SavedAreProducts ==
  ASSUME NEW k, NEW new \in Product PROVE Saved(k, new) \subseteq Product
  BY DEF Saved, Product

LEMMA UnsetIsProduct == Unset \in Product
  BY DEF Unset, Product

\* A value is not the mark of an absent entry.
LEMMA ValueIsNoMiss == \A v \in Value : v # Miss
  BY DistinctAssumption

LEMMA TypingInit == Init => Typing
  <1> SUFFICES ASSUME Init PROVE Typing
    OBVIOUS
  <1>1. NotFound \in Value /\ NotFound \in Answer /\ NoRow \in Row
    BY DEF Value, Answer, Row
  <1>2. job \in [Req -> Job]
    BY DEF Init, Job, Op
  <1>3. db \in [Id -> Row]
    BY <1>1, UnsetIsProduct DEF Init, Row
  <1>4. QED
    BY <1>1, <1>2, <1>3 DEF Init, Typing, TypeOK, HoldsWhatItNeeds

LEMMA TypingStart ==
  ASSUME Typing, NEW r \in Req, Start(r) PROVE Typing'
  <1> USE DEF Typing
  <1>0. PICK op \in Op, s \in Server, k \in Id :
          \E body \in Bodies(op) : Submit(r, op, s, k, body)
    BY DEF Start
  <1>1. PICK body \in Bodies(op) : Submit(r, op, s, k, body)
    BY <1>0
  <1>2. body \in SUBSET Field
    BY DEF Bodies, Op
  <1>3. NewJob(op, s, k, body) \in Job /\ NewJob(op, s, k, body).op = op
    BY <1>2 DEF TypeOK, Job, NewJob
  <1>4. job' \in [Req -> Job] /\ stamp' \in Nat
    BY <1>1, <1>3 DEF TypeOK, Submit
  <1>5. /\ FirstPc(op) \in {"get", "bind", "delete"}
        /\ FirstPc(op) = "bind" => op = "create"
    BY DEF FirstPc, Op
  <1>6. NotFound \in Answer
    BY DEF Answer, Value
  <1>7. TypeOK'
    BY <1>1, <1>4, <1>5, <1>6 DEF TypeOK, Submit
  <1>8. HoldsWhatItNeeds'
    BY <1>1, <1>3, <1>5 DEF TypeOK, HoldsWhatItNeeds, Submit
  <1>9. QED
    BY <1>7, <1>8

LEMMA TypingRead ==
  ASSUME Typing, NEW r \in Req,
         CacheGet(r) \/ Join(r) \/ Recheck(r) \/ Load(r) \/ AfterRead(r)
  PROVE  Typing'
  <1> USE DEF Typing, Goto, Hold, Key
  <1>1. View(job[r].id) \in Value /\ job[r].id \in Id /\ job[r].srv \in Server
    BY ViewIsValue DEF TypeOK, Job
  <1>2. Value \subseteq Answer /\ Failed \in Answer
    BY DEF Answer
  <1>9. cache[job[r].id] # Miss => cache[job[r].id].val \in Value
    BY <1>1 DEF TypeOK, Entry
  <1>3. CASE CacheGet(r)
    <2>1. TypeOK'
      BY <1>1, <1>2, <1>9, <1>3 DEF CacheGet, Lookup, TypeOK
    <2>2. HoldsWhatItNeeds'
      BY <1>1, <1>9, <1>3 DEF CacheGet, Lookup, TypeOK, HoldsWhatItNeeds
    <2>3. QED
      BY <2>1, <2>2
  <1>4. CASE Join(r)
    <2>1. flight' \in [Server -> [Id -> Req \union {NoFlight}]]
      <3>1. CASE UNCHANGED flight
        BY <3>1 DEF TypeOK
      <3>2. CASE flight' = [flight EXCEPT ![job[r].srv][job[r].id] = r]
        BY <1>1, <3>2 DEF TypeOK
      <3>3. QED
        BY <1>4, <3>1, <3>2 DEF Join
    <2>2. QED
      BY <1>4, <2>1 DEF Join, TypeOK, HoldsWhatItNeeds
  <1>5. CASE Recheck(r)
    BY <1>1, <1>2, <1>9, <1>5 DEF Recheck, Lookup, TypeOK, HoldsWhatItNeeds
  <1>6. CASE Load(r)
    BY <1>1, <1>2, <1>6 DEF Load, Query, TypeOK, HoldsWhatItNeeds
  <1>8. CASE AfterRead(r)
    BY <1>1, <1>2, <1>8 DEF AfterRead, TypeOK, HoldsWhatItNeeds, Value
  <1>10. QED
    BY <1>3, <1>4, <1>5, <1>6, <1>8

LEMMA TypingStore ==
  ASSUME TypeOK, NEW k \in Id, NEW v \in Value, StoreEntry(k, v)
  PROVE  cache' \in [Id -> Entry \union {Miss}] /\ taint' \in [Id -> BOOLEAN]
  <1>2. PICK ttl \in TtlOf(v) : cache' = [cache EXCEPT ![k] = [val |-> v, ttl |-> ttl]]
    BY DEF StoreEntry
  <1>3. ttl \in Nat
    BY JitterIsNat, ExpireAssumption DEF TtlOf
  <1>4. [val |-> v, ttl |-> ttl] \in Entry
    BY <1>3 DEF Entry
  <1>5. cache' \in [Id -> Entry \union {Miss}]
    BY <1>2, <1>4 DEF TypeOK
  <1>6. taint' \in [Id -> BOOLEAN]
    BY DEF StoreEntry, TypeOK
  <1>7. QED
    BY <1>5, <1>6

LEMMA TypingRemove ==
  ASSUME TypeOK, NEW k \in Id, RemoveEntry(k)
  PROVE  cache' \in [Id -> Entry \union {Miss}] /\ taint' \in [Id -> BOOLEAN]
  BY DEF RemoveEntry, TypeOK

LEMMA TypingExecute ==
  ASSUME TypeOK, NEW c \in Command, Execute(c)
  PROVE  cache' \in [Id -> Entry \union {Miss}] /\ taint' \in [Id -> BOOLEAN]
  <1>1. c.id \in Id /\ c.val \in Value \union {Miss}
    BY DEF Command
  <1>2. CASE c.val = Miss
    BY <1>1, <1>2, TypingRemove DEF Execute
  <1>3. CASE c.val # Miss
    BY <1>1, <1>3, TypingStore DEF Execute
  <1>4. QED
    BY <1>2, <1>3

\* What a request at its SET or DEL sends is a command: the value held, or none.
LEMMA CommandOfRequest ==
  ASSUME Typing, NEW r \in Req, pc[r] \in {"set", "del"}
  PROVE  /\ CommandOf(r) \in Command /\ CommandOf(r).id = Key(r)
         /\ pc[r] = "set" => CommandOf(r).val = buf[r] /\ buf[r] \in Value
         /\ pc[r] = "del" => CommandOf(r).val = Miss
  BY DEF Typing, TypeOK, HoldsWhatItNeeds, Job, Key, CommandOf, Command

LEMMA TypingFlight ==
  ASSUME Typing, NEW r \in Req, Fill(r) \/ Finish(r) PROVE Typing'
  <1> USE DEF Typing, Goto, Key
  <1>1. job[r].id \in Id /\ job[r].srv \in Server
    BY DEF TypeOK, Job
  <1>2. CASE Fill(r)
    <2>1. cache' \in [Id -> Entry \union {Miss}] /\ taint' \in [Id -> BOOLEAN]
      <3>1. CASE UNCHANGED <<cache, taint>>
        BY <3>1 DEF TypeOK
      <3>2. buf[r] \in Value
        BY <1>2 DEF Fill, HoldsWhatItNeeds
      <3>3. QED
        BY <1>1, <1>2, <3>1, <3>2, TypingStore DEF Fill
    <2>2. QED
      BY <1>2, <2>1 DEF Fill, TypeOK, HoldsWhatItNeeds
  <1>3. CASE Finish(r)
    <2>1. flight' \in [Server -> [Id -> Req \union {NoFlight}]]
      BY <1>1, <1>3 DEF Finish, TypeOK
    <2>2. buf[r] \in Value \union {Failed} /\ buf[r] \in Answer
      BY <1>3 DEF Finish, TypeOK, HoldsWhatItNeeds
    <2>3. QED
      BY <1>3, <2>1, <2>2 DEF Finish, TypeOK, HoldsWhatItNeeds
  <1>4. QED
    BY <1>2, <1>3

\* A write statement keeps the types if it writes a row and answers.
LEMMA TypingOneWrite ==
  ASSUME Typing, NEW r \in Req, NEW row \in Row, NEW ans \in Answer, Write(r, row, ans)
  PROVE  Typing'
  <1> USE DEF Typing, Goto, Hold, Answered, Key
  <1>1. job[r].id \in Id
    BY DEF TypeOK, Job
  <1>2. Failed \in Answer
    BY DEF Answer
  <1>3. db' \in [Id -> Row]
    BY <1>1 DEF Write, TypeOK
  <1>31. taint' \in [Id -> BOOLEAN]
    BY <1>1 DEF Write, TypeOK
  <1>32. buf' \in [Req -> Answer]
    BY <1>2 DEF Write, TypeOK
  <1>4. pc' = [pc EXCEPT ![r] = "del"] \/ pc' = [pc EXCEPT ![r] = "done"]
    BY DEF Write, AfterWrite
  <1>5. \A q \in Req \ {r} : buf'[q] = buf[q]
    BY DEF Write, TypeOK
  <1>6. UNCHANGED <<cache, flight, job, gone, stamp, late>>
    BY DEF Write
  <1>7. TypeOK'
    BY <1>3, <1>31, <1>32, <1>4, <1>6 DEF TypeOK
  <1>8. HoldsWhatItNeeds'
    BY <1>4, <1>5, <1>6 DEF TypeOK, HoldsWhatItNeeds
  <1>9. QED
    BY <1>7, <1>8

LEMMA TypingWrite ==
  ASSUME Typing, NEW r \in Req,
         Bind(r) \/ Insert(r) \/ Save(r) \/ SoftDelete(r) \/ Invalidate(r)
  PROVE  Typing'
  <1> USE DEF Typing, Goto, Hold, Answered, Key
  <1>1. job[r].id \in Id /\ job[r].stamp \in Nat
    BY DEF TypeOK, Job
  <1>2. {Failed, NotFound, Rejected, Deleted} \subseteq Answer /\ Product \subseteq Answer
    BY DEF Answer, Value
  <1>3. CASE Bind(r)
    BY <1>2, <1>3 DEF Bind, TypeOK, HoldsWhatItNeeds
  <1>4. CASE Insert(r)
    BY <1>1, <1>2, <1>4, UnsetIsProduct, PatchIsProduct, TypingOneWrite DEF Insert, Row
  <1>5. CASE Save(r)
    <2>1. Patched(buf[r], job[r].set, job[r].stamp) \in Product
      BY <1>1, <1>5, PatchIsProduct DEF Save, HoldsWhatItNeeds
    <2>2. PICK new \in Product : Write(r, new, new)
      BY <1>5, <2>1, SavedAreProducts DEF Save
    <2>3. QED
      BY <1>2, <2>2, TypingOneWrite DEF Row
  <1>6. CASE SoftDelete(r)
    <2>1. CASE Write(r, Deleted, Deleted)
      BY <1>2, <2>1, TypingOneWrite DEF Row
    <2>2. CASE ~Write(r, Deleted, Deleted)
      BY <1>2, <1>6, <2>2 DEF SoftDelete, TypeOK, HoldsWhatItNeeds
    <2>3. QED
      BY <2>1, <2>2
  <1>7. CASE Invalidate(r)
    BY <1>1, <1>7 DEF Invalidate, RemoveEntry, TypeOK, HoldsWhatItNeeds
  <1>8. QED
    BY <1>3, <1>4, <1>5, <1>6, <1>7

LEMMA TypingEnvironment ==
  ASSUME Typing,
         \/ \E r \in Req : Disconnect(r) \/ Resend(r)
         \/ \E k \in Id : Expire(k)
         \/ Arrive
         \/ \E s \in Server : Crash(s)
  PROVE  Typing'
  <1> USE DEF Typing
  <1>1. Failed \in Answer
    BY DEF Answer
  <1>2. ASSUME NEW r \in Req, Disconnect(r) PROVE Typing'
    BY <1>2 DEF Disconnect, TypeOK, HoldsWhatItNeeds
  <1>3. ASSUME NEW k \in Id, Expire(k) PROVE Typing'
    BY <1>3, TypingRemove DEF Expire, TypeOK, HoldsWhatItNeeds
  <1>4. ASSUME NEW s \in Server, Crash(s) PROVE Typing'
    <2>1. taint' \in [Id -> BOOLEAN]
      BY <1>4 DEF Crash, TypeOK
    <2>2. flight' \in [Server -> [Id -> Req \union {NoFlight}]]
      BY <1>4 DEF Crash, TypeOK
    <2>3. QED
      BY <1>1, <1>4, <2>1, <2>2 DEF Crash, TypeOK, HoldsWhatItNeeds
  <1>5. ASSUME NEW r \in Req, Resend(r) PROVE Typing'
    <2>1. CommandOf(r) \in Command
      BY <1>5, CommandOfRequest DEF Resend
    <2>2. late' \subseteq Command
      BY <1>5, <2>1 DEF Resend, TypeOK
    <2>3. cache' \in [Id -> Entry \union {Miss}] /\ taint' \in [Id -> BOOLEAN]
      <3>1. CASE UNCHANGED <<cache, taint>>
        BY <3>1 DEF TypeOK
      <3>2. QED
        BY <1>5, <2>1, <3>1, TypingExecute DEF Resend
    <2>4. QED
      BY <1>5, <2>2, <2>3 DEF Resend, TypeOK, HoldsWhatItNeeds
  <1>6. CASE Arrive
    <2>1. PICK c \in late : Execute(c) /\ late' = late \ {c}
      BY <1>6 DEF Arrive
    <2>2. c \in Command /\ late' \subseteq Command
      BY <2>1 DEF TypeOK
    <2>3. cache' \in [Id -> Entry \union {Miss}] /\ taint' \in [Id -> BOOLEAN]
      BY <2>1, <2>2, TypingExecute
    <2>4. QED
      BY <1>6, <2>2, <2>3 DEF Arrive, TypeOK, HoldsWhatItNeeds
  <1>7. QED
    BY <1>2, <1>3, <1>4, <1>5, <1>6

LEMMA TypingNext == Typing /\ [Next]_vars => Typing'
  <1> SUFFICES ASSUME Typing, [Next]_vars PROVE Typing'
    OBVIOUS
  <1>1. CASE UNCHANGED vars
    BY <1>1 DEF vars, Typing, TypeOK, HoldsWhatItNeeds
  <1>2. CASE Next
    BY <1>2, TypingStart, TypingRead, TypingFlight, TypingWrite, TypingEnvironment
       DEF Next, Serve
  <1>3. QED
    BY <1>1, <1>2

\* Every variable keeps its type, for any requests, servers, ids, fields and faults.
THEOREM TypeCorrect == Spec => []TypeOK
  <1>1. Typing => TypeOK
    BY DEF Typing
  <1>2. QED
    BY TypingInit, TypingNext, <1>1, PTL DEF Spec
-----------------------------------------------------------------------------
\* Flights: SingleLoader and WaitersHaveLeader are inductive together.
FlightOK == SingleLoader /\ WaitersHaveLeader

LEMMA FlightInit == Init => FlightOK
  BY NoFlightAssumption
     DEF Init, FlightOK, SingleLoader, WaitersHaveLeader, Leading, LeadingPc

\* A step of a request outside singleflight disturbs no flight.
LEMMA FlightOutside ==
  ASSUME TypeOK, FlightOK, NEW r \in Req, NEW l,
         pc[r] \notin LeadingPc \union {"wait"}, l \notin LeadingPc \union {"wait"},
         pc' = [pc EXCEPT ![r] = l], UNCHANGED flight,
         \A q \in Req \ {r} : job'[q] = job[q]
  PROVE  FlightOK'
  <1>1. \A q \in Req : ~Leading(r) /\ ~Leading(r)' /\ pc'[r] # "wait"
    BY DEF Leading, LeadingPc, TypeOK
  <1>2. \A q \in Req \ {r} : pc'[q] = pc[q] /\ job'[q] = job[q]
    BY DEF TypeOK
  <1>3. SingleLoader'
    BY <1>1, <1>2 DEF FlightOK, SingleLoader, Leading, LeadingPc, Key
  <1>4. WaitersHaveLeader'
    BY <1>1, <1>2 DEF FlightOK, TypeOK, WaitersHaveLeader, Leading, LeadingPc, Key, Holders
  <1>5. QED
    BY <1>3, <1>4 DEF FlightOK

\* A step of the leader of a flight keeps it in flight.
LEMMA FlightInside ==
  ASSUME TypeOK, FlightOK, NEW r \in Req, NEW l \in LeadingPc,
         pc[r] \in LeadingPc, pc' = [pc EXCEPT ![r] = l], UNCHANGED <<flight, job>>
  PROVE  FlightOK'
  <1>1. Leading(r) /\ Leading(r)' /\ pc'[r] # "wait"
    BY DEF Leading, LeadingPc, TypeOK
  <1>2. \A q \in Req \ {r} : pc'[q] = pc[q]
    BY DEF TypeOK
  <1>3. SingleLoader'
    BY <1>1, <1>2 DEF FlightOK, SingleLoader, Leading, LeadingPc, Key
  <1>4. WaitersHaveLeader'
    BY <1>1, <1>2 DEF FlightOK, WaitersHaveLeader, Leading, LeadingPc, Key, Holders
  <1>5. QED
    BY <1>3, <1>4 DEF FlightOK

LEMMA FlightJoin ==
  ASSUME TypeOK, FlightOK, NEW r \in Req, Join(r) PROVE FlightOK'
  <1> DEFINE s == job[r].srv
             k == job[r].id
  <1>1. s \in Server /\ k \in Id /\ ~Leading(r) /\ UNCHANGED job
    BY DEF TypeOK, Job, Join, Leading, LeadingPc
  <1>2. CASE flight[s][k] = NoFlight
    <2>1. /\ flight' = [flight EXCEPT ![s][k] = r]
          /\ pc' = [pc EXCEPT ![r] = "recheck"]
      BY <1>2 DEF Join, Leads, Key, Goto
    <2>2. /\ flight'[s][k] = r
          /\ \A t \in Server, j \in Id : <<t, j>> # <<s, k>> => flight'[t][j] = flight[t][j]
      BY <1>1, <2>1 DEF TypeOK
    <2>3. /\ Leading(r)'
          /\ \A q \in Req \ {r} : pc'[q] = pc[q]
      BY <2>1 DEF TypeOK, Leading, LeadingPc
    <2>4. \A q \in Req : job[q].srv \in Server /\ job[q].id \in Id
      BY DEF TypeOK, Job
    <2>5. \A q \in Req \ {r} : Leading(q)' => <<job[q].srv, job[q].id>> # <<s, k>>
      BY <1>2, <2>3, NoFlightAssumption DEF FlightOK, SingleLoader, Leading, LeadingPc, Key
    <2>6. SingleLoader'
      BY <1>1, <2>2, <2>3, <2>4, <2>5 DEF FlightOK, SingleLoader, Leading, LeadingPc, Key
    <2>7. \A t \in Server, j \in Id :
            flight'[t][j] # NoFlight => pc'[flight'[t][j]] \in LeadingPc /\ flight'[t][j] \in Holders(t, j)
      <3>1. TAKE t \in Server, j \in Id
      <3>2. CASE <<t, j>> = <<s, k>>
        BY <2>2, <2>3, <3>2 DEF Holders, Leading
      <3>3. CASE <<t, j>> # <<s, k>> /\ flight[t][j] # NoFlight
        BY <1>1, <2>2, <2>3, <3>3 DEF FlightOK, WaitersHaveLeader, Leading, LeadingPc, Holders
      <3>4. QED
        BY <2>2, <3>2, <3>3
    <2>8. WaitersHaveLeader'
      BY <1>1, <2>1, <2>2, <2>3, <2>4, <2>7, NoFlightAssumption
         DEF FlightOK, WaitersHaveLeader, Key, Holders, Leading, TypeOK
    <2>9. QED
      BY <2>6, <2>8 DEF FlightOK
  <1>3. CASE flight[s][k] # NoFlight
    <2>1. UNCHANGED flight /\ pc' = [pc EXCEPT ![r] = "wait"]
      BY <1>3 DEF Join, Leads, Key, Goto
    <2>2. \A q \in Req \ {r} : pc'[q] = pc[q]
      BY <2>1 DEF TypeOK
    <2>3. pc'[r] = "wait"
      BY <2>1 DEF TypeOK
    <2>4. QED
      BY <1>1, <1>3, <2>1, <2>2, <2>3
         DEF FlightOK, SingleLoader, WaitersHaveLeader, Leading, LeadingPc, Key, Holders
  <1>4. QED
    BY <1>2, <1>3

LEMMA FlightFinish ==
  ASSUME TypeOK, FlightOK, NEW r \in Req, Finish(r) PROVE FlightOK'
  <1> DEFINE s == job[r].srv
             k == job[r].id
  <1>1. s \in Server /\ k \in Id /\ UNCHANGED job /\ flight[s][k] = r
    BY DEF TypeOK, Job, Finish, FlightOK, SingleLoader, Leading, LeadingPc, Key
  <1>2. /\ flight'[s][k] = NoFlight
        /\ \A t \in Server, j \in Id : <<t, j>> # <<s, k>> => flight'[t][j] = flight[t][j]
    BY <1>1 DEF TypeOK, Finish, Key
  <1>3. \A q \in Req : pc'[q] = IF q \in Woken(r) THEN "got" ELSE pc[q]
    BY DEF Finish
  <1>4. \A q \in Req : job[q].srv \in Server /\ job[q].id \in Id
    BY DEF TypeOK, Job
  <1>5. ASSUME NEW q \in Req, Leading(q)'
        PROVE  Leading(q) /\ q # r /\ <<job[q].srv, job[q].id>> # <<s, k>>
    BY <1>1, <1>3, <1>5 DEF Woken, Leading, LeadingPc, FlightOK, SingleLoader, Key
  <1>6. SingleLoader'
    BY <1>1, <1>2, <1>4, <1>5 DEF FlightOK, SingleLoader, Key
  <1>7. \A t \in Server, j \in Id :
          flight'[t][j] # NoFlight => pc'[flight'[t][j]] \in LeadingPc /\ flight'[t][j] \in Holders(t, j)
    <2>1. SUFFICES ASSUME NEW t \in Server, NEW j \in Id, flight'[t][j] # NoFlight
                   PROVE  pc'[flight'[t][j]] \in LeadingPc /\ flight'[t][j] \in Holders(t, j)
      OBVIOUS
    <2> DEFINE p == flight[t][j]
    <2>2. <<t, j>> # <<s, k>> /\ flight'[t][j] = p
      BY <1>2, <2>1
    <2>3. p \in Req /\ Leading(p) /\ job[p].srv = t /\ job[p].id = j
      BY <2>1, <2>2 DEF FlightOK, WaitersHaveLeader, Holders
    <2>4. p \notin Woken(r)
      BY <2>2, <2>3 DEF Woken, Leading, LeadingPc
    <2>5. Leading(p)'
      BY <1>3, <2>2, <2>3, <2>4 DEF Leading, LeadingPc
    <2>6. QED
      BY <2>2, <2>3, <2>5 DEF Holders, Leading, LeadingPc
  <1>8. \A q \in Req : pc'[q] = "wait" => flight'[job[q].srv][job[q].id] # NoFlight
    <2>1. SUFFICES ASSUME NEW q \in Req, pc'[q] = "wait"
                   PROVE  flight'[job[q].srv][job[q].id] # NoFlight
      OBVIOUS
    <2>2. pc[q] = "wait" /\ q \notin Woken(r)
      BY <1>3, <2>1
    <2>3. <<job[q].srv, job[q].id>> # <<s, k>>
      BY <2>2 DEF Woken, Holders, Key
    <2>4. QED
      BY <1>2, <1>4, <2>2, <2>3 DEF FlightOK, WaitersHaveLeader, Key
  <1>9. WaitersHaveLeader'
    BY <1>1, <1>7, <1>8 DEF WaitersHaveLeader, Key, Holders, Leading
  <1>10. QED
    BY <1>6, <1>9 DEF FlightOK

LEMMA FlightCrash ==
  ASSUME TypeOK, FlightOK, NEW s \in Server, Crash(s) PROVE FlightOK'
  <1>1. UNCHANGED job /\ \A q \in Req : job[q].srv \in Server /\ job[q].id \in Id
    BY DEF TypeOK, Job, Crash
  <1>2. \A t \in Server, k \in Id :
          flight'[t][k] = IF t = s THEN NoFlight ELSE flight[t][k]
    BY DEF TypeOK, Crash
  <1>3. \A q \in Req : pc'[q] = IF q \in Lost(s) THEN "done" ELSE pc[q]
    BY DEF Crash
  <1>4. ASSUME NEW q \in Req, pc'[q] \in LeadingPc \union {"wait"}
        PROVE  job[q].srv # s /\ pc'[q] = pc[q]
    BY <1>3, <1>4 DEF Lost, Active, LeadingPc
  <1>5. SingleLoader'
    BY <1>1, <1>2, <1>4 DEF FlightOK, SingleLoader, Leading, LeadingPc, Key
  <1>6. ASSUME NEW t \in Server, NEW k \in Id, flight'[t][k] # NoFlight
        PROVE  pc'[flight'[t][k]] \in LeadingPc /\ flight'[t][k] \in Holders(t, k)
    <2> DEFINE p == flight[t][k]
    <2>1. t # s /\ flight'[t][k] = p
      BY <1>2, <1>6
    <2>2. p \in Req /\ Leading(p) /\ job[p].srv = t /\ job[p].id = k
      BY <1>6, <2>1 DEF FlightOK, WaitersHaveLeader, Holders
    <2>3. pc'[p] = pc[p]
      BY <1>3, <2>1, <2>2 DEF Lost
    <2>4. QED
      BY <2>1, <2>2, <2>3 DEF Leading, LeadingPc, Holders
  <1>7. \A q \in Req : pc'[q] = "wait" => flight'[job[q].srv][job[q].id] # NoFlight
    BY <1>1, <1>2, <1>4 DEF FlightOK, WaitersHaveLeader, Key
  <1>8. WaitersHaveLeader'
    BY <1>1, <1>6, <1>7 DEF WaitersHaveLeader, Key, Holders, Leading
  <1>9. QED
    BY <1>5, <1>8 DEF FlightOK

LEMMA FlightServe ==
  ASSUME TypeOK, FlightOK, NEW r \in Req, Serve(r) PROVE FlightOK'
  <1> USE DEF Goto, Answered
  <1>1. ASSUME NEW l \in {"join", "got", "done", "bind", "insert", "save", "del"},
               pc[r] \in {"get", "got", "bind", "insert", "save", "delete", "del"},
               pc' = [pc EXCEPT ![r] = l], UNCHANGED <<flight, job>>
        PROVE  FlightOK'
    BY <1>1, FlightOutside DEF LeadingPc
  <1>2. ASSUME NEW l \in {"load", "set", "finish"}, pc[r] \in {"recheck", "load", "set"},
               pc' = [pc EXCEPT ![r] = l], UNCHANGED <<flight, job>>
        PROVE  FlightOK'
    BY <1>2, FlightInside DEF LeadingPc
  <1>3. CASE CacheGet(r)
    BY <1>1, <1>3 DEF CacheGet, Lookup
  <1>4. CASE Recheck(r)
    BY <1>2, <1>4 DEF Recheck, Lookup
  <1>5. CASE Load(r)
    BY <1>2, <1>5 DEF Load, Query
  <1>6. CASE Fill(r)
    BY <1>2, <1>6 DEF Fill
  <1>8. CASE AfterRead(r)
    BY <1>1, <1>8 DEF AfterRead
  <1>9. CASE Bind(r)
    BY <1>1, <1>9 DEF Bind
  <1>10. CASE Insert(r)
    BY <1>1, <1>10 DEF Insert, Write, AfterWrite
  <1>11. CASE Save(r)
    BY <1>1, <1>11 DEF Save, Write, AfterWrite
  <1>12. CASE SoftDelete(r)
    BY <1>1, <1>12 DEF SoftDelete, Write, AfterWrite
  <1>13. CASE Invalidate(r)
    BY <1>1, <1>13 DEF Invalidate
  <1>14. QED
    BY <1>3, <1>4, <1>5, <1>6, <1>8, <1>9, <1>10, <1>11, <1>12, <1>13,
       FlightJoin, FlightFinish DEF Serve

LEMMA FlightNext == Typing /\ FlightOK /\ [Next]_vars => FlightOK'
  <1> SUFFICES ASSUME TypeOK, FlightOK, [Next]_vars PROVE FlightOK'
    BY DEF Typing
  <1>1. CASE UNCHANGED <<pc, job, flight>>
    BY <1>1 DEF FlightOK, SingleLoader, WaitersHaveLeader, Leading, LeadingPc, Key, Holders
  <1>2. ASSUME NEW r \in Req, Start(r) PROVE FlightOK'
    <2>1. PICK op \in Op, s \in Server, k \in Id :
            \E body \in Bodies(op) : Submit(r, op, s, k, body)
      BY <1>2 DEF Start
    <2>2. PICK body \in Bodies(op) : Submit(r, op, s, k, body)
      BY <2>1
    <2>3. FirstPc(op) \notin LeadingPc \union {"wait"}
      BY DEF FirstPc, Op, LeadingPc
    <2>4. pc[r] \notin LeadingPc \union {"wait"}
      BY <1>2 DEF Start, Active, LeadingPc
    <2>5. /\ pc' = [pc EXCEPT ![r] = FirstPc(op)] /\ UNCHANGED flight
          /\ \A q \in Req \ {r} : job'[q] = job[q]
      BY <2>2 DEF Submit, TypeOK
    <2>6. QED
      BY <2>3, <2>4, <2>5, FlightOutside
  <1>3. ASSUME NEW r \in Req, Disconnect(r) \/ Resend(r) PROVE FlightOK'
    BY <1>1, <1>3 DEF Disconnect, Resend
  <1>4. ASSUME NEW k \in Id, Expire(k) PROVE FlightOK'
    BY <1>1, <1>4 DEF Expire
  <1>5. CASE UNCHANGED vars \/ Arrive
    BY <1>1, <1>5 DEF vars, Arrive
  <1>6. QED
    BY <1>2, <1>3, <1>4, <1>5, FlightServe, FlightCrash DEF Next

\* On every server at most one request per key is past the entry of singleflight.
THEOREM OneLoaderPerKey == Spec => []SingleLoader
  <1>1. FlightOK => SingleLoader
    BY DEF FlightOK
  <1>2. QED
    BY TypingInit, TypingNext, FlightInit, FlightNext, <1>1, PTL DEF Spec

\* Nobody waits for a flight without a leader, whatever fails or crashes.
THEOREM NoOrphanWaiter == Spec => []WaitersHaveLeader
  <1>1. FlightOK => WaitersHaveLeader
    BY DEF FlightOK
  <1>2. QED
    BY TypingInit, TypingNext, FlightInit, FlightNext, <1>1, PTL DEF Spec
-----------------------------------------------------------------------------
\* Staleness: every stale entry is explained.
LEMMA StaleInit == Init => StaleExplained
  BY DEF Init, StaleExplained, Stale

\* A step that changes neither the row nor the entry and lets no writer past its DEL.
LEMMA ExplainedFrame ==
  ASSUME StaleExplained, UNCHANGED <<db, cache, taint>>,
         \A q \in Req : pc[q] = "del" => pc'[q] = "del" /\ job'[q] = job[q]
  PROVE  StaleExplained'
  BY DEF StaleExplained, Stale, View, Key

LEMMA ExplainedWrite ==
  ASSUME TypeOK, StaleExplained, NEW r \in Req, pc[r] # "del",
         NEW row \in Row, NEW ans, Write(r, row, ans)
  PROVE  StaleExplained'
  <1> USE DEF Goto, Hold, Answered, Key
  <1>1. PICK k \in Id : k = job[r].id
    BY DEF TypeOK, Job
  <1>2. UNCHANGED <<cache, job>>
    BY DEF Write
  <1>3. \A q \in Req : pc[q] = "del" => pc'[q] = "del"
    BY DEF Write, TypeOK
  <1>4. CASE UNCHANGED <<db, taint>>
    BY <1>2, <1>3, <1>4, ExplainedFrame
  <1>5. CASE db' = [db EXCEPT ![k] = row] /\ pc'[r] = "del" /\ UNCHANGED taint
    <2>1. \A j \in Id \ {k} : db'[j] = db[j]
      BY <1>5 DEF TypeOK
    <2>2. QED
      BY <1>1, <1>2, <1>3, <1>5, <2>1 DEF StaleExplained, Stale, View
  <1>6. CASE /\ db' = [db EXCEPT ![k] = row]
             /\ taint' = [taint EXCEPT ![k] = (cache[k] # Miss /\ cache[k].val # Seen(row))]
    <2>1. /\ db'[k] = row
          /\ taint'[k] = (cache[k] # Miss /\ cache[k].val # Seen(row))
          /\ \A j \in Id \ {k} : db'[j] = db[j] /\ taint'[j] = taint[j]
      BY <1>1, <1>6 DEF TypeOK
    <2>2. \A j \in Id : Stale(j)' = (cache[j] # Miss /\ cache[j].val # Seen(db'[j]))
      BY <1>2 DEF Stale, View
    <2>3. Stale(k)' => taint'[k]
      BY <1>1, <2>1, <2>2
    <2>4. \A j \in Id \ {k} : Stale(j)' = Stale(j)
      BY <2>1, <2>2 DEF Stale, View
    <2>5. QED
      BY <1>2, <1>3, <2>1, <2>3, <2>4 DEF StaleExplained
  <1>7. QED
    <2>1. \/ UNCHANGED <<db, taint>>
          \/ db' = [db EXCEPT ![k] = row] /\ pc' = [pc EXCEPT ![r] = "del"] /\ UNCHANGED taint
          \/ /\ db' = [db EXCEPT ![k] = row]
             /\ taint' = [taint EXCEPT ![k] = (cache[k] # Miss /\ cache[k].val # Seen(row))]
      BY <1>1 DEF Write, AfterWrite
    <2>2. pc' = [pc EXCEPT ![r] = "del"] => pc'[r] = "del"
      BY DEF TypeOK
    <2>3. QED
      BY <1>4, <1>5, <1>6, <2>1, <2>2

LEMMA ExplainedStore ==
  ASSUME TypeOK, StaleExplained, NEW k \in Id, NEW v, StoreEntry(k, v), UNCHANGED <<db, job>>,
         \A q \in Req : pc[q] = "del" => pc'[q] = "del"
  PROVE  StaleExplained'
  <1>2. /\ cache'[k].val = v /\ taint'[k] = (v # View(k))
        /\ \A j \in Id \ {k} : cache'[j] = cache[j] /\ taint'[j] = taint[j]
    BY DEF StoreEntry, TypeOK
  <1>3. Stale(k)' => taint'[k]
    BY <1>2 DEF Stale, View
  <1>4. \A j \in Id \ {k} : Stale(j)' = Stale(j)
    BY <1>2 DEF Stale, View
  <1>5. QED
    BY <1>2, <1>3, <1>4 DEF StaleExplained, Key

LEMMA ExplainedRemove ==
  ASSUME TypeOK, StaleExplained, NEW k \in Id, RemoveEntry(k), UNCHANGED <<db, job>>,
         \A q \in Req : pc[q] = "del" /\ Key(q) # k => pc'[q] = "del"
  PROVE  StaleExplained'
  <1>1. /\ cache'[k] = Miss
        /\ \A j \in Id \ {k} : cache'[j] = cache[j] /\ taint'[j] = taint[j]
    BY DEF RemoveEntry, TypeOK
  <1>2. QED
    BY <1>1 DEF StaleExplained, Stale, View, Key

LEMMA ExplainedFill ==
  ASSUME TypeOK, StaleExplained, NEW r \in Req, Fill(r) PROVE StaleExplained'
  <1>1. UNCHANGED <<db, job>> /\ \A q \in Req : pc[q] = "del" => pc'[q] = "del"
    BY DEF Fill, Goto, TypeOK
  <1>2. CASE UNCHANGED <<cache, taint>>
    BY <1>1, <1>2, ExplainedFrame
  <1>3. Key(r) \in Id
    BY DEF TypeOK, Job, Key
  <1>4. QED
    BY <1>1, <1>2, <1>3, ExplainedStore DEF Fill

\* A command executed by itself, with no request moving.
LEMMA ExplainedExecute ==
  ASSUME TypeOK, StaleExplained, NEW c \in Command, Execute(c), UNCHANGED <<db, job, pc>>
  PROVE  StaleExplained'
  <1>1. c.id \in Id
    BY DEF Command
  <1>2. CASE c.val = Miss
    BY <1>1, <1>2, ExplainedRemove DEF Execute
  <1>3. CASE c.val # Miss
    BY <1>1, <1>3, ExplainedStore DEF Execute
  <1>4. QED
    BY <1>2, <1>3

LEMMA ExplainedResend ==
  ASSUME Typing, StaleExplained, NEW r \in Req, Resend(r) PROVE StaleExplained'
  <1>1. CommandOf(r) \in Command /\ TypeOK /\ UNCHANGED <<db, job, pc>>
    BY CommandOfRequest DEF Resend, Typing
  <1>2. CASE UNCHANGED <<cache, taint>>
    BY <1>1, <1>2, ExplainedFrame
  <1>3. QED
    BY <1>1, <1>2, ExplainedExecute DEF Resend

LEMMA ExplainedArrive ==
  ASSUME TypeOK, StaleExplained, Arrive PROVE StaleExplained'
  <1>1. PICK c \in late : Execute(c)
    BY DEF Arrive
  <1>2. c \in Command /\ UNCHANGED <<db, job, pc>>
    BY DEF TypeOK, Arrive
  <1>3. QED
    BY <1>1, <1>2, ExplainedExecute

LEMMA ExplainedInvalidate ==
  ASSUME TypeOK, StaleExplained, NEW r \in Req, Invalidate(r) PROVE StaleExplained'
  <1> USE DEF Goto
  <1>1. PICK k \in Id : k = Key(r)
    BY DEF TypeOK, Job, Key
  <1>2. UNCHANGED <<db, job>> /\ \A q \in Req \ {r} : pc'[q] = pc[q]
    BY DEF Invalidate, TypeOK
  <1>3. CASE RemoveEntry(k)
    BY <1>1, <1>2, <1>3, ExplainedRemove
  <1>4. CASE UNCHANGED cache /\ taint' = [taint EXCEPT ![k] = @ \/ Stale(k)]
    <2>1. /\ Stale(k) => taint'[k]
          /\ \A j \in Id \ {k} : taint'[j] = taint[j]
      BY <1>4 DEF TypeOK
    <2>2. \A j \in Id : Stale(j)' = Stale(j)
      BY <1>2, <1>4 DEF Stale, View
    <2>3. QED
      BY <1>1, <1>2, <2>1, <2>2 DEF StaleExplained, Key
  <1>5. QED
    BY <1>1, <1>3, <1>4 DEF Invalidate

LEMMA ExplainedExpire ==
  ASSUME TypeOK, StaleExplained, NEW k \in Id, Expire(k) PROVE StaleExplained'
  BY ExplainedRemove DEF Expire

LEMMA ExplainedCrash ==
  ASSUME TypeOK, StaleExplained, NEW s \in Server, Crash(s) PROVE StaleExplained'
  <1>1. UNCHANGED <<db, cache, job>>
    BY DEF Crash
  <1>2. \A k \in Id : Stale(k)' = Stale(k)
    BY <1>1 DEF Stale, View
  <1>3. \A q \in Req \ Lost(s) : pc'[q] = pc[q]
    BY DEF Crash
  <1>4. \A k \in Id : taint'[k] = \/ taint[k]
                                  \/ Stale(k) /\ \E r \in Lost(s) : pc[r] = "del" /\ Key(r) = k
    BY DEF Crash
  <1>5. QED
    BY <1>1, <1>2, <1>3, <1>4 DEF StaleExplained, Key

LEMMA ExplainedNext == Typing /\ StaleExplained /\ [Next]_vars => StaleExplained'
  <1> SUFFICES ASSUME Typing, TypeOK, StaleExplained, [Next]_vars PROVE StaleExplained'
    BY DEF Typing
  <1> USE DEF Goto, Hold, Answered
  <1>1. CASE UNCHANGED vars
    BY <1>1, ExplainedFrame DEF vars
  <1>2. ASSUME NEW r \in Req, Start(r) PROVE StaleExplained'
    <2>1. UNCHANGED <<db, cache, taint>>
      BY <1>2 DEF Start, Submit
    <2>2. \A q \in Req : pc[q] = "del" => pc'[q] = "del" /\ job'[q] = job[q]
      BY <1>2 DEF Start, Submit, Active, TypeOK
    <2>3. QED
      BY <2>1, <2>2, ExplainedFrame
  <1>3. ASSUME NEW r \in Req, Disconnect(r) PROVE StaleExplained'
    BY <1>3, ExplainedFrame DEF Disconnect
  <1>4. ASSUME NEW r \in Req,
               \/ CacheGet(r) \/ Join(r) \/ Recheck(r) \/ Load(r) \/ Finish(r)
               \/ AfterRead(r) \/ Bind(r)
        PROVE  StaleExplained'
    <2>1. UNCHANGED <<db, cache, taint, job>>
      BY <1>4 DEF CacheGet, Join, Recheck, Load, Finish, AfterRead, Bind, Lookup, Query
    <2>2. \A q \in Req : pc[q] = "del" => pc'[q] = "del"
      <3>1. CASE Finish(r)
        BY <3>1 DEF Finish, Woken
      <3>2. CASE ~Finish(r)
        BY <1>4, <3>2
           DEF CacheGet, Join, Recheck, Load, AfterRead, Bind, Lookup, Query, TypeOK
      <3>3. QED
        BY <3>1, <3>2
    <2>3. QED
      BY <2>1, <2>2, ExplainedFrame
  <1>5. ASSUME NEW r \in Req, Insert(r) \/ Save(r) \/ SoftDelete(r) PROVE StaleExplained'
    <2>1. job[r].stamp \in Nat
      BY DEF TypeOK, Job
    <2>2. CASE Insert(r)
      <3>1. Patched(Unset, job[r].set, job[r].stamp) \in Row
        BY <2>1, UnsetIsProduct, PatchIsProduct DEF Row
      <3>2. QED
        BY <2>2, <3>1, ExplainedWrite DEF Insert
    <2>3. CASE Save(r)
      <3>1. Patched(buf[r], job[r].set, job[r].stamp) \in Product
        BY <2>1, <2>3, PatchIsProduct DEF Save, Typing, HoldsWhatItNeeds
      <3>2. PICK new \in Product : Write(r, new, new)
        BY <2>3, <3>1, SavedAreProducts DEF Save
      <3>3. QED
        BY <2>3, <3>2, ExplainedWrite DEF Save, Row
    <2>4. CASE SoftDelete(r)
      <3>1. CASE Write(r, Deleted, Deleted)
        BY <2>4, <3>1, ExplainedWrite DEF SoftDelete, Row
      <3>2. CASE ~Write(r, Deleted, Deleted)
        <4>1. UNCHANGED <<db, cache, taint, job>> /\ pc' = [pc EXCEPT ![r] = "done"]
          BY <2>4, <3>2 DEF SoftDelete
        <4>2. \A q \in Req : pc[q] = "del" => pc'[q] = "del"
          BY <2>4, <4>1 DEF SoftDelete, TypeOK
        <4>3. QED
          BY <4>1, <4>2, ExplainedFrame
      <3>3. QED
        BY <3>1, <3>2
    <2>5. QED
      BY <1>5, <2>2, <2>3, <2>4
  <1>6. QED
    BY <1>1, <1>2, <1>3, <1>4, <1>5, ExplainedFill, ExplainedResend, ExplainedInvalidate,
       ExplainedExpire, ExplainedArrive, ExplainedCrash DEF Next, Serve

\* Whatever fails, in whatever order requests run: a stale entry has a known cause.
THEOREM StaleEntriesExplained == Spec => []StaleExplained
  <1>1. Typing /\ StaleExplained /\ [Next]_vars => StaleExplained'
    BY ExplainedNext
  <1>2. QED
    BY TypingInit, TypingNext, StaleInit, <1>1, PTL DEF Spec

-----------------------------------------------------------------------------
(***************************************************************************)
(* One client at a time and nothing failing.  Redis then disagrees with    *)
(* the database only between a write and the DEL that follows it, and what *)
(* the client has read of its product is what the database still shows.    *)
(***************************************************************************)
InSync(r) ==
  /\ \A k \in Id : Stale(k) => pc[r] = "del" /\ Key(r) = k
  /\ pc[r] \in {"set", "finish", "got"} => buf[r] = View(Key(r))
  /\ job[r].op = "get" /\ pc[r] = "done" => buf[r] = View(Key(r))
  /\ job[r].op = "update" /\ pc[r] \in {"bind", "save"} => buf[r] = View(Key(r))

OnItsWay(r) ==
  /\ ~gone[r]
  /\ pc[r] \in {"bind", "insert", "save", "delete", "del"} => job[r].op # "get"
  /\ pc[r] = "save" => job[r].op = "update"
  /\ pc[r] = "insert" \/ (pc[r] = "bind" /\ job[r].op = "create") => db[Key(r)] = NoRow

SoloInv == late = {} /\ \A r \in Req : InSync(r) /\ OnItsWay(r)

Solo == Faults = {} /\ \A q, r \in Req : q = r

LEMMA SoloInit == Init => SoloInv
  BY DEF Init, SoloInv, InSync, OnItsWay, Stale

LEMMA SoloStart ==
  ASSUME Solo, Typing, SoloInv, NEW r \in Req, Start(r) PROVE InSync(r)' /\ OnItsWay(r)'
  <1>0. PICK op \in Op, s \in Server, k \in Id :
          \E body \in Bodies(op) : Submit(r, op, s, k, body)
    BY DEF Start
  <1>1. PICK body \in Bodies(op) : Submit(r, op, s, k, body)
    BY <1>0
  <1>2. /\ FirstPc(op) \in {"get", "bind", "delete"}
        /\ FirstPc(op) = "bind" => op = "create"
        /\ FirstPc(op) = "delete" => op = "delete"
    BY DEF FirstPc, Op
  <1>3. job'[r] = NewJob(op, s, k, body) /\ pc'[r] = FirstPc(op) /\ ~gone'[r]
    BY <1>1 DEF Submit, Typing, TypeOK
  <1>4. job'[r].op = op /\ job'[r].id = k
    BY <1>3 DEF NewJob
  <1>5. \A j \in Id : ~Stale(j)
    BY DEF Start, Active, SoloInv, InSync
  <1>6. \A j \in Id : ~Stale(j)'
    BY <1>1, <1>5 DEF Submit, Stale, View
  <1>7. op = "create" => db'[k] = NoRow
    BY <1>1 DEF Submit, Fresh
  <1>8. InSync(r)'
    BY <1>2, <1>3, <1>4, <1>6 DEF InSync
  <1>9. OnItsWay(r)'
    BY <1>2, <1>3, <1>4, <1>7 DEF OnItsWay, Key
  <1>10. QED
    BY <1>8, <1>9

\* Steps that touch neither Redis nor the database.
LEMMA SoloRead ==
  ASSUME Solo, Typing, SoloInv, NEW r \in Req,
         \/ CacheGet(r) \/ Join(r) \/ Recheck(r) \/ Load(r)
         \/ Finish(r) \/ AfterRead(r) \/ Bind(r)
  PROVE  InSync(r)' /\ OnItsWay(r)'
  <1> USE DEF Goto, Hold, Answered
  <1>0. UNCHANGED <<db, cache, job, gone>>
    BY DEF CacheGet, Join, Recheck, Lookup, Load, Query, Finish, AfterRead, Bind
  <1>1. \A k \in Id : ~Stale(k)
    BY DEF SoloInv, InSync, CacheGet, Join, Recheck, Load, Finish, AfterRead, Bind
  <1>2. /\ \A k \in Id : ~Stale(k)'
        /\ View(Key(r))' = View(Key(r))
    BY <1>0, <1>1 DEF Stale, View, Key
  <1>3. Key(r) \in Id /\ ~RedisDown(r) /\ ~DbDown(r)
    BY DEF Solo, SoloInv, OnItsWay, RedisDown, DbDown, Typing, TypeOK, Job, Key
  <1>4. cache[Key(r)] # Miss => cache[Key(r)].val = View(Key(r))
    BY <1>1, <1>3 DEF Stale
  <1>5. CASE CacheGet(r) \/ Recheck(r) \/ Load(r)
    <2>1. \/ pc'[r] \in {"got", "finish", "set"} /\ buf'[r] = View(Key(r))
          \/ pc'[r] \in {"join", "load"}
      BY <1>3, <1>4, <1>5 DEF CacheGet, Recheck, Lookup, Load, Query, Typing, TypeOK
    <2>2. InSync(r)'
      BY <1>2, <2>1 DEF InSync
    <2>3. OnItsWay(r)'
      BY <1>0, <2>1 DEF OnItsWay, SoloInv
    <2>4. QED
      BY <2>2, <2>3
  <1>6. CASE Join(r)
    <2>1. pc'[r] \in {"recheck", "wait"}
      BY <1>6 DEF Join, Typing, TypeOK
    <2>2. QED
      BY <1>0, <1>2, <2>1 DEF InSync, OnItsWay, SoloInv
  <1>7. CASE Finish(r)
    <2>1. pc'[r] = "got" /\ buf'[r] = buf[r] /\ pc[r] = "finish"
      BY <1>7 DEF Finish, Woken, Typing, TypeOK
    <2>2. buf'[r] = View(Key(r))
      BY <2>1 DEF SoloInv, InSync
    <2>3. QED
      BY <1>0, <1>2, <2>1, <2>2 DEF InSync, OnItsWay, SoloInv
  <1>8. CASE AfterRead(r)
    <2>1. /\ pc[r] = "got" /\ buf' = buf
          /\ pc'[r] = "done" \/ (pc'[r] = "bind" /\ job[r].op = "update")
      BY <1>8 DEF AfterRead, Typing, TypeOK
    <2>2. buf'[r] = View(Key(r))
      BY <2>1 DEF SoloInv, InSync
    <2>3. QED
      BY <1>0, <1>2, <2>1, <2>2 DEF InSync, OnItsWay, SoloInv
  <1>9. CASE Bind(r)
    <2>1. /\ pc[r] = "bind" /\ job[r].op \in {"create", "update"}
          /\ \/ pc'[r] = "insert" /\ job[r].op = "create"
             \/ pc'[r] = "save" /\ job[r].op = "update" /\ buf' = buf
             \/ pc'[r] = "done"
      BY <1>9 DEF Bind, Typing, TypeOK, HoldsWhatItNeeds
    <2>2. InSync(r)'
      BY <1>0, <1>2, <2>1 DEF InSync, SoloInv
    <2>3. OnItsWay(r)'
      BY <1>0, <2>1 DEF OnItsWay, SoloInv, Key
    <2>4. QED
      BY <2>2, <2>3
  <1>10. QED
    BY <1>5, <1>6, <1>7, <1>8, <1>9

\* A write is followed by the DEL of the same key.
LEMMA SoloWrite ==
  ASSUME Solo, Typing, SoloInv, NEW r \in Req, NEW row, NEW ans, Write(r, row, ans),
         pc[r] \in {"insert", "save", "delete"}
  PROVE  InSync(r)' /\ OnItsWay(r)'
  <1>1. ~DbDown(r) /\ Key(r) \in Id
    BY DEF Solo, SoloInv, OnItsWay, DbDown, Typing, TypeOK, Job, Key
  <1>2. /\ db' = [db EXCEPT ![Key(r)] = row]
        /\ pc'[r] = "del" /\ UNCHANGED <<cache, job, gone>>
    BY <1>1 DEF Write, Goto, AfterWrite, Typing, TypeOK
  <1>3. \A k \in Id : ~Stale(k)
    BY DEF SoloInv, InSync
  <1>4. \A k \in Id : k # Key(r) => ~Stale(k)'
    BY <1>2, <1>3 DEF Stale, View, Typing, TypeOK
  <1>5. Key(r)' = Key(r)
    BY <1>2 DEF Key
  <1>6. InSync(r)'
    BY <1>2, <1>4, <1>5 DEF InSync
  <1>7. OnItsWay(r)'
    BY <1>2 DEF OnItsWay, SoloInv
  <1>8. QED
    BY <1>6, <1>7

\* SET stores what the database shows, DEL and expiry remove the entry.
LEMMA SoloRedis ==
  ASSUME Solo, Typing, SoloInv, NEW r \in Req,
         Fill(r) \/ Invalidate(r) \/ (\E k \in Id : Expire(k))
  PROVE  InSync(r)' /\ OnItsWay(r)'
  <1> USE DEF Goto
  <1>0. /\ UNCHANGED <<db, job, gone, buf>>
        /\ Key(r) \in Id /\ ~RedisDown(r)
    BY DEF Fill, Invalidate, Expire, Solo, SoloInv, OnItsWay, RedisDown, Typing, TypeOK, Job, Key
  <1>1. View(Key(r))' = View(Key(r)) /\ Key(r)' = Key(r)
    BY <1>0 DEF View, Key
  <1>2. CASE Fill(r)
    <2>1. /\ pc[r] = "set" /\ pc'[r] = "finish" /\ buf[r] = View(Key(r))
          /\ \A k \in Id : ~Stale(k)
      BY <1>2 DEF Fill, SoloInv, InSync, Typing, TypeOK
    <2>2. PICK ttl : cache' = [cache EXCEPT ![Key(r)] = [val |-> buf[r], ttl |-> ttl]]
      BY <1>0, <1>2 DEF Fill, StoreEntry, Key
    <2>3. \A k \in Id : ~Stale(k)'
      <3>1. cache'[Key(r)].val = View(Key(r))
        BY <1>0, <2>1, <2>2 DEF Typing, TypeOK
      <3>2. \A k \in Id \ {Key(r)} : cache'[k] = cache[k]
        BY <2>2 DEF Typing, TypeOK
      <3>3. QED
        BY <1>0, <1>1, <2>1, <3>1, <3>2 DEF Stale, View
    <2>4. InSync(r)'
      BY <1>0, <1>1, <2>1, <2>3 DEF InSync
    <2>5. OnItsWay(r)'
      BY <1>0, <2>1 DEF OnItsWay, SoloInv
    <2>6. QED
      BY <2>4, <2>5
  <1>3. CASE Invalidate(r)
    <2>1. /\ pc[r] = "del" /\ pc'[r] = "done" /\ job[r].op # "get"
          /\ cache' = [cache EXCEPT ![Key(r)] = Miss]
      BY <1>0, <1>3 DEF Invalidate, RemoveEntry, SoloInv, OnItsWay, Typing, TypeOK
    <2>2. \A k \in Id : ~Stale(k)'
      <3>1. \A k \in Id : cache'[k] = IF k = Key(r) THEN Miss ELSE cache[k]
        BY <2>1 DEF Typing, TypeOK
      <3>2. \A k \in Id : k # Key(r) => ~Stale(k)
        BY DEF SoloInv, InSync
      <3>3. QED
        BY <1>0, <3>1, <3>2 DEF Stale, View
    <2>3. InSync(r)'
      BY <1>0, <2>1, <2>2 DEF InSync
    <2>4. OnItsWay(r)'
      BY <1>0, <2>1 DEF OnItsWay, SoloInv
    <2>5. QED
      BY <2>3, <2>4
  <1>4. CASE \E k \in Id : Expire(k)
    <2>1. PICK k \in Id : Expire(k)
      BY <1>4
    <2>2. pc' = pc /\ cache' = [cache EXCEPT ![k] = Miss]
      BY <2>1 DEF Expire, RemoveEntry
    <2>3. \A j \in Id : Stale(j)' => Stale(j)
      <3>1. \A j \in Id : cache'[j] = IF j = k THEN Miss ELSE cache[j]
        BY <2>2 DEF Typing, TypeOK
      <3>2. QED
        BY <1>0, <3>1 DEF Stale, View
    <2>4. InSync(r)'
      BY <1>0, <1>1, <2>2, <2>3 DEF InSync, SoloInv
    <2>5. OnItsWay(r)'
      BY <1>0, <2>2 DEF OnItsWay, SoloInv, Key
    <2>6. QED
      BY <2>4, <2>5
  <1>5. QED
    BY <1>2, <1>3, <1>4

LEMMA SoloNext ==
  ASSUME Solo PROVE Typing /\ SoloInv /\ [Next]_vars => SoloInv'
  <1> SUFFICES ASSUME Typing, SoloInv, [Next]_vars PROVE SoloInv'
    OBVIOUS
  <1>0. \A q \in Req : ~Disconnect(q) /\ ~Resend(q)
    BY DEF Solo, Disconnect, Resend
  <1>10. ~Arrive /\ \A s \in Server : ~Crash(s)
    BY DEF Solo, SoloInv, Arrive, Crash
  <1>11. late' = {}
    <2>1. \A q \in Req : Start(q) \/ Serve(q) => UNCHANGED late
      BY DEF Start, Submit, Serve, CacheGet, Join, Recheck, Lookup, Load, Query, Fill, Finish,
             AfterRead, Bind, Insert, Save, SoftDelete, Write, Invalidate
    <2>2. \A k \in Id : Expire(k) => UNCHANGED late
      BY DEF Expire
    <2>3. UNCHANGED late
      BY <1>0, <1>10, <2>1, <2>2 DEF Next, vars
    <2>4. QED
      BY <2>3 DEF SoloInv
  <1> SUFFICES ASSUME NEW r \in Req PROVE InSync(r)' /\ OnItsWay(r)'
    BY <1>11 DEF SoloInv
  <1>1. CASE UNCHANGED vars
    BY <1>1 DEF vars, SoloInv, InSync, OnItsWay, Stale, View, Key
  <1>2. CASE Start(r)
    BY <1>2, SoloStart
  <1>3. CASE Serve(r)
    <2>1. CASE Insert(r)
      BY <2>1, SoloWrite DEF Insert
    <2>2. CASE Save(r)
      BY <2>2, SoloWrite DEF Save
    <2>3. CASE SoftDelete(r)
      <3>1. CASE Write(r, Deleted, Deleted)
        BY <2>3, <3>1, SoloWrite DEF SoftDelete
      <3>2. CASE ~Write(r, Deleted, Deleted)
        <4>1. /\ UNCHANGED <<db, cache, job, gone>> /\ pc'[r] = "done" /\ pc[r] = "delete"
          BY <2>3, <3>2 DEF SoftDelete, Answered, Goto, Typing, TypeOK
        <4>2. job[r].op # "get"
          BY <4>1 DEF SoloInv, OnItsWay
        <4>3. \A k \in Id : ~Stale(k)'
          BY <4>1 DEF SoloInv, InSync, Stale, View
        <4>4. InSync(r)'
          BY <4>1, <4>2, <4>3 DEF InSync
        <4>5. OnItsWay(r)'
          BY <4>1 DEF OnItsWay, SoloInv
        <4>6. QED
          BY <4>4, <4>5
      <3>3. QED
        BY <3>1, <3>2
    <2>4. QED
      BY <1>3, <2>1, <2>2, <2>3, SoloRead, SoloRedis DEF Serve
  <1>4. CASE \E k \in Id : Expire(k)
    BY <1>4, SoloRedis
  <1>5. QED
    BY <1>0, <1>1, <1>2, <1>3, <1>4, <1>10 DEF Next, Solo

\* A client that has the service for itself, and nothing failing, reads what it wrote:
\* right after any sequence of creates, updates, deletes, reads and expiries.
THEOREM AloneReadsAreCurrent ==
  ASSUME Solo PROVE Spec => []SequentialReadsAreCurrent
  <1>1. SoloInv => SequentialReadsAreCurrent
    BY DEF SoloInv, InSync, SequentialReadsAreCurrent
  <1>2. Typing /\ SoloInv /\ [Next]_vars => SoloInv'
    BY SoloNext
  <1>3. QED
    BY TypingInit, TypingNext, SoloInit, <1>1, <1>2, PTL DEF Spec

\* Alone, db.Save never revives a deleted product.
THEOREM AloneDeletesLast ==
  ASSUME Solo PROVE Spec => DeletedStaysDeleted
  <1>1. Typing /\ SoloInv /\ [Next]_vars =>
          [\A k \in Id : db[k] = Deleted => db'[k] = Deleted]_vars
    <2> SUFFICES ASSUME Typing, SoloInv, Next, NEW k \in Id, db[k] = Deleted
                 PROVE  db'[k] = Deleted
      BY DEF vars
    <2>1. ASSUME NEW r \in Req, NEW row, NEW ans, Write(r, row, ans),
                 Key(r) = k => row = Deleted
          PROVE  db'[k] = Deleted
      BY <2>1 DEF Write, Typing, TypeOK
    <2>2. ASSUME NEW r \in Req, Insert(r) \/ Save(r) \/ SoftDelete(r)
          PROVE  db'[k] = Deleted
      <3>1. Deleted # NoRow /\ Seen(Deleted) = NotFound /\ NotFound \notin Product
        BY DistinctAssumption DEF Seen
      <3>2. CASE Insert(r)
        <4>1. Key(r) # k
          BY <3>1, <3>2 DEF Insert, SoloInv, OnItsWay
        <4>2. QED
          BY <2>1, <3>2, <4>1 DEF Insert
      <3>3. CASE Save(r)
        <4>1. buf[r] = View(Key(r)) /\ buf[r] \in Product
          BY <3>3 DEF Save, SoloInv, OnItsWay, InSync, Typing, HoldsWhatItNeeds
        <4>2. Key(r) # k
          BY <3>1, <4>1 DEF View
        <4>3. QED
          BY <2>1, <3>3, <4>2 DEF Save
      <3>4. CASE SoftDelete(r)
        BY <2>1, <3>4 DEF SoftDelete
      <3>5. QED
        BY <2>2, <3>2, <3>3, <3>4
    <2>3. CASE UNCHANGED db
      BY <2>3
    <2>4. QED
      BY <2>2, <2>3 DEF Next, Start, Submit, Disconnect, Resend, Serve, CacheGet, Join,
                        Recheck, Lookup, Load, Query, Fill, Finish, AfterRead, Bind,
                        Invalidate, Expire, Arrive, Crash
  <1>2. Typing /\ SoloInv /\ [Next]_vars => SoloInv'
    BY SoloNext
  <1>3. QED
    BY TypingInit, TypingNext, SoloInit, <1>1, <1>2, PTL DEF Spec, DeletedStaysDeleted

-----------------------------------------------------------------------------
(* What the endpoints promise their clients: failures have a cause, and    *)
(* every step implements a step of LingeringStore.                         *)

\* A running loader ends in an error only if its client has left.
FailedMeansGone ==
  Faults \subseteq {"redis", "cancel"} =>
    \A r \in Req : pc[r] = "finish" /\ buf[r] = Failed => gone[r]

LEMMA FailedIsNoValue == Failed \notin Value
  BY DistinctAssumption DEF Value

LEMMA FailedMeansGoneInit == Init => FailedMeansGone
  BY DEF Init, FailedMeansGone

\* Steps that bring no request to its "finish".
LEMMA FailedMeansGoneFrame ==
  ASSUME FailedMeansGone,
         \A q \in Req : pc'[q] = "finish" => pc[q] = "finish" /\ buf'[q] = buf[q]
                                             /\ (gone[q] => gone'[q])
  PROVE  FailedMeansGone'
  BY DEF FailedMeansGone

LEMMA FailedMeansGoneServe ==
  ASSUME Typing, FailedMeansGone, NEW r \in Req, Serve(r) PROVE FailedMeansGone'
  <1> USE DEF Goto, Hold, Answered
  <1>0. TypeOK /\ Key(r) \in Id
    BY DEF Typing, TypeOK, Key, Job
  <1>1. CASE Recheck(r)
    <2>1. cache[Key(r)] # Miss => cache[Key(r)].val # Failed
      BY <1>0, FailedIsNoValue DEF TypeOK, Entry
    <2>2. QED
      BY <1>0, <1>1, <2>1 DEF Recheck, Lookup, FailedMeansGone, TypeOK
  <1>2. CASE Load(r)
    BY <1>0, <1>2 DEF Load, Query, DbDown, FailedMeansGone, TypeOK
  <1>3. CASE Fill(r)
    <2>1. buf[r] # Failed
      BY <1>3, FailedIsNoValue DEF Fill, Typing, HoldsWhatItNeeds
    <2>2. QED
      BY <1>0, <1>3, <2>1 DEF Fill, FailedMeansGone, TypeOK
  <1>4. CASE Finish(r)
    BY <1>0, <1>4, FailedMeansGoneFrame DEF Finish, Woken
  <1>5. CASE CacheGet(r) \/ Join(r) \/ AfterRead(r) \/ Bind(r)
    BY <1>0, <1>5, FailedMeansGoneFrame DEF CacheGet, Lookup, Join, AfterRead, Bind, TypeOK
  <1>6. CASE Insert(r) \/ Save(r) \/ SoftDelete(r) \/ Invalidate(r)
    BY <1>0, <1>6, FailedMeansGoneFrame
       DEF Insert, Save, SoftDelete, Write, AfterWrite, Invalidate, TypeOK
  <1>7. QED
    BY <1>1, <1>2, <1>3, <1>4, <1>5, <1>6 DEF Serve

LEMMA FailedMeansGoneNext == Typing /\ FailedMeansGone /\ [Next]_vars => FailedMeansGone'
  <1> SUFFICES ASSUME Typing, TypeOK, FailedMeansGone, [Next]_vars PROVE FailedMeansGone'
    BY DEF Typing
  <1>1. CASE UNCHANGED vars
    BY <1>1, FailedMeansGoneFrame DEF vars
  <1>2. ASSUME NEW r \in Req, Start(r) PROVE FailedMeansGone'
    <2>1. PICK op \in Op, s \in Server, k \in Id :
            \E body \in Bodies(op) : Submit(r, op, s, k, body)
      BY <1>2 DEF Start
    <2>2. FirstPc(op) # "finish"
      BY DEF FirstPc, Op
    <2>3. QED
      BY <2>1, <2>2, FailedMeansGoneFrame DEF Submit, TypeOK
  <1>3. ASSUME NEW r \in Req, Disconnect(r) \/ Resend(r) PROVE FailedMeansGone'
    BY <1>3, FailedMeansGoneFrame DEF Disconnect, Resend, TypeOK
  <1>4. ASSUME Arrive \/ \E k \in Id : Expire(k) PROVE FailedMeansGone'
    BY <1>4, FailedMeansGoneFrame DEF Arrive, Expire
  <1>5. ASSUME NEW s \in Server, Crash(s) PROVE FailedMeansGone'
    BY <1>5, FailedMeansGoneFrame DEF Crash
  <1>6. QED
    BY <1>1, <1>2, <1>3, <1>4, <1>5, FailedMeansGoneServe DEF Next

\* The request a step tells of an error, its client still there, was woken by a
\* flight whose leader has no client any more.
LEMMA FailureStep ==
  ASSUME Typing, FailedMeansGone, FlightOK, Next,
         Faults \subseteq {"redis", "cancel"},
         NEW q \in Req, buf[q] # Failed, buf'[q] = Failed, ~gone[q]
  PROVE  \E r \in Req \ {q} : /\ gone[r] /\ pc[r] = "finish" /\ pc[q] = "wait"
                              /\ flight[job[q].srv][Key(q)] = r
  <1> USE DEF Goto, Hold, Answered
  <1>0. TypeOK /\ Key(q) \in Id /\ Failed # NotFound /\ Failed # Rejected /\ Failed # Deleted
    BY DistinctAssumption DEF Typing, TypeOK, Key, Job
  <1>1. ASSUME NEW r \in Req, r # q, buf'[q] # buf[q], Serve(r) PROVE Finish(r)
    BY <1>0, <1>1
       DEF Serve, CacheGet, Join, Recheck, Load, Fill, AfterRead, Bind, Insert, Save,
           SoftDelete, Invalidate, Lookup, Query, Write, TypeOK
  <1>2. ASSUME NEW r \in Req, r # q, Finish(r)
        PROVE  /\ gone[r] /\ pc[r] = "finish" /\ pc[q] = "wait"
               /\ flight[job[q].srv][Key(q)] = r
    <2>1. q \in Woken(r) /\ buf[r] = Failed /\ pc[r] = "finish"
      BY <1>2 DEF Finish
    <2>2. pc[q] = "wait" /\ job[q].srv = job[r].srv /\ Key(q) = Key(r)
      BY <1>2, <2>1 DEF Woken, Holders, Key
    <2>3. flight[job[r].srv][Key(r)] = r
      BY <2>1 DEF FlightOK, SingleLoader, Leading, LeadingPc
    <2>4. QED
      BY <2>1, <2>2, <2>3 DEF FailedMeansGone
  <1>3. ~Serve(q)
    <2>1. cache[Key(q)] # Miss => cache[Key(q)].val # Failed
      BY <1>0, FailedIsNoValue DEF TypeOK, Entry
    <2>2. View(Key(q)) # Failed
      BY <1>0, FailedIsNoValue, ViewIsValue
    <2>3. ~CacheGet(q) /\ ~Recheck(q)
      BY <1>0, <2>1 DEF CacheGet, Recheck, Lookup, TypeOK
    <2>4. ~Join(q) /\ ~Fill(q) /\ ~AfterRead(q) /\ ~Bind(q) /\ ~Invalidate(q)
      BY <1>0 DEF Join, Fill, AfterRead, Bind, Invalidate, TypeOK
    <2>5. ~Load(q)
      BY <1>0, <2>2 DEF Load, Query, DbDown, TypeOK
    <2>6. ~Finish(q)
      BY <1>0 DEF Finish, Woken
    <2>7. ASSUME NEW row, NEW ans, ans # Failed PROVE ~Write(q, row, ans)
      BY <1>0, <2>7 DEF Write, DbDown, TypeOK
    <2>8. ASSUME NEW p \in Product PROVE p # Failed
      BY DistinctAssumption
    <2>9. job[q].stamp \in Nat
      BY <1>0 DEF TypeOK, Job
    <2>10. ~Insert(q)
      BY <2>7, <2>8, <2>9, UnsetIsProduct, PatchIsProduct DEF Insert
    <2>11. ~Save(q)
      BY <2>7, <2>8, <2>9, PatchIsProduct, SavedAreProducts
         DEF Save, Typing, HoldsWhatItNeeds
    <2>12. ~SoftDelete(q)
      BY <1>0, <2>7 DEF SoftDelete, DbDown, TypeOK
    <2>13. QED
      BY <2>3, <2>4, <2>5, <2>6, <2>10, <2>11, <2>12 DEF Serve
  <1>4. \A r \in Req : ~Start(r) /\ ~Disconnect(r) /\ ~Resend(r)
    BY <1>0 DEF Start, Submit, Disconnect, Resend, TypeOK
  <1>5. ~Arrive /\ (\A k \in Id : ~Expire(k)) /\ (\A s \in Server : ~Crash(s))
    BY DEF Arrive, Expire, Crash
  <1>6. QED
    BY <1>1, <1>2, <1>3, <1>4, <1>5 DEF Next

\* However often Redis fails and clients leave: with the database and the servers
\* working, a client that stays sees an error only if the leader it waited for left.
THEOREM FailuresHaveCauses == Spec => FailureHasCause
  <1>1. Typing /\ FailedMeansGone /\ FlightOK /\ [Next]_vars
          => [Faults \subseteq {"redis", "cancel"} =>
                \A q \in Req : buf[q] # Failed /\ buf'[q] = Failed /\ ~gone[q] =>
                  \E r \in Req \ {q} :
                    /\ gone[r] /\ pc[r] = "finish" /\ pc[q] = "wait"
                    /\ flight[job[q].srv][Key(q)] = r]_vars
    BY FailureStep
  <1>2. QED
    BY TypingInit, TypingNext, FlightInit, FlightNext, FailedMeansGoneInit,
       FailedMeansGoneNext, <1>1, PTL DEF Spec, FailureHasCause
-----------------------------------------------------------------------------
\* The values of k that linger beside the current one, and what the mapping shows
\* of the abstract store.
Lingering(k) == Cached(k) \union Carried(k) \union Delayed(k)
Visible(k)   == {View(k)} \union Lingering(k)
ReplyOf(r)   == IF pc[r] = "done" /\ job[r].op = "get" THEN buf[r] ELSE Failed

\* Request r carries its value to a later step.
Carries(r) ==
  /\ buf[r] # Failed
  /\ \/ pc[r] \in {"set", "finish", "got"}
     \/ pc[r] \in {"bind", "save"} /\ job[r].op = "update"

LEMMA CarriedIs ==
  ASSUME NEW k
  PROVE  /\ \A v : v \in Carried(k) <=> \E r \in Req : Key(r) = k /\ Carries(r) /\ buf[r] = v
         /\ \A v : v \in Carried(k)' <=>
                     \E r \in Req : Key(r)' = k /\ Carries(r)' /\ buf'[r] = v
  BY DEF Carried, Carries

\* Which step belongs to which operation.
Roles ==
  \A r \in Req :
    /\ pc[r] = "insert" => job[r].op = "create"
    /\ pc[r] = "save" => job[r].op = "update"
    /\ pc[r] = "delete" => job[r].op = "delete"
    /\ pc[r] = "del" => job[r].op # "get"
    /\ job[r].op = "create" => job[r].set = Field

\* The id of a create still to be inserted has no row and no other creator.
Reserved ==
  \A r \in Req :
    job[r].op = "create" /\ pc[r] \in {"bind", "insert"} =>
      /\ db[Key(r)] = NoRow
      /\ \A q \in Req \ {r} : job[q].op = "create" /\ Active(q) => Key(q) # Key(r)

\* Of an id without a row nothing but its absence was ever seen.
Unborn == \A k \in Id : db[k] = NoRow => Lingering(k) \subseteq {NotFound}

RefInv == Typing /\ Roles /\ Reserved /\ Unborn

LEMMA RefInit == Init => Roles /\ Reserved /\ Unborn
  <1> SUFFICES ASSUME Init PROVE Roles /\ Reserved /\ Unborn
    OBVIOUS
  <1>1. Roles /\ Reserved
    BY DEF Init, Roles, Reserved
  <1>2. \A k \in Id : Carried(k) = {} /\ Cached(k) = {} /\ Delayed(k) = {}
    BY DEF Init, Carried, Cached, Delayed
  <1>3. QED
    BY <1>1, <1>2 DEF Unborn, Lingering

LEMMA RolesNext == Typing /\ Roles /\ [Next]_vars => Roles'
  <1> SUFFICES ASSUME TypeOK, HoldsWhatItNeeds, Roles, [Next]_vars PROVE Roles'
    BY DEF Typing
  <1> USE DEF Goto, Hold, Answered
  <1>1. CASE UNCHANGED <<pc, job>>
    BY <1>1 DEF Roles
  <1>2. ASSUME NEW r \in Req, Start(r) PROVE Roles'
    <2>1. PICK op \in Op, s \in Server, k \in Id :
            \E body \in Bodies(op) : Submit(r, op, s, k, body)
      BY <1>2 DEF Start
    <2>2. PICK body \in Bodies(op) : Submit(r, op, s, k, body)
      BY <2>1
    <2>3. /\ NewJob(op, s, k, body).op = op /\ NewJob(op, s, k, body).set = body
          /\ op = "create" => body = Field
      BY <2>2 DEF NewJob, Bodies, Op
    <2>4. FirstPc(op) \notin {"insert", "save", "del"} /\ (FirstPc(op) = "delete" => op = "delete")
      BY DEF FirstPc, Op
    <2>5. QED
      BY <2>2, <2>3, <2>4 DEF Submit, Roles, TypeOK
  <1>3. ASSUME NEW r \in Req, Serve(r) PROVE Roles'
    <2>1. UNCHANGED job
      BY <1>3 DEF Serve, CacheGet, Join, Recheck, Load, Fill, Finish, AfterRead, Bind, Insert,
                  Save, SoftDelete, Invalidate, Lookup, Query, Write
    <2>2. CASE Finish(r)
      BY <2>1, <2>2 DEF Finish, Roles
    <2>3. CASE CacheGet(r) \/ Join(r) \/ Recheck(r) \/ Load(r) \/ Fill(r) \/ AfterRead(r)
               \/ Invalidate(r)
      BY <2>1, <2>3 DEF CacheGet, Join, Recheck, Load, Fill, AfterRead, Invalidate, Lookup,
                        Query, Roles, TypeOK
    <2>4. CASE Bind(r)
      BY <2>1, <2>4 DEF Bind, Roles, TypeOK, HoldsWhatItNeeds
    <2>5. CASE Insert(r) \/ Save(r) \/ SoftDelete(r)
      BY <2>1, <2>5 DEF Insert, Save, SoftDelete, Write, AfterWrite, Roles, TypeOK
    <2>6. QED
      BY <1>3, <2>2, <2>3, <2>4, <2>5 DEF Serve
  <1>4. ASSUME NEW s \in Server, Crash(s) PROVE Roles'
    BY <1>4 DEF Crash, Roles
  <1>5. QED
    BY <1>1, <1>2, <1>3, <1>4 DEF Next, Disconnect, Resend, Expire, Arrive, vars

\* A step of r alone lets nothing linger that was not visible before.
LEMMA LingeringByOne ==
  ASSUME NEW r \in Req, UNCHANGED <<job, late>>,
         \A q \in Req \ {r} : pc'[q] = pc[q] /\ buf'[q] = buf[q],
         Carries(r)' => buf'[r] \in Visible(Key(r)),
         NEW k \in Id, Cached(k)' \subseteq Visible(k)
  PROVE  Lingering(k)' \subseteq Visible(k)
  <1>1. ASSUME NEW v \in Carried(k)' PROVE v \in Visible(k)
    <2>1. PICK q \in Req : Key(q)' = k /\ Carries(q)' /\ buf'[q] = v
      BY CarriedIs
    <2>2. Key(q) = k
      BY <2>1 DEF Key
    <2>3. CASE q = r
      BY <2>1, <2>2, <2>3
    <2>4. CASE q # r
      <3>1. Carries(q) /\ buf[q] = v
        BY <2>1, <2>4 DEF Carries
      <3>2. QED
        BY <2>2, <3>1, CarriedIs DEF Visible, Lingering
    <2>5. QED
      BY <2>3, <2>4
  <1>2. Delayed(k)' = Delayed(k)
    BY DEF Delayed
  <1>3. QED
    BY <1>1, <1>2 DEF Lingering, Visible

\* What a read of Redis or of the row can find is visible.
LEMMA FoundIsVisible ==
  ASSUME NEW k \in Id
  PROVE  View(k) \in Visible(k) /\ (cache[k] # Miss => cache[k].val \in Visible(k))
  BY DEF Visible, Lingering, Cached

LEMMA CarriedIsVisible ==
  ASSUME NEW r \in Req, Carries(r) PROVE buf[r] \in Visible(Key(r))
  BY CarriedIs DEF Visible, Lingering

\* A command that stores a visible value leaves a visible value in Redis.
LEMMA ExecuteStoresVisible ==
  ASSUME TypeOK, NEW c \in Command, Execute(c), NEW k \in Id,
         c.id = k /\ c.val # Miss => c.val \in Visible(k)
  PROVE  Cached(k)' \subseteq Visible(k)
  <1>1. c.id \in Id
    BY DEF Command
  <1>2. CASE c.val = Miss
    <2>1. cache'[k] \in {cache[k], Miss}
      BY <1>1, <1>2 DEF Execute, RemoveEntry, TypeOK
    <2>2. QED
      BY <2>1 DEF Cached, Visible, Lingering
  <1>3. CASE c.val # Miss
    <2>1. PICK ttl : cache' = [cache EXCEPT ![c.id] = [val |-> c.val, ttl |-> ttl]]
      BY <1>1, <1>3 DEF Execute, StoreEntry
    <2>2. cache'[k] = cache[k] \/ (k = c.id /\ cache'[k].val = c.val)
      BY <1>1, <2>1 DEF TypeOK
    <2>3. QED
      BY <1>3, <2>2, FoundIsVisible DEF Cached
  <1>4. QED
    BY <1>2, <1>3

LEMMA LingeringServe ==
  ASSUME Typing, Roles, NEW r \in Req, Serve(r), NEW k \in Id
  PROVE  Lingering(k)' \subseteq Visible(k)
  <1> USE DEF Goto, Hold, Answered
  <1>0. TypeOK /\ HoldsWhatItNeeds /\ Key(r) \in Id
    BY DEF Typing, TypeOK, Key, Job
  <1>1. UNCHANGED cache => Cached(k)' \subseteq Visible(k)
    BY DEF Cached, Visible, Lingering
  <1>2. UNCHANGED <<job, late>>
    BY DEF Serve, CacheGet, Join, Recheck, Load, Fill, Finish, AfterRead, Bind, Insert,
           Save, SoftDelete, Invalidate, Lookup, Query, Write
  <1>3. CASE CacheGet(r) \/ Recheck(r)
    <2>1. /\ UNCHANGED cache
          /\ \A q \in Req \ {r} : pc'[q] = pc[q] /\ buf'[q] = buf[q]
      BY <1>0, <1>3 DEF CacheGet, Recheck, Lookup, TypeOK
    <2>2. \/ cache[Key(r)] # Miss /\ buf'[r] = cache[Key(r)].val
          \/ pc'[r] \in {"join", "load"}
      BY <1>0, <1>3 DEF CacheGet, Recheck, Lookup, TypeOK
    <2>3. Carries(r)' => buf'[r] \in Visible(Key(r))
      BY <1>0, <2>2, FoundIsVisible DEF Carries
    <2>4. QED
      BY <1>1, <1>2, <2>1, <2>3, LingeringByOne
  <1>4. CASE Load(r)
    <2>1. /\ UNCHANGED cache
          /\ \A q \in Req \ {r} : pc'[q] = pc[q] /\ buf'[q] = buf[q]
      BY <1>0, <1>4 DEF Load, Query, TypeOK
    <2>2. buf'[r] = View(Key(r)) \/ buf'[r] = Failed
      BY <1>0, <1>4 DEF Load, Query, TypeOK
    <2>3. Carries(r)' => buf'[r] \in Visible(Key(r))
      BY <1>0, <2>2, FoundIsVisible DEF Carries
    <2>4. QED
      BY <1>1, <1>2, <2>1, <2>3, LingeringByOne
  <1>5. CASE Fill(r)
    <2>1. Carries(r)
      BY <1>0, <1>5, FailedIsNoValue DEF Fill, Carries, HoldsWhatItNeeds
    <2>2. buf[r] \in Visible(Key(r))
      BY <2>1, CarriedIsVisible
    <2>3. Cached(k)' \subseteq Visible(k)
      <3>1. CASE UNCHANGED cache
        BY <1>1, <3>1
      <3>2. CASE StoreEntry(Key(r), buf[r])
        <4>1. cache'[k] = cache[k] \/ (k = Key(r) /\ cache'[k].val = buf[r])
          BY <1>0, <3>2 DEF StoreEntry, TypeOK
        <4>2. QED
          BY <2>2, <4>1, FoundIsVisible DEF Cached
      <3>3. QED
        BY <1>5, <3>1, <3>2 DEF Fill
    <2>4. UNCHANGED buf /\ \A q \in Req \ {r} : pc'[q] = pc[q]
      BY <1>0, <1>5 DEF Fill, TypeOK
    <2>5. QED
      BY <1>2, <2>2, <2>3, <2>4, LingeringByOne
  <1>6. CASE Finish(r)
    <2>1. ASSUME NEW v \in Carried(k)' PROVE v \in Visible(k)
      <3>1. PICK q \in Req : Key(q)' = k /\ Carries(q)' /\ buf'[q] = v
        BY CarriedIs
      <3>2. Key(q) = k
        BY <1>2, <3>1 DEF Key
      <3>3. CASE q \in Woken(r)
        <4>1. v = buf[r] /\ buf[r] # Failed /\ pc[r] = "finish" /\ Key(r) = k
          BY <1>6, <3>1, <3>2, <3>3 DEF Finish, Carries, Woken, Holders, Key
        <4>2. QED
          BY <4>1, CarriedIsVisible DEF Carries
      <3>4. CASE q \notin Woken(r)
        <4>1. pc'[q] = pc[q] /\ buf'[q] = buf[q]
          BY <1>6, <3>4 DEF Finish
        <4>2. Carries(q) /\ buf[q] = v
          BY <1>2, <3>1, <4>1 DEF Carries
        <4>3. QED
          BY <3>2, <4>2, CarriedIsVisible
      <3>5. QED
        BY <3>3, <3>4
    <2>2. Cached(k)' \subseteq Visible(k)
      BY <1>1, <1>6 DEF Finish
    <2>3. Delayed(k)' = Delayed(k)
      BY <1>2 DEF Delayed
    <2>4. QED
      BY <2>1, <2>2, <2>3 DEF Lingering, Visible
  <1>7. CASE Join(r) \/ AfterRead(r) \/ Bind(r)
    <2>1. /\ UNCHANGED cache
          /\ \A q \in Req \ {r} : pc'[q] = pc[q] /\ buf'[q] = buf[q]
      BY <1>0, <1>7 DEF Join, AfterRead, Bind, TypeOK
    <2>2. Carries(r)' => Carries(r) /\ buf'[r] = buf[r]
      BY <1>0, <1>2, <1>7 DEF Join, AfterRead, Bind, TypeOK, Carries
    <2>3. QED
      BY <1>1, <1>2, <2>1, <2>2, CarriedIsVisible, LingeringByOne
  <1>8. CASE Insert(r) \/ Save(r) \/ SoftDelete(r)
    <2>1. /\ UNCHANGED cache /\ pc'[r] \in {"del", "done"}
          /\ \A q \in Req \ {r} : pc'[q] = pc[q] /\ buf'[q] = buf[q]
      BY <1>0, <1>8 DEF Insert, Save, SoftDelete, Write, AfterWrite, TypeOK
    <2>2. QED
      BY <1>1, <1>2, <2>1, LingeringByOne DEF Carries
  <1>9. CASE Invalidate(r)
    <2>1. /\ pc'[r] = "done" /\ UNCHANGED buf
          /\ \A q \in Req \ {r} : pc'[q] = pc[q]
      BY <1>0, <1>9 DEF Invalidate, TypeOK
    <2>2. cache'[k] \in {cache[k], Miss}
      BY <1>0, <1>9 DEF Invalidate, RemoveEntry, TypeOK
    <2>3. Cached(k)' \subseteq Visible(k)
      BY <2>2 DEF Cached, Visible, Lingering
    <2>4. QED
      BY <1>2, <2>1, <2>3, LingeringByOne DEF Carries
  <1>10. QED
    BY <1>3, <1>4, <1>5, <1>6, <1>7, <1>8, <1>9 DEF Serve

LEMMA LingeringNext ==
  ASSUME Typing, Roles, Next, NEW k \in Id PROVE Lingering(k)' \subseteq Visible(k)
  <1> USE DEF Goto, Hold, Answered
  <1>0. TypeOK /\ HoldsWhatItNeeds
    BY DEF Typing
  <1>1. UNCHANGED cache => Cached(k)' \subseteq Visible(k)
    BY DEF Cached, Visible, Lingering
  <1>2. ASSUME NEW r \in Req, Start(r) PROVE Lingering(k)' \subseteq Visible(k)
    <2>1. PICK op \in Op, s \in Server, j \in Id :
            \E body \in Bodies(op) : Submit(r, op, s, j, body)
      BY <1>2 DEF Start
    <2>2. PICK body \in Bodies(op) : Submit(r, op, s, j, body)
      BY <2>1
    <2>3. FirstPc(op) \in {"get", "bind", "delete"} /\ (FirstPc(op) = "bind" => op = "create")
      BY DEF FirstPc, Op
    <2>4. NewJob(op, s, j, body).op = op
      BY DEF NewJob
    <2>5. /\ ~Carries(r)' /\ UNCHANGED <<cache, late>>
          /\ \A q \in Req \ {r} : pc'[q] = pc[q] /\ buf'[q] = buf[q] /\ job'[q] = job[q]
      BY <1>0, <2>2, <2>3, <2>4 DEF Submit, Carries, TypeOK
    <2>6. ASSUME NEW v \in Carried(k)' PROVE v \in Visible(k)
      <3>1. PICK q \in Req : Key(q)' = k /\ Carries(q)' /\ buf'[q] = v
        BY CarriedIs
      <3>2. Key(q) = k /\ Carries(q) /\ buf[q] = v
        BY <2>5, <3>1 DEF Key, Carries
      <3>3. QED
        BY <3>2, CarriedIsVisible
    <2>7. Delayed(k)' = Delayed(k)
      BY <2>5 DEF Delayed
    <2>8. QED
      BY <1>1, <2>5, <2>6, <2>7 DEF Lingering, Visible
  <1>3. ASSUME NEW r \in Req, Disconnect(r) PROVE Lingering(k)' \subseteq Visible(k)
    <2>1. UNCHANGED <<cache, pc, job, buf, late>>
      BY <1>3 DEF Disconnect
    <2>2. Carries(r)' => Carries(r)
      BY <2>1 DEF Carries
    <2>3. QED
      BY <1>1, <2>1, <2>2, CarriedIsVisible, LingeringByOne
  <1>4. ASSUME NEW r \in Req, Resend(r) PROVE Lingering(k)' \subseteq Visible(k)
    <2> DEFINE c == CommandOf(r)
    <2>1. Carried(k)' = Carried(k)
      BY <1>4 DEF Resend, Carried, Key
    <2>2. c \in Command /\ c.id = Key(r)
      BY <1>4, CommandOfRequest DEF Resend
    <2>3. ASSUME c.val # Miss, c.id = k PROVE c.val \in Visible(k)
      <3>1. c.val = buf[r] /\ buf[r] \in Value /\ pc[r] = "set"
        BY <1>4, <2>3, CommandOfRequest DEF Resend
      <3>2. Carries(r)
        BY <3>1, FailedIsNoValue DEF Carries
      <3>3. QED
        BY <2>2, <2>3, <3>1, <3>2, CarriedIsVisible
    <2>4. Cached(k)' \subseteq Visible(k)
      <3>1. Execute(c) \/ UNCHANGED cache
        BY <1>4 DEF Resend
      <3>2. QED
        BY <1>0, <1>1, <2>2, <2>3, <3>1, ExecuteStoresVisible
    <2>5. Delayed(k)' \subseteq Visible(k)
      <3>1. late' \subseteq late \union {c}
        BY <1>4 DEF Resend
      <3>2. ASSUME NEW d \in late', d.id = k, d.val # Miss PROVE d.val \in Visible(k)
        <4>1. CASE d \in late
          BY <3>2, <4>1 DEF Delayed, Visible, Lingering
        <4>2. CASE d = c
          BY <2>3, <3>2, <4>2
        <4>3. QED
          BY <3>1, <4>1, <4>2
      <3>3. QED
        BY <3>2 DEF Delayed
    <2>6. QED
      BY <2>1, <2>4, <2>5 DEF Lingering, Visible
  <1>8. ASSUME Arrive PROVE Lingering(k)' \subseteq Visible(k)
    <2>1. PICK c \in late : Execute(c) /\ late' = late \ {c}
      BY <1>8 DEF Arrive
    <2>2. c \in Command
      BY <1>0, <2>1 DEF TypeOK
    <2>3. c.id = k /\ c.val # Miss => c.val \in Visible(k)
      BY <2>1 DEF Delayed, Visible, Lingering
    <2>4. Cached(k)' \subseteq Visible(k)
      BY <1>0, <2>1, <2>2, <2>3, ExecuteStoresVisible
    <2>5. Carried(k)' = Carried(k)
      BY <1>8 DEF Arrive, Carried, Key
    <2>6. Delayed(k)' \subseteq Delayed(k)
      BY <2>1 DEF Delayed
    <2>7. QED
      BY <2>4, <2>5, <2>6 DEF Lingering, Visible
  <1>5. ASSUME NEW j \in Id, Expire(j) PROVE Lingering(k)' \subseteq Visible(k)
    <2>1. UNCHANGED <<pc, job, buf, late>> /\ cache'[k] \in {cache[k], Miss}
      BY <1>0, <1>5 DEF Expire, RemoveEntry, TypeOK
    <2>2. Carried(k)' = Carried(k) /\ Delayed(k)' = Delayed(k)
      BY <2>1 DEF Carried, Delayed, Key
    <2>3. QED
      BY <2>1, <2>2 DEF Cached, Visible, Lingering
  <1>6. ASSUME NEW s \in Server, Crash(s) PROVE Lingering(k)' \subseteq Visible(k)
    <2>1. UNCHANGED <<cache, job, late>>
      BY <1>6 DEF Crash
    <2>2. ASSUME NEW q \in Req, Carries(q)' PROVE Carries(q) /\ buf'[q] = buf[q]
      BY <1>6, <2>1, <2>2 DEF Crash, Carries
    <2>3. Carried(k)' \subseteq Carried(k)
      BY <2>1, <2>2, CarriedIs DEF Key
    <2>4. Delayed(k)' = Delayed(k)
      BY <2>1 DEF Delayed
    <2>5. QED
      BY <1>1, <2>1, <2>3, <2>4 DEF Visible, Lingering
  <1>7. QED
    BY <1>2, <1>3, <1>4, <1>8, <1>5, <1>6, LingeringServe DEF Next

\* A step writes at most the row of one request's id, at the end of its operation;
\* a row once inserted is never without row again.
WritesRow(r) ==
  /\ \A k \in Id \ {Key(r)} : db'[k] = db[k]
  /\ db'[Key(r)] \in Row \ {NoRow}
  /\ pc'[r] \in {"del", "done"} /\ UNCHANGED job
  /\ \A q \in Req \ {r} : pc'[q] = pc[q]
  /\ \/ pc[r] = "insert" /\ db'[Key(r)] = Patched(Unset, job[r].set, job[r].stamp)
     \/ /\ pc[r] = "save"
        /\ db'[Key(r)] \in Saved(Key(r), Patched(buf[r], job[r].set, job[r].stamp))
     \/ pc[r] = "delete" /\ View(Key(r)) # NotFound /\ db'[Key(r)] = Deleted

LEMMA WriteStep ==
  ASSUME Typing, Next PROVE UNCHANGED db \/ \E r \in Req : WritesRow(r)
  <1> USE DEF Goto, Hold, Answered
  <1>0. TypeOK /\ HoldsWhatItNeeds
    BY DEF Typing
  <1>1. ASSUME NEW r \in Req, NEW row \in Row \ {NoRow}, NEW ans, Write(r, row, ans)
        PROVE  \/ UNCHANGED db
               \/ /\ \A k \in Id \ {Key(r)} : db'[k] = db[k]
                  /\ db'[Key(r)] = row
                  /\ pc'[r] \in {"del", "done"} /\ UNCHANGED job
                  /\ \A q \in Req \ {r} : pc'[q] = pc[q]
    <2>1. Key(r) \in Id
      BY <1>0 DEF Key, TypeOK, Job
    <2>2. QED
      BY <1>0, <1>1, <2>1 DEF Write, AfterWrite, TypeOK
  <1>2. ASSUME NEW p \in Product PROVE p \in Row \ {NoRow}
    BY DistinctAssumption DEF Row
  <1>3. ASSUME NEW r \in Req, Insert(r) PROVE UNCHANGED db \/ WritesRow(r)
    <2>1. job[r].stamp \in Nat
      BY <1>0 DEF TypeOK, Job
    <2>2. Patched(Unset, job[r].set, job[r].stamp) \in Row \ {NoRow}
      BY <1>2, <2>1, UnsetIsProduct, PatchIsProduct
    <2>3. QED
      BY <1>1, <1>3, <2>2 DEF Insert, WritesRow
  <1>4. ASSUME NEW r \in Req, Save(r) PROVE UNCHANGED db \/ WritesRow(r)
    <2>1. buf[r] \in Product /\ job[r].stamp \in Nat
      BY <1>0, <1>4 DEF Save, HoldsWhatItNeeds, TypeOK, Job
    <2> DEFINE saved == Saved(Key(r), Patched(buf[r], job[r].set, job[r].stamp))
    <2>2. saved \subseteq Row \ {NoRow}
      BY <1>2, <2>1, PatchIsProduct, SavedAreProducts
    <2>3. PICK new \in saved : Write(r, new, new)
      BY <1>4 DEF Save
    <2>4. new \in Row \ {NoRow} /\ pc[r] = "save"
      BY <1>4, <2>2 DEF Save
    <2>5. QED
      BY <1>1, <2>3, <2>4 DEF WritesRow
  <1>5. ASSUME NEW r \in Req, SoftDelete(r) PROVE UNCHANGED db \/ WritesRow(r)
    <2>1. Deleted \in Row \ {NoRow}
      BY DistinctAssumption DEF Row
    <2>2. QED
      BY <1>1, <1>5, <2>1 DEF SoftDelete, WritesRow
  <1>6. ASSUME NEW r \in Req, Serve(r), ~Insert(r), ~Save(r), ~SoftDelete(r)
        PROVE  UNCHANGED db
    BY <1>6 DEF Serve, CacheGet, Join, Recheck, Load, Fill, Finish, AfterRead, Bind,
                Invalidate, Lookup, Query
  <1>7. QED
    BY <1>3, <1>4, <1>5, <1>6
       DEF Next, Start, Submit, Disconnect, Resend, Expire, Arrive, Crash

\* An id without a row is found by no update and no delete.
LEMMA UnbornIsUnknown ==
  ASSUME Typing, Roles, Unborn, NEW r \in Req, db[Key(r)] = NoRow
  PROVE  pc[r] # "save" /\ View(Key(r)) = NotFound
  <1>1. Key(r) \in Id
    BY DEF Key, Typing, TypeOK, Job
  <1>2. View(Key(r)) = NotFound
    BY DEF View, Seen
  <1>3. ASSUME pc[r] = "save" PROVE FALSE
    <2>1. buf[r] \in Product /\ buf[r] # Failed /\ buf[r] # NotFound
      BY <1>3, DistinctAssumption DEF Typing, HoldsWhatItNeeds
    <2>2. buf[r] \in Carried(Key(r))
      BY <1>3, <2>1, CarriedIs DEF Carries, Roles
    <2>3. QED
      BY <1>1, <2>1, <2>2 DEF Unborn, Lingering
  <1>4. QED
    BY <1>2, <1>3

LEMMA UnbornNext == RefInv /\ [Next]_vars => Unborn'
  <1> SUFFICES ASSUME RefInv, [Next]_vars PROVE Unborn'
    OBVIOUS
  <1>1. CASE UNCHANGED vars
    BY <1>1 DEF vars, RefInv, Unborn, Lingering, Cached, Carried, Delayed, Key
  <1>2. ASSUME Next, NEW k \in Id, db'[k] = NoRow PROVE Lingering(k)' \subseteq {NotFound}
    <2>1. db[k] = NoRow
      BY <1>2, WriteStep DEF RefInv, WritesRow
    <2>2. Visible(k) \subseteq {NotFound}
      BY <2>1 DEF RefInv, Unborn, Visible, View, Seen
    <2>3. QED
      BY <1>2, <2>2, LingeringNext DEF RefInv
  <1>3. QED
    BY <1>1, <1>2 DEF Unborn

LEMMA ReservedNext == RefInv /\ [Next]_vars => Reserved'
  <1> SUFFICES ASSUME RefInv, [Next]_vars PROVE Reserved'
    OBVIOUS
  <1> USE DEF Goto, Hold, Answered
  <1>0. TypeOK /\ HoldsWhatItNeeds /\ Roles /\ Unborn /\ Reserved
    BY DEF RefInv, Typing
  <1>1. CASE UNCHANGED vars
    BY <1>0, <1>1 DEF vars, Reserved, Active, Key
  <1>2. ASSUME NEW r \in Req, Start(r) PROVE Reserved'
    <2>1. PICK op \in Op, s \in Server, k \in Id :
            \E body \in Bodies(op) : Submit(r, op, s, k, body)
      BY <1>2 DEF Start
    <2>2. PICK body \in Bodies(op) : Submit(r, op, s, k, body)
      BY <2>1
    <2>3. job'[r].op = op /\ job'[r].id = k /\ (op = "create" => Fresh(k))
      BY <1>0, <2>2 DEF Submit, NewJob, TypeOK
    <2>4. /\ UNCHANGED db
          /\ \A q \in Req \ {r} : pc'[q] = pc[q] /\ job'[q] = job[q]
      BY <1>0, <2>2 DEF Submit, TypeOK
    <2>5. FirstPc(op) = "bind" => op = "create"
      BY DEF FirstPc, Op
    <2>6. QED
      BY <1>0, <2>3, <2>4 DEF Reserved, Fresh, Active, Key
  <1>3. ASSUME Next, UNCHANGED job,
               \A q \in Req : /\ Active(q)' => Active(q)
                              /\ job[q].op = "create" /\ pc'[q] \in {"bind", "insert"}
                                   => pc[q] \in {"bind", "insert"}
        PROVE  Reserved'
    <2>1. CASE UNCHANGED db
      BY <1>0, <1>3, <2>1 DEF Reserved, Key
    <2>2. ASSUME NEW r \in Req, WritesRow(r) PROVE Reserved'
      <3>1. ASSUME NEW q \in Req, job[q].op = "create", pc'[q] \in {"bind", "insert"}
            PROVE  Key(q) # Key(r)
        <4>1. q # r /\ pc[q] \in {"bind", "insert"} /\ db[Key(q)] = NoRow
          BY <1>0, <1>3, <2>2, <3>1 DEF WritesRow, Reserved
        <4>2. CASE pc[r] = "insert"
          BY <1>0, <3>1, <4>1, <4>2 DEF Reserved, Roles, Active
        <4>3. CASE pc[r] \in {"save", "delete"}
          BY <2>2, <4>1, <4>3, UnbornIsUnknown DEF RefInv, WritesRow
        <4>4. QED
          BY <2>2, <4>2, <4>3 DEF WritesRow
      <3>2. \A q \in Req : Key(q) \in Id
        BY <1>0 DEF Key, TypeOK, Job
      <3>3. QED
        BY <1>0, <1>3, <2>2, <3>1, <3>2 DEF Reserved, WritesRow, Key
    <2>3. QED
      BY <1>3, <2>1, <2>2, WriteStep DEF RefInv
  <1>4. ASSUME NEW r \in Req, Serve(r) PROVE Reserved'
    <2>1. UNCHANGED job
      BY <1>4 DEF Serve, CacheGet, Join, Recheck, Load, Fill, Finish, AfterRead, Bind, Insert,
                  Save, SoftDelete, Invalidate, Lookup, Query, Write
    <2>2. ASSUME NEW q \in Req
          PROVE  /\ Active(q)' => Active(q)
                 /\ job[q].op = "create" /\ pc'[q] \in {"bind", "insert"}
                      => pc[q] \in {"bind", "insert"}
      <3>1. CASE Finish(r)
        BY <3>1 DEF Finish, Woken, Active
      <3>2. CASE ~Finish(r)
        <4>1. Active(r)
          BY <1>4 DEF Serve, CacheGet, Join, Recheck, Load, Fill, Finish, AfterRead, Bind,
                      Insert, Save, SoftDelete, Invalidate, Active
        <4>2. q # r => pc'[q] = pc[q]
          BY <1>0, <1>4, <3>2
             DEF Serve, CacheGet, Join, Recheck, Load, Fill, AfterRead, Bind, Insert, Save,
                 SoftDelete, Invalidate, Lookup, Query, Write, TypeOK
        <4>3. job[r].op = "create" /\ pc'[r] \in {"bind", "insert"} => pc[r] = "bind"
          BY <1>0, <1>4, <3>2
             DEF Serve, CacheGet, Join, Recheck, Load, Fill, AfterRead, Bind, Insert, Save,
                 SoftDelete, Invalidate, Lookup, Query, Write, AfterWrite, TypeOK
        <4>4. QED
          BY <4>1, <4>2, <4>3 DEF Active
      <3>3. QED
        BY <3>1, <3>2
    <2>3. Next
      BY <1>4 DEF Next
    <2>4. QED
      BY <1>3, <2>1, <2>2, <2>3
  <1>5. ASSUME Next, UNCHANGED <<pc, job>> PROVE Reserved'
    BY <1>3, <1>5 DEF Active
  <1>6. ASSUME NEW s \in Server, Crash(s) PROVE Reserved'
    <2>1. Next /\ UNCHANGED job /\ \A q \in Req : pc'[q] \in {pc[q], "done"}
      BY <1>6 DEF Next, Crash
    <2>2. QED
      BY <1>3, <2>1 DEF Active
  <1>7. QED
    BY <1>1, <1>2, <1>4, <1>5, <1>6 DEF Next, Disconnect, Resend, Expire, Arrive

-----------------------------------------------------------------------------
(* The mapping.  A step either leaves the rows alone, and then it forgets, asks or
   replies, or it writes one row, and then it commits. *)
LEMMA PromiseInit == Init => Promise!LingeringInit
  <1> SUFFICES ASSUME Init PROVE Promise!LingeringInit
    OBVIOUS
  <1>1. \A k \in Id : View(k) \in {NotFound, Unset}
    BY DEF Init, View, Seen
  <1>2. \A k \in Id : Carried(k) = {} /\ Cached(k) = {} /\ Delayed(k) = {}
    BY DEF Init, Carried, Cached, Delayed
  <1>3. viewShown = [k \in Id |-> View(k)]
    BY DEF viewShown
  <1>4. visibleShown = [k \in Id |-> {viewShown[k]}]
    BY <1>2, <1>3 DEF visibleShown
  <1>5. asked \in [Req -> Id]
    BY DEF Init, asked, Key
  <1>6. replied = [r \in Req |-> Failed]
    BY DEF Init, replied
  <1>7. viewShown \in [Id -> {NotFound, [f \in Field |-> 0]}]
    BY <1>1, <1>3 DEF Unset
  <1>8. QED
    BY <1>4, <1>5, <1>6, <1>7 DEF Promise!LingeringInit

\* The mapped variables, before and after a step.
LEMMA Shown ==
  /\ viewShown = [k \in Id |-> View(k)] /\ viewShown' = [k \in Id |-> View(k)']
  /\ visibleShown = [k \in Id |-> Visible(k)] /\ visibleShown' = [k \in Id |-> Visible(k)']
  /\ asked = [r \in Req |-> Key(r)] /\ asked' = [r \in Req |-> Key(r)']
  /\ replied = [r \in Req |-> ReplyOf(r)] /\ replied' = [r \in Req |-> ReplyOf(r)']
  <1>1. \A k : Visible(k) = {View(k)} \union Cached(k) \union Carried(k) \union Delayed(k)
    BY DEF Visible, Lingering
  <1>2. \A k : Visible(k)' = {View(k)'} \union Cached(k)' \union Carried(k)' \union Delayed(k)'
    BY DEF Visible, Lingering
  <1>3. visibleShown = [k \in Id |-> Visible(k)] /\ visibleShown' = [k \in Id |-> Visible(k)']
    BY <1>1, <1>2 DEF visibleShown
  <1>4. /\ viewShown = [k \in Id |-> View(k)] /\ viewShown' = [k \in Id |-> View(k)']
        /\ asked = [r \in Req |-> Key(r)] /\ asked' = [r \in Req |-> Key(r)']
    BY DEF viewShown, asked
  <1>5. replied = [r \in Req |-> ReplyOf(r)] /\ replied' = [r \in Req |-> ReplyOf(r)']
    BY DEF replied, ReplyOf
  <1>6. QED
    BY <1>3, <1>4, <1>5

\* The rows stay and nothing new lingers.
LEMMA SettlesNothing ==
  ASSUME \A k \in Id : Lingering(k)' \subseteq Visible(k) /\ View(k)' = View(k)
  PROVE  Promise!Settle(Promise!Nothing) /\ UNCHANGED viewShown
  <1>1. \A k \in Id : Visible(k)' \subseteq Visible(k) /\ View(k)' \in Visible(k)'
    BY DEF Visible
  <1>2. QED
    BY <1>1, Shown DEF Promise!Settle, Promise!Nothing

LEMMA PromiseForget ==
  ASSUME \A k \in Id : Lingering(k)' \subseteq Visible(k) /\ View(k)' = View(k),
         \A r \in Req : Key(r)' = Key(r) /\ ReplyOf(r)' = ReplyOf(r)
  PROVE  Promise!LingeringNext
  <1>1. UNCHANGED <<asked, replied>>
    BY Shown
  <1>2. QED
    BY <1>1, SettlesNothing DEF Promise!LingeringNext, Promise!Forget

\* A client sends a request.
LEMMA PromiseStart ==
  ASSUME RefInv, NEW r \in Req, Start(r) PROVE Promise!LingeringNext
  <1>0. TypeOK
    BY DEF RefInv, Typing
  <1>1. PICK op \in Op, s \in Server, k \in Id :
          \E body \in Bodies(op) : Submit(r, op, s, k, body)
    BY DEF Start
  <1>2. PICK body \in Bodies(op) : Submit(r, op, s, k, body)
    BY <1>1
  <1>3. FirstPc(op) \in {"get", "bind", "delete"} /\ (FirstPc(op) = "bind" => op = "create")
    BY DEF FirstPc, Op
  <1>4. /\ UNCHANGED <<db, cache, late>> /\ pc'[r] = FirstPc(op) /\ job'[r] = NewJob(op, s, k, body)
        /\ \A q \in Req \ {r} : pc'[q] = pc[q] /\ buf'[q] = buf[q] /\ job'[q] = job[q]
    BY <1>0, <1>2 DEF Submit, TypeOK
  <1>5. job'[r].op = op /\ Key(r)' = k
    BY <1>4 DEF NewJob, Key
  <1>6. \A j \in Id : View(j)' = View(j) /\ Cached(j)' = Cached(j) /\ Delayed(j)' = Delayed(j)
    BY <1>4 DEF View, Cached, Delayed
  <1>7. ~Carries(r) /\ ~Carries(r)'
    BY <1>3, <1>4, <1>5 DEF Carries, Start, Active
  <1>8. ASSUME NEW j \in Id PROVE Carried(j)' = Carried(j)
    <2>1. \A v : v \in Carried(j)' <=> v \in Carried(j)
      BY <1>4, <1>7, CarriedIs DEF Key, Carries
    <2>2. QED
      BY <2>1
  <1>9. UNCHANGED <<viewShown, visibleShown>>
    BY <1>6, <1>8, Shown DEF Visible, Lingering
  <1>10. /\ \A q \in Req \ {r} : Key(q)' = Key(q) /\ ReplyOf(q)' = ReplyOf(q)
         /\ ReplyOf(r)' = Failed
    BY <1>3, <1>4 DEF Key, ReplyOf
  <1>11. Promise!Asking(r)
    BY <1>5, <1>9, <1>10, Shown DEF Promise!Asking
  <1>12. QED
    BY <1>11 DEF Promise!LingeringNext

\* A step that writes a row commits its value.
LEMMA PatchesBody ==
  ASSUME NEW base \in Product, NEW body \in SUBSET Field, NEW s, NEW k,
         NEW v \in Saved(k, Patched(base, body, s))
  PROVE  \E lost \in SUBSET (IF View(k) = NotFound THEN Defaulted ELSE {}) :
            Promise!PatchOf(v, base, lost)
  <1> DEFINE new == Patched(base, body, s)
  <1>1. /\ \A f \in Field \ body : new[f] = base[f]
        /\ \A f, g \in body : new[f] = new[g]
    BY DEF Patched
  <1>2. CASE View(k) # NotFound
    <2>1. v = new
      BY <1>2 DEF Saved
    <2>2. Promise!PatchOf(v, base, {})
      BY <1>1, <2>1 DEF Promise!PatchOf
    <2>3. QED
      BY <2>2
  <1>3. CASE View(k) = NotFound
    <2>1. PICK lost \in SUBSET Defaulted : v = [f \in Field |-> IF f \in lost THEN 0 ELSE new[f]]
      BY <1>3 DEF Saved
    <2>2. lost \subseteq Field
      BY <2>1, FieldAssumption
    <2>3. /\ \A f \in lost : v[f] = 0
          /\ \A f \in Field \ lost : v[f] = new[f]
      BY <2>1, <2>2
    <2>4. /\ \A f \in Field \ (body \union lost) : v[f] = base[f]
          /\ \A f, g \in body \ lost : v[f] = v[g]
      BY <1>1, <2>3
    <2>5. Promise!PatchOf(v, base, lost)
      BY <2>3, <2>4 DEF Promise!PatchOf
    <2>6. QED
      BY <1>3, <2>5
  <1>4. QED
    BY <1>2, <1>3

\* Only the end of a read replies.
LEMMA RepliesStay ==
  ASSUME RefInv, Next, \A r \in Req : ~Start(r) /\ ~AfterRead(r), NEW q \in Req
  PROVE  Key(q)' = Key(q) /\ ReplyOf(q)' = ReplyOf(q)
  <1> USE DEF Goto, Hold, Answered
  <1>0. TypeOK /\ HoldsWhatItNeeds /\ Roles
    BY DEF RefInv, Typing
  <1>1. UNCHANGED job
    BY DEF Next, Serve, CacheGet, Join, Recheck, Load, Fill, Finish, Bind, Insert, Save,
           SoftDelete, Invalidate, Lookup, Query, Write, Disconnect, Resend, Expire, Arrive,
           Crash
  <1>2. CASE job[q].op # "get"
    BY <1>1, <1>2 DEF Key, ReplyOf
  <1>3. CASE UNCHANGED <<pc, buf>>
    BY <1>1, <1>3 DEF Key, ReplyOf
  <1>4. ASSUME NEW s \in Server, Crash(s) PROVE ReplyOf(q)' = ReplyOf(q)
    BY <1>1, <1>4 DEF Crash, ReplyOf, Lost, Active
  <1>5. ASSUME NEW r \in Req, Serve(r), job[q].op = "get" PROVE ReplyOf(q)' = ReplyOf(q)
    <2>1. CASE Finish(r)
      BY <1>1, <2>1 DEF Finish, Woken, ReplyOf
    <2>2. CASE ~Finish(r) /\ q # r
      <3>1. pc'[q] = pc[q] /\ buf'[q] = buf[q]
        BY <1>0, <1>5, <2>2
           DEF Serve, CacheGet, Join, Recheck, Load, Fill, Bind, Insert, Save, SoftDelete,
               Invalidate, Lookup, Query, Write, TypeOK
      <3>2. QED
        BY <1>1, <3>1 DEF ReplyOf
    <2>3. CASE ~Finish(r) /\ q = r
      <3>1. CacheGet(r) \/ Join(r) \/ Recheck(r) \/ Load(r) \/ Fill(r)
        BY <1>0, <1>5, <2>3
           DEF Serve, Bind, Insert, Save, SoftDelete, Invalidate, Roles, HoldsWhatItNeeds
      <3>2. pc[r] # "done" /\ pc'[r] # "done"
        BY <1>0, <3>1 DEF CacheGet, Join, Recheck, Load, Fill, Lookup, Query, TypeOK
      <3>3. QED
        BY <2>3, <3>2 DEF ReplyOf
    <2>4. QED
      BY <2>1, <2>2, <2>3
  <1>6. Key(q)' = Key(q)
    BY <1>1 DEF Key
  <1>7. QED
    BY <1>2, <1>3, <1>4, <1>5, <1>6 DEF Next, Disconnect, Resend, Expire, Arrive

LEMMA PromiseCommit ==
  ASSUME RefInv, Next, \A q \in Req : ~Start(q) /\ ~AfterRead(q), NEW r \in Req, WritesRow(r)
  PROVE  Promise!LingeringNext
  <1>0. TypeOK /\ HoldsWhatItNeeds /\ Roles /\ Reserved
    BY DEF RefInv, Typing
  <1>1. PICK k \in Id : k = Key(r)
    BY <1>0 DEF Key, TypeOK, Job
  <1>2. UNCHANGED <<asked, replied>>
    BY RepliesStay, Shown
  <1>3. \A j \in Id \ {k} : View(j)' = View(j)
    BY <1>1 DEF WritesRow, View
  <1>4. job[r].set \in SUBSET Field
    BY <1>0 DEF TypeOK, Job
  <1>5. ASSUME NEW p \in Product, db'[k] = p PROVE View(k)' = p /\ p # NotFound
    BY <1>5, DistinctAssumption DEF View, Seen
  <1>6. Promise!Written(k, View(k)')
    <2>1. CASE pc[r] = "delete"
      <3>1. View(k)' = NotFound
        BY <1>1, <2>1 DEF WritesRow, View, Seen
      <3>2. QED
        BY <3>1 DEF Promise!Written
    <2>2. CASE pc[r] = "insert"
      <3>1. job[r].op = "create" /\ job[r].set = Field /\ View(k) = NotFound
        BY <1>0, <1>1, <2>2 DEF Roles, Reserved, View, Seen
      <3>2. job[r].stamp \in Nat
        BY <1>0 DEF TypeOK, Job
      <3>3. PICK p \in Product : p = Patched(Unset, Field, job[r].stamp)
        BY <3>2, UnsetIsProduct, PatchIsProduct
      <3>4. \A f, g \in Field : p[f] = p[g]
        BY <3>3 DEF Patched
      <3>5. View(k)' = p /\ p # NotFound
        BY <1>1, <1>5, <2>2, <3>1, <3>3 DEF WritesRow
      <3>6. QED
        BY <3>1, <3>4, <3>5, Shown DEF Promise!Written
    <2>3. CASE pc[r] = "save"
      <3>1. buf[r] \in Product /\ buf[r] # Failed /\ buf[r] # NotFound /\ job[r].stamp \in Nat
        BY <1>0, <2>3, DistinctAssumption DEF HoldsWhatItNeeds, TypeOK, Job
      <3>2. buf[r] \in Visible(k)
        BY <1>0, <1>1, <2>3, <3>1, CarriedIsVisible DEF Carries, Roles
      <3>3. PICK p \in Saved(k, Patched(buf[r], job[r].set, job[r].stamp)) : db'[k] = p
        BY <1>1, <2>3 DEF WritesRow
      <3>4. p \in Product
        BY <3>1, <3>3, PatchIsProduct, SavedAreProducts
      <3>5. View(k)' = p /\ p # NotFound
        BY <1>5, <3>3, <3>4
      <3>6. \E lost \in SUBSET (IF View(k) = NotFound THEN Defaulted ELSE {}) :
               Promise!PatchOf(p, buf[r], lost)
        BY <1>4, <3>1, <3>3, PatchesBody
      <3>7. viewShown[k] = View(k) /\ visibleShown[k] = Visible(k)
        BY Shown
      <3>8. QED
        BY <3>1, <3>2, <3>5, <3>6, <3>7 DEF Promise!Written
    <2>4. QED
      BY <2>1, <2>2, <2>3 DEF WritesRow
  <1>7. \A j \in Id : Lingering(j)' \subseteq Visible(j)
    BY LingeringNext DEF RefInv
  <1>8. /\ \A j \in Id \ {k} : Visible(j)' \subseteq Visible(j)
        /\ Visible(k)' \subseteq Visible(k) \union {View(k)'}
        /\ \A j \in Id : View(j)' \in Visible(j)'
    BY <1>3, <1>7 DEF Visible
  <1>9. Promise!Settle([Promise!Nothing EXCEPT ![k] = {viewShown'[k]}])
    BY <1>8, Shown DEF Promise!Settle, Promise!Nothing
  <1>10. Promise!Commit(k)
    BY <1>2, <1>3, <1>6, <1>9, Shown DEF Promise!Commit
  <1>11. QED
    BY <1>10 DEF Promise!LingeringNext

\* A read ends: its reply was visible.  An update goes on, or ends without reply.
LEMMA PromiseRead ==
  ASSUME RefInv, NEW r \in Req, AfterRead(r) PROVE Promise!LingeringNext
  <1> USE DEF Goto
  <1>0. TypeOK /\ HoldsWhatItNeeds /\ Next
    BY DEF RefInv, Typing, Next, Serve
  <1>1. /\ UNCHANGED <<db, job, buf>> /\ pc[r] = "got" /\ pc'[r] \in {"bind", "done"}
        /\ \A q \in Req \ {r} : pc'[q] = pc[q]
    BY <1>0 DEF AfterRead, TypeOK
  <1>2. \A k \in Id : View(k)' = View(k) /\ Lingering(k)' \subseteq Visible(k)
    BY <1>0, <1>1, LingeringNext DEF RefInv, View
  <1>3. \A q \in Req : Key(q)' = Key(q)
    BY <1>1 DEF Key
  <1>4. \A q \in Req \ {r} : ReplyOf(q)' = ReplyOf(q)
    BY <1>1 DEF ReplyOf
  <1>5. CASE ReplyOf(r)' = ReplyOf(r)
    BY <1>2, <1>3, <1>4, <1>5, PromiseForget
  <1>6. CASE ReplyOf(r)' # ReplyOf(r)
    <2>1. ReplyOf(r) = Failed /\ ReplyOf(r)' = buf[r] /\ buf[r] # Failed
      BY <1>1, <1>6 DEF ReplyOf
    <2>2. buf[r] \in Visible(Key(r)) /\ Key(r) \in Id
      BY <1>0, <1>1, <2>1, CarriedIsVisible DEF Carries, Key, TypeOK, Job
    <2>3. UNCHANGED asked
      BY <1>3, Shown
    <2>4. Promise!Reply(r)
      BY <1>2, <1>4, <2>1, <2>2, <2>3, SettlesNothing, Shown DEF Promise!Reply
    <2>5. QED
      BY <2>4 DEF Promise!LingeringNext
  <1>7. QED
    BY <1>5, <1>6

LEMMA PromiseStep ==
  RefInv /\ [Next]_vars => [Promise!LingeringNext]_(Promise!lvars)
  <1> SUFFICES ASSUME RefInv, [Next]_vars PROVE [Promise!LingeringNext]_(Promise!lvars)
    OBVIOUS
  <1>1. CASE UNCHANGED vars
    <2>1. /\ \A k \in Id : View(k)' = View(k) /\ Visible(k)' = Visible(k)
          /\ \A r \in Req : Key(r)' = Key(r) /\ ReplyOf(r)' = ReplyOf(r)
      BY <1>1 DEF vars, View, Visible, Lingering, Cached, Carried, Delayed, Key, ReplyOf
    <2>2. UNCHANGED <<viewShown, visibleShown, asked, replied>>
      BY <2>1, Shown
    <2>3. QED
      BY <2>2 DEF Promise!lvars
  <1>2. CASE Next
    <2>1. CASE \E r \in Req : Start(r)
      BY <2>1, PromiseStart
    <2>2. CASE \E r \in Req : AfterRead(r)
      BY <2>2, PromiseRead
    <2>3. CASE \A r \in Req : ~Start(r) /\ ~AfterRead(r)
      <3>1. CASE \E r \in Req : WritesRow(r)
        BY <1>2, <2>3, <3>1, PromiseCommit
      <3>2. CASE UNCHANGED db
        <4>1. \A k \in Id : View(k)' = View(k) /\ Lingering(k)' \subseteq Visible(k)
          BY <1>2, <3>2, LingeringNext DEF RefInv, View
        <4>2. QED
          BY <1>2, <2>3, <4>1, RepliesStay, PromiseForget
      <3>3. QED
        BY <1>2, <3>1, <3>2, WriteStep DEF RefInv
    <2>4. QED
      BY <2>1, <2>2, <2>3
  <1>3. QED
    BY <1>1, <1>2

\* Whatever fails, crashes, is cancelled or sent again: the endpoints implement the
\* store of LingeringStore, in which a read answers what is current or still lingers
\* and an update is based on such a value.
THEOREM EndpointsKeepPromise == Spec => KeepsPromise
  <1>1. Init => RefInv
    BY TypingInit, RefInit DEF RefInv
  <1>2. RefInv /\ [Next]_vars => RefInv'
    BY TypingNext, RolesNext, ReservedNext, UnbornNext DEF RefInv
  <1>3. QED
    BY <1>1, <1>2, PromiseInit, PromiseStep, PTL DEF Spec, KeepsPromise, Promise!LingeringSpec

=============================================================================
