-------------------------- MODULE HealthCheckProofs --------------------------
(* Proofs about HealthCheck, for every time to live and number of requests. *)
EXTENDS HealthCheck, TLAPS

PcSet == Idle \union Dep \union {"lookup", "store"}

LEMMA TypingInit == Init => TypeOK
  BY TtlAssumption DEF Init, TypeOK, Idle

LEMMA TypingNext == TypeOK /\ [Next]_vars => TypeOK'
  <1> SUFFICES ASSUME TypeOK, [Next]_vars PROVE TypeOK'
    OBVIOUS
  <1> USE DEF hist, PcSet
  <1>0. \A b \in BOOLEAN : Answer(b) \in PcSet
    BY DEF Answer, Idle
  <1>1. CASE UNCHANGED vars
    BY <1>1 DEF vars, TypeOK
  <1>2. ASSUME NEW p \in Probe, Arrive(p) PROVE TypeOK'
    BY <1>2 DEF Arrive, TypeOK
  <1>3. ASSUME NEW p \in Probe, Lookup(p) PROVE TypeOK'
    <2>1. pc' \in [Probe -> PcSet]
      BY <1>0, <1>3 DEF Lookup, TypeOK, Dep
    <2>2. QED
      BY <1>3, <2>1 DEF Lookup, TypeOK
  <1>4. ASSUME NEW p \in Probe, Ping(p) PROVE TypeOK'
    <2>1. pc' \in [Probe -> PcSet]
      BY <1>4 DEF Ping, TypeOK, Dep
    <2>2. result' \in [Probe -> BOOLEAN]
      <3>1. Works(p, pc[p]) \in BOOLEAN
        BY DEF Works
      <3>2. QED
        BY <1>4, <3>1, Zenon DEF Ping, TypeOK
    <2>3. QED
      BY <1>4, <2>1, <2>2 DEF Ping, TypeOK
  <1>5. ASSUME NEW p \in Probe, Store(p) PROVE TypeOK'
    <2>1. pc' \in [Probe -> PcSet]
      BY <1>0, <1>5 DEF Store, TypeOK
    <2>2. PICK b \in BOOLEAN : b = result[p]
      BY Zenon DEF TypeOK
    <2>3. PICK t \in Nat : t = start[p] /\ t <= now
      BY DEF TypeOK
    <2>4. cached' = [at |-> t, ok |-> b]
      BY <1>5, <2>2, <2>3 DEF Store, TimeOf
    <2>5. cached' \in [at : Int, ok : BOOLEAN] /\ cached'.at <= now
      BY <2>3, <2>4
    <2>6. QED
      BY <1>5, <2>1, <2>5 DEF Store, TypeOK
  <1>6. ASSUME NEW p \in Probe, Disconnect(p) PROVE TypeOK'
    BY <1>6 DEF Disconnect, TypeOK, Cause
  <1>7. ASSUME NEW d \in Dep, Toggle(d) PROVE TypeOK'
    <2>1. up' \in [Dep -> BOOLEAN]
      BY <1>7 DEF Toggle, TypeOK
    <2>2. upAt' \in [Dep -> Int] /\ downAt' \in [Cause -> Int]
      BY <1>7 DEF Toggle, TypeOK, Cause
    <2>3. QED
      BY <1>7, <2>1, <2>2 DEF Toggle, TypeOK
  <1>8. CASE Tick
    <2>1. upAt' \in [Dep -> Int]
      BY <1>8 DEF Tick, TypeOK
    <2>2. downAt' \in [Cause -> Int]
      BY <1>8 DEF Tick, TypeOK
    <2>3. QED
      BY <1>8, <2>1, <2>2 DEF Tick, TypeOK
  <1>9. QED
    BY <1>1, <1>2, <1>3, <1>4, <1>5, <1>6, <1>7, <1>8 DEF Next

\* Every variable keeps its type, and no recorded time is ever in the future.
THEOREM TypeCorrect == Spec => []TypeOK
  BY TypingInit, TypingNext, PTL DEF Spec

-----------------------------------------------------------------------------
(* A healthy result, cached or about to be stored, was true when its check ran. *)
HealthyInv ==
  /\ \A d \in Dep : upAt[d] <= now /\ (up[d] => upAt[d] = now)
  /\ cached.ok => \A d \in Dep : cached.at <= upAt[d]
  /\ \A p \in Probe : pc[p] = "redis" => start[p] <= upAt["mysql"]
  /\ \A p \in Probe : pc[p] = "store" /\ result[p] => \A d \in Dep : start[p] <= upAt[d]

LEMMA HealthyInit == Init => HealthyInv
  BY DEF Init, HealthyInv

\* The last time a dependency was up never moves back.
LEMMA UpAtGrows ==
  ASSUME TypeOK, HealthyInv, [Next]_vars, NEW d \in Dep
  PROVE  upAt[d] <= upAt'[d] /\ upAt'[d] <= now' /\ (up'[d] => upAt'[d] = now')
  <1> USE DEF hist
  <1>1. upAt[d] \in Int /\ now \in Int /\ upAt[d] <= now /\ (up[d] => upAt[d] = now)
    BY DEF TypeOK, HealthyInv
  <1>2. CASE Tick
    BY <1>1, <1>2 DEF Tick, TypeOK
  <1>3. ASSUME NEW e \in Dep, Toggle(e) PROVE upAt[d] <= upAt'[d] /\ upAt'[d] <= now' /\ (up'[d] => upAt'[d] = now')
    <2>1. CASE d = e
      <3>1. CASE up[d]
        BY <1>1, <1>3, <2>1, <3>1 DEF Toggle, TypeOK
      <3>2. CASE ~up[d]
        <4>1. upAt'[d] = now /\ now' = now
          BY <1>3, <2>1, <3>2 DEF Toggle, TypeOK
        <4>2. QED
          BY <1>1, <4>1, <3>2
      <3>3. QED
        BY <3>1, <3>2
    <2>2. CASE d # e
      BY <1>1, <1>3, <2>2 DEF Toggle, TypeOK
    <2>3. QED
      BY <2>1, <2>2
  <1>4. CASE UNCHANGED <<now, up, upAt>>
    BY <1>1, <1>4
  <1>5. QED
    BY <1>2, <1>3, <1>4 DEF Next, vars, Arrive, Lookup, Ping, Store, Disconnect

LEMMA HealthyNext == TypeOK /\ HealthyInv /\ [Next]_vars => HealthyInv'
  <1> SUFFICES ASSUME TypeOK, HealthyInv, [Next]_vars PROVE HealthyInv'
    OBVIOUS
  <1>1. \A d \in Dep : upAt[d] <= upAt'[d] /\ upAt'[d] <= now' /\ (up'[d] => upAt'[d] = now')
    BY UpAtGrows
  <1>2. /\ upAt \in [Dep -> Int] /\ upAt' \in [Dep -> Int] /\ start \in [Probe -> Nat]
        /\ cached.at \in Int
    BY TypingNext DEF TypeOK
  <1>3. CASE UNCHANGED <<cached, pc, start, result>>
    BY <1>1, <1>2, <1>3 DEF HealthyInv, Dep
  <1>4. ASSUME NEW p \in Probe, Arrive(p) PROVE HealthyInv'
    BY <1>1, <1>2, <1>4 DEF Arrive, HealthyInv, hist, TypeOK, Idle, Dep
  <1>5. ASSUME NEW p \in Probe, Lookup(p) PROVE HealthyInv'
    <2>1. pc' = [pc EXCEPT ![p] = pc'[p]] /\ pc'[p] \notin {"redis", "store"}
      BY <1>5 DEF Lookup, TypeOK, Answer
    <2>2. QED
      BY <1>1, <1>2, <1>5, <2>1 DEF Lookup, HealthyInv, hist, TypeOK
  <1>6. ASSUME NEW p \in Probe, Ping(p) PROVE HealthyInv'
    <2>1. UNCHANGED <<upAt, cached, start, up, now>>
      BY <1>6 DEF Ping, hist
    <2>2. ASSUME NEW q \in Probe \ {p} PROVE pc'[q] = pc[q] /\ result'[q] = result[q]
      BY <1>6 DEF Ping, TypeOK
    <2>3. start[p] <= now
      BY DEF TypeOK
    <2>4. pc'[p] = "redis" => start[p] <= upAt["mysql"]
      BY <1>6, <2>3 DEF Ping, HealthyInv, TypeOK, Works, Dep
    <2>5. ASSUME pc'[p] = "store", result'[p], NEW d \in Dep PROVE start[p] <= upAt[d]
      <3>1. Works(p, pc[p])
        BY <1>6, <2>5 DEF Ping, TypeOK
      <3>2. pc[p] = "redis"
        BY <1>6, <2>5, <3>1 DEF Ping, TypeOK, Dep
      <3>3. start[p] <= upAt["mysql"] /\ start[p] <= upAt["redis"]
        BY <2>3, <3>1, <3>2 DEF Works, HealthyInv, Dep
      <3>4. QED
        BY <3>3 DEF Dep
    <2>6. \A q \in Probe : pc'[q] = "redis" => start'[q] <= upAt'["mysql"]
      BY <2>1, <2>2, <2>4 DEF HealthyInv
    <2>7. \A q \in Probe : pc'[q] = "store" /\ result'[q] => \A d \in Dep : start'[q] <= upAt'[d]
      BY <2>1, <2>2, <2>5 DEF HealthyInv
    <2>8. QED
      BY <2>1, <2>6, <2>7 DEF HealthyInv
  <1>7. ASSUME NEW p \in Probe, Store(p) PROVE HealthyInv'
    <2>1. cached'.at = start[p] /\ cached'.ok = result[p]
      BY <1>7 DEF Store, TimeOf
    <2>2. UNCHANGED <<upAt, start, result, up, now>>
      BY <1>7 DEF Store, hist
    <2>3. \A q \in Probe : pc'[q] \in {"redis", "store"} => pc'[q] = pc[q]
      BY <1>7 DEF Store, TypeOK, Answer
    <2>4. pc[p] = "store"
      BY <1>7 DEF Store
    <2>5. QED
      BY <2>1, <2>2, <2>3, <2>4 DEF HealthyInv
  <1>8. QED
    BY <1>3, <1>4, <1>5, <1>6, <1>7 DEF Next, vars, Disconnect, Toggle, Tick

\* However the checks overlap, a healthy answer is true of the last second.
THEOREM HealthyAnswersAreRecent == Spec => HealthyIsRecent
  <1>1. TypeOK /\ HealthyInv /\ [Next]_vars =>
          [\A p \in Probe : Answers(p, "healthy") => \A d \in Dep : upAt[d] > start[p] - Ttl]_vars
    <2> SUFFICES ASSUME TypeOK, HealthyInv, Next, NEW p \in Probe, Answers(p, "healthy"),
                        NEW d \in Dep
                 PROVE  upAt[d] > start[p] - Ttl
      BY DEF vars
    <2>1. upAt[d] \in Int /\ start[p] \in Int /\ cached.at \in Int /\ Ttl \in Int /\ Ttl > 0
      BY TtlAssumption DEF TypeOK
    <2>2. CASE Lookup(p)
      <3>1. Fresh(cached.at, start[p]) /\ cached.ok
        BY <2>2 DEF Lookup, Answers, Answer, TypeOK
      <3>2. QED
        BY <2>1, <3>1 DEF Fresh, HealthyInv
    <2>3. CASE Store(p)
      <3>1. pc[p] = "store" /\ result[p]
        BY <2>3 DEF Store, Answers, Answer, TypeOK
      <3>2. QED
        BY <2>1, <3>1 DEF HealthyInv
    <2>4. Lookup(p) \/ Store(p)
      BY DEF Next, Answers, Arrive, Lookup, Ping, Store, Disconnect, Toggle, Tick, TypeOK, Idle, Dep
    <2>5. QED
      BY <2>2, <2>3, <2>4
  <1>2. QED
    BY TypingInit, TypingNext, HealthyInit, HealthyNext, <1>1, PTL DEF Spec, HealthyIsRecent

-----------------------------------------------------------------------------
(* An unhealthy result, cached or about to be stored, had a cause when its check ran. *)
SomeDownSince(t) == \E d \in Cause : t <= downAt[d]

UnhealthyInv ==
  /\ \A d \in Cause : downAt[d] <= now /\ (Failing(d) => downAt[d] = now)
  /\ ~cached.ok => SomeDownSince(cached.at)
  /\ \A p \in Probe : pc[p] = "store" /\ ~result[p] => SomeDownSince(start[p])

LEMMA UnhealthyInit == Init => UnhealthyInv
  <1>1. Init /\ ~cached.ok => SomeDownSince(cached.at)
    <2>1. "mysql" \in Cause
      BY DEF Dep, Cause
    <2>2. QED
      BY <2>1, TtlAssumption DEF Init, SomeDownSince
  <1>2. QED
    BY <1>1, TtlAssumption DEF Init, UnhealthyInv, Failing

\* The last time a cause of failure was there never moves back.
LEMMA DownAtGrows ==
  ASSUME TypeOK, UnhealthyInv, [Next]_vars, NEW d \in Cause
  PROVE  downAt[d] <= downAt'[d] /\ downAt'[d] <= now' /\ (Failing(d)' => downAt'[d] = now')
  <1> USE DEF hist
  <1> DEFINE Goal == downAt[d] <= downAt'[d] /\ downAt'[d] <= now' /\ (Failing(d)' => downAt'[d] = now')
  <1>1. downAt[d] \in Int /\ now \in Int /\ downAt[d] <= now /\ (Failing(d) => downAt[d] = now)
    BY DEF TypeOK, UnhealthyInv
  <1>2. CASE Tick
    <2>1. now' = now + 1 /\ downAt'[d] = IF Failing(d) THEN now + 1 ELSE downAt[d]
      BY <1>2 DEF Tick, TypeOK
    <2>2. Failing(d)' = Failing(d)
      BY <1>2 DEF Tick, Failing
    <2>3. QED
      BY <1>1, <2>1, <2>2
  <1>3. ASSUME NEW e \in Dep, Toggle(e) PROVE Goal
    <2>1. now' = now /\ downAt'[d] \in {downAt[d], now}
      BY <1>3 DEF Toggle, TypeOK, Cause
    <2>2. CASE d = e
      <3>1. Failing(d)' => up[d]
        BY <1>3, <2>2 DEF Toggle, TypeOK, Failing
      <3>2. up[d] => downAt'[d] = now
        BY <1>3, <2>2 DEF Toggle, TypeOK
      <3>3. QED
        BY <1>1, <2>1, <3>1, <3>2
    <2>3. CASE d # e
      <3>1. Failing(d)' = Failing(d) /\ downAt'[d] = downAt[d]
        BY <1>3, <2>3 DEF Toggle, TypeOK, Failing, Cause
      <3>2. QED
        BY <1>1, <2>1, <3>1
    <2>4. QED
      BY <2>2, <2>3
  <1>4. ASSUME NEW p \in Probe, Disconnect(p) PROVE Goal
    <2>1. now' = now /\ downAt'[d] = (IF d = "client" THEN now ELSE downAt[d])
      BY <1>4 DEF Disconnect, TypeOK
    <2>2. CASE d = "client"
      BY <1>1, <2>1, <2>2
    <2>3. CASE d # "client"
      <3>1. Failing(d)' = Failing(d)
        BY <1>4, <2>3 DEF Disconnect, Failing, Cause
      <3>2. QED
        BY <1>1, <2>1, <2>3, <3>1
    <2>4. QED
      BY <2>2, <2>3
  <1>5. ASSUME NEW p \in Probe, Arrive(p) \/ Lookup(p) \/ Ping(p) \/ Store(p) PROVE Goal
    <2>1. UNCHANGED <<now, up, downAt>>
      BY <1>5 DEF Arrive, Lookup, Ping, Store
    <2>2. ASSUME NEW q \in Probe, gone'[q], pc'[q] \notin Idle PROVE gone[q] /\ pc[q] \notin Idle
      BY <1>5, <2>2 DEF Arrive, Lookup, Ping, Store, TypeOK, Idle, Dep
    <2>3. Failing(d)' => Failing(d)
      BY <2>1, <2>2 DEF Failing
    <2>4. QED
      BY <1>1, <2>1, <2>3
  <1>6. CASE UNCHANGED vars
    <2>1. Failing(d)' = Failing(d) /\ UNCHANGED <<now, downAt>>
      BY <1>6 DEF vars, Failing
    <2>2. QED
      BY <1>1, <2>1
  <1>7. QED
    BY <1>2, <1>3, <1>4, <1>5, <1>6 DEF Next

LEMMA UnhealthyNext == TypeOK /\ UnhealthyInv /\ [Next]_vars => UnhealthyInv'
  <1> SUFFICES ASSUME TypeOK, UnhealthyInv, [Next]_vars PROVE UnhealthyInv'
    OBVIOUS
  <1>1. \A d \in Cause : /\ downAt[d] <= downAt'[d] /\ downAt'[d] <= now'
                         /\ (Failing(d)' => downAt'[d] = now')
    BY DownAtGrows
  <1>2. /\ downAt \in [Cause -> Int] /\ downAt' \in [Cause -> Int] /\ start \in [Probe -> Nat]
        /\ cached.at \in Int
    BY TypingNext DEF TypeOK
  <1>3. \A t \in Int : SomeDownSince(t) => SomeDownSince(t)'
    BY <1>1, <1>2 DEF SomeDownSince
  <1>5. CASE UNCHANGED <<cached, pc, start, result>>
    <2>1. ~cached'.ok => SomeDownSince(cached.at)'
      BY <1>2, <1>3, <1>5 DEF UnhealthyInv
    <2>2. ASSUME NEW p \in Probe, pc'[p] = "store", ~result'[p] PROVE SomeDownSince(start[p])'
      BY <1>2, <1>3, <1>5, <2>2 DEF UnhealthyInv
    <2>3. QED
      BY <1>1, <2>1, <2>2 DEF UnhealthyInv
  <1>6. ASSUME NEW p \in Probe, Arrive(p) \/ Lookup(p) PROVE UnhealthyInv'
    <2>1. UNCHANGED <<cached, result>>
      BY <1>6 DEF Arrive, Lookup
    <2>2. ASSUME NEW q \in Probe, pc'[q] = "store" PROVE pc[q] = "store" /\ start'[q] = start[q]
      BY <1>6, <2>2 DEF Arrive, Lookup, Answer, TypeOK, Idle
    <2>3. ~cached'.ok => SomeDownSince(cached.at)'
      BY <1>2, <1>3, <2>1 DEF UnhealthyInv
    <2>4. ASSUME NEW q \in Probe, pc'[q] = "store", ~result'[q] PROVE SomeDownSince(start[q])'
      BY <1>2, <1>3, <2>1, <2>2, <2>4 DEF UnhealthyInv
    <2>5. QED
      BY <1>1, <2>3, <2>4 DEF UnhealthyInv
  <1>7. ASSUME NEW p \in Probe, Ping(p) PROVE UnhealthyInv'
    <2>1. UNCHANGED <<cached, start, downAt>>
      BY <1>7 DEF Ping, hist
    <2>2. ~cached'.ok => SomeDownSince(cached.at)'
      BY <1>2, <1>3, <2>1 DEF UnhealthyInv
    <2>3. ASSUME NEW q \in Probe, pc'[q] = "store", ~result'[q] PROVE SomeDownSince(start[q])'
      <3>1. CASE q = p
        <4>1. pc[p] \in Dep /\ (~up[pc[p]] \/ gone[p])
          BY <1>7, <2>3, <3>1 DEF Ping, Works, TypeOK
        <4>2. PICK d \in Cause : Failing(d)
          <5>1. ~up[pc[p]] => Failing(pc[p]) /\ pc[p] \in Cause
            BY <4>1 DEF Failing, Cause
          <5>2. gone[p] => Failing("client") /\ "client" \in Cause
            BY <4>1 DEF Failing, Cause, Dep, Idle
          <5>3. QED
            BY <4>1, <5>1, <5>2
        <4>3. start[p] <= downAt[d]
          BY <4>2 DEF TypeOK, UnhealthyInv
        <4>4. QED
          BY <2>1, <3>1, <4>3 DEF SomeDownSince
      <3>2. CASE q # p
        <4>1. pc[q] = "store" /\ ~result[q]
          BY <1>7, <2>3, <3>2 DEF Ping, TypeOK
        <4>2. QED
          BY <1>2, <1>3, <2>1, <4>1 DEF UnhealthyInv
      <3>3. QED
        BY <3>1, <3>2
    <2>4. QED
      BY <1>1, <2>2, <2>3 DEF UnhealthyInv
  <1>8. ASSUME NEW p \in Probe, Store(p) PROVE UnhealthyInv'
    <2>1. cached'.at = start[p] /\ cached'.ok = result[p] /\ pc[p] = "store"
      BY <1>8 DEF Store, TimeOf
    <2>2. UNCHANGED <<start, result, downAt>>
      BY <1>8 DEF Store, hist
    <2>3. ~cached'.ok => SomeDownSince(cached.at)'
      BY <2>1, <2>2 DEF UnhealthyInv, SomeDownSince
    <2>4. ASSUME NEW q \in Probe, pc'[q] = "store", ~result'[q] PROVE SomeDownSince(start[q])'
      <3>1. pc[q] = "store"
        BY <1>8, <2>4 DEF Store, Answer, TypeOK
      <3>2. QED
        BY <2>2, <2>4, <3>1 DEF UnhealthyInv, SomeDownSince
    <2>5. QED
      BY <1>1, <2>3, <2>4 DEF UnhealthyInv
  <1>9. QED
    BY <1>5, <1>6, <1>7, <1>8 DEF Next, vars, Disconnect, Toggle, Tick

\* An unhealthy answer has a cause in the last second as well: an outage, or a client
\* that left in the middle of a check.
THEOREM UnhealthyAnswersAreRecent == Spec => UnhealthyIsRecent
  <1>1. TypeOK /\ UnhealthyInv /\ [Next]_vars =>
          [\A p \in Probe : Answers(p, "unhealthy") => \E d \in Cause : downAt[d] > start[p] - Ttl]_vars
    <2> SUFFICES ASSUME TypeOK, UnhealthyInv, Next, NEW p \in Probe, Answers(p, "unhealthy")
                 PROVE  \E d \in Cause : downAt[d] > start[p] - Ttl
      BY DEF vars
    <2>1. downAt \in [Cause -> Int] /\ start[p] \in Int /\ cached.at \in Int /\ Ttl \in Int /\ Ttl > 0
      BY TtlAssumption DEF TypeOK
    <2>2. CASE Lookup(p)
      <3>1. Fresh(cached.at, start[p]) /\ ~cached.ok
        BY <2>2 DEF Lookup, Answers, Answer, TypeOK
      <3>2. PICK d \in Cause : cached.at <= downAt[d]
        BY <3>1 DEF UnhealthyInv, SomeDownSince
      <3>3. downAt[d] > start[p] - Ttl
        BY <2>1, <3>1, <3>2 DEF Fresh
      <3>4. QED
        BY <3>3
    <2>3. CASE Store(p)
      <3>1. pc[p] = "store" /\ ~result[p]
        BY <2>3 DEF Store, Answers, Answer, TypeOK
      <3>2. PICK d \in Cause : start[p] <= downAt[d]
        BY <3>1 DEF UnhealthyInv, SomeDownSince
      <3>3. downAt[d] > start[p] - Ttl
        BY <2>1, <3>2
      <3>4. QED
        BY <3>3
    <2>4. Lookup(p) \/ Store(p)
      BY DEF Next, Answers, Arrive, Lookup, Ping, Store, Disconnect, Toggle, Tick, TypeOK, Idle, Dep
    <2>5. QED
      BY <2>2, <2>3, <2>4
  <1>2. TypeOK /\ UnhealthyInv /\ [Next]_vars => UnhealthyInv'
    BY UnhealthyNext
  <1>3. QED
    BY TypingInit, TypingNext, UnhealthyInit, <1>2, <1>1, PTL DEF Spec, UnhealthyIsRecent

=============================================================================
