-------------------------- MODULE RateLimiterProofs --------------------------
(* Proofs about RateLimiter, for every limit, window and number of clients. *)
EXTENDS RateLimiter, SequenceTheorems, FiniteSetTheorems, TLAPS

\* What appending a time does to a history.
LEMMA Appended ==
  ASSUME NEW s \in Seq(Nat), NEW x \in Nat
  PROVE  /\ Append(s, x) \in Seq(Nat)
         /\ Len(Append(s, x)) = Len(s) + 1
         /\ \A i \in 1 .. Len(s) : Append(s, x)[i] = s[i]
         /\ Append(s, x)[Len(s) + 1] = x
  BY AppendProperties

\* Histories hold times.
LEMMA Times ==
  ASSUME NEW s \in Seq(Nat)
  PROVE  Len(s) \in Nat /\ \A i \in 1 .. Len(s) : s[i] \in Nat
  BY ElementOfSeq, LenProperties

\* INCR creates the counter exactly when it was not alive; then, and only then,
\* the script sets its expiry.
LEMMA ScriptCases ==
  ASSUME TypeOK, NEW k \in Key
  PROVE  /\ Alive(k) => /\ Incremented(k) = count[k] + 1 /\ Incremented(k) > 1
                        /\ ExpireAfter(k, Incremented(k)) = expire[k]
         /\ ~Alive(k) => Incremented(k) = 1 /\ ExpireAfter(k, Incremented(k)) = now + Window
         /\ Incremented(k) \in Nat \ {0}
         /\ ExpireAfter(k, Incremented(k)) \in Nat
         /\ ExpireAfter(k, Incremented(k)) - now \in Nat
  <1>1. count[k] \in Nat /\ expire[k] \in Nat /\ now \in Nat /\ Window \in Nat
    BY LimitAssumption DEF TypeOK
  <1>2. CASE Alive(k)
    <2>1. Incremented(k) = count[k] + 1 /\ count[k] > 0 /\ now <= expire[k]
      BY <1>2 DEF Alive, Incremented
    <2>2. Incremented(k) # 1
      BY <1>1, <2>1
    <2>3. ExpireAfter(k, Incremented(k)) = expire[k]
      BY <2>2 DEF ExpireAfter
    <2>4. QED
      BY <1>1, <1>2, <2>1, <2>3
  <1>3. CASE ~Alive(k)
    <2>1. Incremented(k) = 1
      BY <1>3 DEF Incremented
    <2>2. ExpireAfter(k, Incremented(k)) = now + Window
      BY <2>1 DEF ExpireAfter
    <2>3. QED
      BY <1>1, <1>3, <2>1, <2>2
  <1>4. QED
    BY <1>2, <1>3

LEMMA TypingInit == Init => TypeOK
  <1>1. NoReply \in Reply
    BY DEF NoReply, Reply
  <1>2. QED
    BY <1>1 DEF Init, TypeOK, Final

LEMMA TypingEval ==
  ASSUME TypeOK, NEW r \in Req, Eval(r) PROVE TypeOK'
  <1>1. PICK k \in Key : k = key[r]
    BY DEF TypeOK
  <1>2. count' \in [Key -> Nat] /\ expire' \in [Key -> Nat]
    BY <1>1, ScriptCases DEF Eval, TypeOK
  <1>3. reply' \in [Req -> Reply]
    <2>1. PICK b \in BOOLEAN : b = Allows(Incremented(k))
      <3>1. Allows(Incremented(k)) \in BOOLEAN
        BY DEF Allows
      <3>2. QED
        BY <3>1
    <2>2. PICK d \in Nat : d = ExpireAfter(k, Incremented(k)) - now
      BY ScriptCases
    <2>3. [ok |-> b, ttl |-> d, at |-> now] \in Reply
      BY DEF TypeOK, Reply
    <2>4. reply' = [reply EXCEPT ![r] = [ok |-> b, ttl |-> d, at |-> now]]
      BY <1>1, <2>1, <2>2, Zenon DEF Eval
    <2>5. QED
      BY <2>3, <2>4 DEF TypeOK
  <1>4. allowed' \in [Key -> Seq(Nat)]
    <2>1. Append(allowed[k], now) \in Seq(Nat)
      BY Appended DEF TypeOK
    <2>2. allowed' = allowed \/ allowed' = [allowed EXCEPT ![k] = Append(allowed[k], now)]
      BY <1>1 DEF Eval
    <2>3. QED
      BY <2>1, <2>2 DEF TypeOK
  <1>5. last' \in [Key -> Req]
    BY <1>1 DEF Eval, TypeOK
  <1>6. QED
    BY <1>2, <1>3, <1>4, <1>5 DEF Eval, TypeOK, Final

LEMMA TypingNext == TypeOK /\ [Next]_vars => TypeOK'
  <1> SUFFICES ASSUME TypeOK, [Next]_vars PROVE TypeOK'
    OBVIOUS
  <1> USE DEF Final, hist
  <1>0. NoReply \in Reply
    BY DEF NoReply, Reply
  <1>1. CASE UNCHANGED vars
    BY <1>1 DEF vars, TypeOK
  <1>2. CASE Tick
    BY <1>2 DEF Tick, TypeOK
  <1>3. CASE Flush
    <2>1. allowed' \in [Key -> Seq(Nat)]
      BY <1>3 DEF Flush
    <2>2. QED
      BY <1>3, <2>1 DEF Flush, TypeOK
  <1>4. ASSUME NEW r \in Req, Arrive(r) PROVE TypeOK'
    <2>1. key' \in [Req -> Key] /\ arrivals' \in Nat
      BY <1>4 DEF Arrive, TypeOK
    <2>2. pc' \in [Req -> Final \union {"sent", "replied", "error"}] /\ reply' \in [Req -> Reply]
      BY <1>0, <1>4 DEF Arrive, TypeOK
    <2>3. QED
      BY <1>4, <2>1, <2>2 DEF Arrive, TypeOK
  <1>5. ASSUME NEW r \in Req, Lose(r) PROVE TypeOK'
    <2>1. tries' \in [Req -> Nat]
      <3>1. tries' = tries \/ tries' = [tries EXCEPT ![r] = tries[r] + 1]
        BY <1>5 DEF Lose
      <3>2. tries[r] + 1 \in Nat
        BY DEF TypeOK
      <3>3. QED
        BY <3>1, <3>2 DEF TypeOK
    <2>2. pc' \in [Req -> Final \union {"sent", "replied", "error"}] /\ reply' \in [Req -> Reply]
      BY <1>0, <1>5 DEF Lose, TypeOK
    <2>3. QED
      BY <1>5, <2>1, <2>2 DEF Lose, TypeOK
  <1>6. ASSUME NEW r \in Req, Unreachable(r) PROVE TypeOK'
    BY <1>6 DEF Unreachable, TypeOK
  <1>7. ASSUME NEW r \in Req, Verdict(r) PROVE TypeOK'
    <2>1. reply[r].at \in Nat
      BY DEF TypeOK, Reply
    <2>2. PICK k \in Key : k = key[r]
      BY DEF TypeOK
    <2>3. Append(passed[k], reply[r].at) \in Seq(Nat)
      BY <2>1, Appended DEF TypeOK
    <2>4. passed' = passed \/ passed' = [passed EXCEPT ![k] = Append(passed[k], reply[r].at)]
      BY <1>7, <2>2 DEF Verdict
    <2>5. passed' \in [Key -> Seq(Nat)]
      BY <2>3, <2>4 DEF TypeOK
    <2>6. pc' \in [Req -> Final \union {"sent", "replied", "error"}]
      BY <1>7 DEF Verdict, TypeOK
    <2>7. reply' \in [Req -> Reply] /\ tries' \in [Req -> Nat]
      <3>1. reply' = reply \/ reply' = [reply EXCEPT ![r] = NoReply]
        BY <1>7 DEF Verdict
      <3>2. tries' = [tries EXCEPT ![r] = 0]
        BY <1>7 DEF Verdict
      <3>3. reply' \in [Req -> Reply]
        BY <1>0, <3>1 DEF TypeOK
      <3>4. QED
        BY <3>2, <3>3 DEF TypeOK
    <2>8. QED
      BY <1>7, <2>5, <2>6, <2>7 DEF Verdict, TypeOK
  <1>8. ASSUME NEW r \in Req, OnError(r) PROVE TypeOK'
    <2>1. PICK k \in Key : k = key[r]
      BY DEF TypeOK
    <2>2. Append(passed[k], now) \in Seq(Nat)
      BY Appended DEF TypeOK
    <2>3. passed' = passed \/ passed' = [passed EXCEPT ![k] = Append(passed[k], now)]
      BY <1>8, <2>1 DEF OnError
    <2>4. passed' \in [Key -> Seq(Nat)]
      BY <2>2, <2>3 DEF TypeOK
    <2>5. pc' \in [Req -> Final \union {"sent", "replied", "error"}]
      BY <1>8 DEF OnError, TypeOK
    <2>6. QED
      BY <1>8, <2>4, <2>5 DEF OnError, TypeOK
  <1>9. QED
    BY <1>1, <1>2, <1>3, <1>4, <1>5, <1>6, <1>7, <1>8, TypingEval DEF Next, Handle

\* Every variable keeps its type; in particular no reply carries a negative time to
\* live, so the script never meets a counter without an expiry.
THEOREM TypeCorrect == Spec => []TypeOK
  BY TypingInit, TypingNext, PTL DEF Spec

\* No step moves the expiry of a living counter.
THEOREM WindowsKeepTheirEnd == Spec => WindowNeverExtended
  <1>1. TypeOK /\ [Next]_vars =>
          [\A k \in Key : Alive(k) => expire'[k] = expire[k]]_vars
    <2> SUFFICES ASSUME TypeOK, Next, NEW k \in Key, Alive(k) PROVE expire'[k] = expire[k]
      BY DEF vars
    <2>1. ASSUME NEW r \in Req, Eval(r) PROVE expire'[k] = expire[k]
      BY <2>1, ScriptCases DEF Eval, TypeOK
    <2>2. ASSUME NEW r \in Req, Arrive(r) \/ Lose(r) \/ Unreachable(r) \/ Verdict(r) \/ OnError(r)
          PROVE  expire' = expire
      BY <2>2 DEF Arrive, Lose, Unreachable, Verdict, OnError
    <2>3. Tick \/ Flush => expire' = expire
      BY DEF Tick, Flush
    <2>4. QED
      BY <2>1, <2>2, <2>3 DEF Next, Handle
  <1>2. QED
    BY TypingInit, TypingNext, <1>1, PTL DEF Spec, WindowNeverExtended

-----------------------------------------------------------------------------
(***************************************************************************)
(* The bound over any interval, first for one key: h holds the times at    *)
(* which requests of the key were allowed, c and e are its counter and its *)
(* expiry, t is the time.  The last Current(c) times of h belong to the    *)
(* window that c describes, which opened at e - Window; whatever was       *)
(* allowed at least Limit places before the first of them is more than a   *)
(* window older than that.                                                 *)
(***************************************************************************)
Current(c)   == IF c <= Limit THEN c ELSE Limit
Before(h, c) == Len(h) - Current(c)

WindowState(h, c, e, t) ==
  /\ \A i \in 1 .. Len(h) : h[i] <= t
  /\ c = 0 => Len(h) = 0
  /\ c > 0 =>
       /\ e - Window <= t
       /\ Before(h, c) >= 0
       /\ \A i \in 1 .. Len(h) : i <= Before(h, c) + 1 => h[i] <= e - Window
       /\ \A i \in 1 .. Len(h) : i <= Before(h, c) - Limit + 1 => h[i] + Window < e - Window

Spaced(h) ==
  \A i, j \in 1 .. Len(h) : j - i >= 2 * Limit - 1 => h[j] > h[i] + Window

WindowInv ==
  \A k \in Key : WindowState(allowed[k], count[k], expire[k], now) /\ Spaced(allowed[k])

LEMMA LimitType == Limit \in Nat /\ Limit >= 1 /\ Window \in Nat /\ Window >= 1
  BY LimitAssumption

\* Time passes.
LEMMA Waited ==
  ASSUME NEW h \in Seq(Nat), NEW c \in Nat, NEW e \in Nat, NEW t \in Nat, NEW u \in Nat,
         t <= u, WindowState(h, c, e, t)
  PROVE  WindowState(h, c, e, u)
  <1>1. \A i \in 1 .. Len(h) : h[i] <= u
    BY Times DEF WindowState
  <1>2. e - Window <= t => e - Window <= u
    BY LimitType
  <1>3. QED
    BY <1>1, <1>2 DEF WindowState

\* A request over the limit is counted and not allowed.
LEMMA Refused ==
  ASSUME NEW h \in Seq(Nat), NEW c \in Nat, NEW e \in Nat, NEW t \in Nat,
         c > 0, c + 1 > Limit, WindowState(h, c, e, t)
  PROVE  WindowState(h, c + 1, e, t)
  <1>1. Current(c + 1) = Current(c)
    BY LimitType DEF Current
  <1>2. Before(h, c + 1) = Before(h, c)
    BY <1>1 DEF Before
  <1>3. QED
    BY <1>2 DEF WindowState

\* A request within the limit of a living window.
LEMMA Counted ==
  ASSUME NEW h \in Seq(Nat), NEW c \in Nat, NEW e \in Nat, NEW t \in Nat,
         c > 0, c + 1 <= Limit, WindowState(h, c, e, t), Spaced(h)
  PROVE  WindowState(Append(h, t), c + 1, e, t) /\ Spaced(Append(h, t))
  <1> DEFINE g == Append(h, t)
  <1>1. PICK n \in Nat : n = Len(h)
    BY Times
  <1>2. Len(g) = n + 1 /\ g[n + 1] = t /\ \A i \in 1 .. n : g[i] = h[i] /\ h[i] \in Nat
    BY <1>1, Appended, Times
  <1>3. PICK b \in Int : b = n - c
    OBVIOUS
  <1>4. Before(h, c) = b /\ Before(g, c + 1) = b /\ b + 1 <= n /\ b >= 0
    <2>1. Current(c) = c /\ Current(c + 1) = c + 1
      BY LimitType DEF Current
    <2>2. Before(h, c) = b /\ Before(g, c + 1) = b
      BY <1>1, <1>2, <1>3, <2>1 DEF Before
    <2>3. b >= 0
      BY <2>2 DEF WindowState
    <2>4. QED
      BY <1>3, <2>2, <2>3
  <1> HIDE DEF g
  <1>5. /\ e - Window <= t
        /\ \A i \in 1 .. n : h[i] <= t
        /\ \A i \in 1 .. n : i <= b + 1 => h[i] <= e - Window
        /\ \A i \in 1 .. n : i <= b - Limit + 1 => h[i] + Window < e - Window
    BY <1>1, <1>4 DEF WindowState
  <1>6. \A i \in 1 .. n + 1 : g[i] <= t
    BY <1>2, <1>5
  <1>7. \A i \in 1 .. n + 1 : i <= b + 1 => g[i] <= e - Window
    BY <1>2, <1>4, <1>5
  <1>8. \A i \in 1 .. n + 1 : i <= b - Limit + 1 => g[i] + Window < e - Window
    <2> SUFFICES ASSUME NEW i \in 1 .. n + 1, i <= b - Limit + 1
                 PROVE  g[i] + Window < e - Window
      OBVIOUS
    <2>1. i \in 1 .. n
      BY <1>4, LimitType
    <2>2. QED
      BY <1>2, <1>5, <2>1
  <1>9. WindowState(g, c + 1, e, t)
    BY <1>2, <1>4, <1>5, <1>6, <1>7, <1>8 DEF WindowState
  <1>10. \A i \in 1 .. n : (n + 1) - i >= 2 * Limit - 1 => t > h[i] + Window
    <2> SUFFICES ASSUME NEW i \in 1 .. n, (n + 1) - i >= 2 * Limit - 1
                 PROVE  t > h[i] + Window
      OBVIOUS
    <2>1. i <= b - Limit + 1
      BY <1>3, LimitType
    <2>2. h[i] + Window < e - Window
      BY <1>5, <2>1
    <2>3. QED
      BY <1>2, <1>5, <2>2, LimitType
  <1>11. Spaced(g)
    <2> SUFFICES ASSUME NEW i \in 1 .. n + 1, NEW j \in 1 .. n + 1, j - i >= 2 * Limit - 1
                 PROVE  g[j] > g[i] + Window
      BY <1>2 DEF Spaced
    <2>1. i \in 1 .. n /\ g[i] = h[i]
      <3>1. i < j
        BY LimitType
      <3>2. QED
        BY <1>2, <3>1
    <2>2. CASE j = n + 1
      BY <1>2, <1>10, <2>1, <2>2
    <2>3. CASE j \in 1 .. n
      BY <1>1, <1>2, <2>1, <2>3 DEF Spaced
    <2>4. QED
      BY <2>2, <2>3
  <1>12. QED
    BY <1>9, <1>11 DEF g

\* A request that finds no living counter opens a window.
LEMMA Opened ==
  ASSUME NEW h \in Seq(Nat), NEW c \in Nat, NEW e \in Nat, NEW t \in Nat,
         ~(c > 0 /\ t <= e), WindowState(h, c, e, t), Spaced(h)
  PROVE  WindowState(Append(h, t), 1, t + Window, t) /\ Spaced(Append(h, t))
  <1> DEFINE g == Append(h, t)
  <1>1. PICK n \in Nat : n = Len(h)
    BY Times
  <1>2. Len(g) = n + 1 /\ g[n + 1] = t /\ \A i \in 1 .. n : g[i] = h[i] /\ h[i] \in Nat
    BY <1>1, Appended, Times
  <1>3. Before(g, 1) = n
    BY <1>2, LimitType DEF Before, Current
  <1> HIDE DEF g
  <1>4. \A i \in 1 .. n : h[i] <= t
    BY <1>1 DEF WindowState
  <1>5. \A i \in 1 .. n : i <= n - Limit + 1 => h[i] + Window < t
    <2> SUFFICES ASSUME NEW i \in 1 .. n, i <= n - Limit + 1
                 PROVE  h[i] + Window < t
      OBVIOUS
    <2>1. c > 0
      BY <1>1 DEF WindowState
    <2>2. t > e
      BY <2>1
    <2>3. PICK b \in Int : b = Before(h, c)
      <3>1. Current(c) \in Int
        BY LimitType DEF Current
      <3>2. QED
        BY <1>1, <3>1 DEF Before
    <2>4. n - Limit <= b
      BY <1>1, <2>3, LimitType DEF Before, Current
    <2>5. i <= b + 1
      BY <2>4, LimitType
    <2>6. h[i] <= e - Window
      BY <1>1, <2>1, <2>3, <2>5 DEF WindowState
    <2>7. QED
      BY <1>2, <2>2, <2>6, LimitType
  <1>6. (t + Window) - Window = t
    BY LimitType
  <1>7. \A i \in 1 .. n + 1 : g[i] <= t
    BY <1>2, <1>4
  <1>8. \A i \in 1 .. n + 1 : i <= n - Limit + 1 => g[i] + Window < t
    BY <1>2, <1>5, LimitType
  <1>9. WindowState(g, 1, t + Window, t)
    BY <1>2, <1>3, <1>6, <1>7, <1>8 DEF WindowState
  <1>10. \A i \in 1 .. n : (n + 1) - i >= 2 * Limit - 1 => t > h[i] + Window
    BY <1>5, LimitType
  <1>11. Spaced(g)
    <2> SUFFICES ASSUME NEW i \in 1 .. n + 1, NEW j \in 1 .. n + 1, j - i >= 2 * Limit - 1
                 PROVE  g[j] > g[i] + Window
      BY <1>2 DEF Spaced
    <2>1. i \in 1 .. n /\ g[i] = h[i]
      <3>1. i < j
        BY LimitType
      <3>2. QED
        BY <1>2, <3>1
    <2>2. CASE j = n + 1
      BY <1>2, <1>10, <2>1, <2>2
    <2>3. CASE j \in 1 .. n
      BY <1>1, <1>2, <2>1, <2>3 DEF Spaced
    <2>4. QED
      BY <2>2, <2>3
  <1>12. QED
    BY <1>9, <1>11 DEF g

LEMMA WindowInit == Init => WindowInv
  BY DEF Init, WindowInv, WindowState, Spaced

LEMMA WindowEval ==
  ASSUME TypeOK, NEW r \in Req, NEW k \in Key, k = key[r], Eval(r),
         WindowState(allowed[k], count[k], expire[k], now), Spaced(allowed[k])
  PROVE  WindowState(allowed[k], count[k], expire[k], now)' /\ Spaced(allowed[k])'
  <1>1. /\ count[k] \in Nat /\ expire[k] \in Nat /\ now \in Nat /\ allowed[k] \in Seq(Nat)
        /\ count[k] > 0 \/ count[k] = 0
    BY DEF TypeOK
  <1>2. /\ now' = now
        /\ count'[k] = Incremented(k)
        /\ expire'[k] = ExpireAfter(k, Incremented(k))
    BY DEF Eval, TypeOK
  <1>3. allowed'[k] = IF Incremented(k) <= Limit THEN Append(allowed[k], now) ELSE allowed[k]
    BY DEF Eval, TypeOK, Allows
  <1>4. CASE Alive(k)
    <2>1. /\ count'[k] = count[k] + 1 /\ expire'[k] = expire[k] /\ count[k] > 0
          /\ Incremented(k) = count[k] + 1
      BY <1>2, <1>4, ScriptCases DEF Alive
    <2>2. CASE count[k] + 1 > Limit
      <3>1. allowed'[k] = allowed[k]
        BY <1>1, <1>3, <2>1, <2>2, LimitType
      <3>2. QED
        BY <1>1, <1>2, <2>1, <2>2, <3>1, Refused
    <2>3. CASE count[k] + 1 <= Limit
      <3>1. allowed'[k] = Append(allowed[k], now)
        BY <1>3, <2>1, <2>3
      <3>2. QED
        BY <1>1, <1>2, <2>1, <2>3, <3>1, Counted
    <2>4. QED
      BY <1>1, <2>2, <2>3, LimitType
  <1>5. CASE ~Alive(k)
    <2>1. count'[k] = 1 /\ expire'[k] = now + Window /\ allowed'[k] = Append(allowed[k], now)
      BY <1>2, <1>3, <1>5, ScriptCases, LimitType
    <2>2. ~(count[k] > 0 /\ now <= expire[k])
      BY <1>5 DEF Alive
    <2>3. QED
      BY <1>1, <1>2, <2>1, <2>2, Opened
  <1>6. QED
    BY <1>4, <1>5

LEMMA WindowNext == TypeOK /\ TypeOK' /\ WindowInv /\ [Next]_vars => WindowInv'
  <1> SUFFICES ASSUME TypeOK, TypeOK', WindowInv, [Next]_vars, NEW k \in Key
               PROVE  WindowState(allowed[k], count[k], expire[k], now)' /\ Spaced(allowed[k])'
    BY DEF WindowInv
  <1>0. WindowState(allowed[k], count[k], expire[k], now) /\ Spaced(allowed[k])
    BY DEF WindowInv
  <1>1. ASSUME count'[k] = count[k], expire'[k] = expire[k], allowed'[k] = allowed[k], now <= now'
        PROVE  WindowState(allowed[k], count[k], expire[k], now)' /\ Spaced(allowed[k])'
    <2>1. /\ count[k] \in Nat /\ expire[k] \in Nat /\ now \in Nat /\ now' \in Nat
          /\ allowed[k] \in Seq(Nat)
      BY DEF TypeOK
    <2>2. WindowState(allowed[k], count[k], expire[k], now')
      BY <1>0, <1>1, <2>1, Waited
    <2>3. QED
      BY <1>0, <1>1, <2>2
  <1>2. CASE UNCHANGED vars
    BY <1>1, <1>2 DEF vars, TypeOK
  <1>3. CASE Tick
    BY <1>1, <1>3 DEF Tick, hist, TypeOK
  <1>4. ASSUME NEW r \in Req, Arrive(r) \/ Lose(r) \/ Unreachable(r) \/ Verdict(r) \/ OnError(r)
        PROVE  WindowState(allowed[k], count[k], expire[k], now)' /\ Spaced(allowed[k])'
    <2>1. UNCHANGED <<now, count, expire, allowed>>
      BY <1>4 DEF Arrive, Lose, Unreachable, Verdict, OnError, hist
    <2>2. QED
      BY <1>1, <2>1 DEF TypeOK
  <1>5. ASSUME NEW r \in Req, Eval(r)
        PROVE  WindowState(allowed[k], count[k], expire[k], now)' /\ Spaced(allowed[k])'
    <2>1. CASE key[r] = k
      BY <1>0, <1>5, <2>1, WindowEval
    <2>2. CASE key[r] # k
      <3>1. /\ count'[k] = count[k] /\ expire'[k] = expire[k] /\ allowed'[k] = allowed[k]
            /\ now <= now'
        BY <1>5, <2>2 DEF Eval, TypeOK
      <3>2. QED
        BY <1>1, <3>1
    <2>3. QED
      BY <2>1, <2>2
  <1>6. CASE Flush
    <2>1. allowed'[k] = <<>> /\ count'[k] = 0
      BY <1>6 DEF Flush
    <2>2. QED
      BY <2>1 DEF WindowState, Spaced
  <1>7. QED
    BY <1>2, <1>3, <1>4, <1>5, <1>6 DEF Next, Handle

\* Whatever the limit and the window, 2 * Limit requests of one key that Redis allowed
\* without losing its data in between span more than a window; with limit 1, any two are more than a window apart.
THEOREM LimitHoldsOverAnyInterval == Spec => []WindowBound
  <1>1. WindowInv => WindowBound
    BY DEF WindowInv, Spaced, WindowBound
  <1>2. QED
    BY TypingInit, TypingNext, WindowInit, WindowNext, <1>1, PTL DEF Spec
-----------------------------------------------------------------------------
(***************************************************************************)
(* The header.  A refusal that is still the last use of its key describes  *)
(* the counter as it is: it expires at the announced time, or it is gone.  *)
(***************************************************************************)
Describes(r) ==
  count[key[r]] = 0 \/ expire[key[r]] = reply[r].at + reply[r].ttl

HonestInv ==
  \A r \in Req : pc[r] \in {"replied", "limited"} /\ last[key[r]] = r => Describes(r)

\* A time to live in whole seconds, rounded up, is not shorter.
LEMMA RoundedUp ==
  ASSUME NEW d \in Nat
  PROVE  RetryAfterSeconds(d) \in Nat /\ RetryAfterSeconds(d) * Second >= d
  <1>0. Second \in Nat \ {0}
    BY SecondAssumption
  <1>1. PICK q \in Nat : q = d \div Second
    BY <1>0
  <1>2. PICK m \in 0 .. Second - 1 : m = d % Second
    BY <1>0
  <1>3. d = Second * q + m
    BY <1>0, <1>1, <1>2
  <1>4. (q + (IF m # 0 THEN 1 ELSE 0)) * Second >= d
    BY <1>0, <1>3
  <1>5. RetryAfterSeconds(d) = IF d <= 0 THEN 1 ELSE q + (IF m # 0 THEN 1 ELSE 0)
    BY <1>1, <1>2 DEF RetryAfterSeconds
  <1>6. QED
    BY <1>0, <1>4, <1>5

LEMMA HonestInit == Init => HonestInv
  BY DEF Init, HonestInv

LEMMA HonestEval ==
  ASSUME TypeOK, HonestInv, NEW r \in Req, Eval(r) PROVE HonestInv'
  <1>1. PICK k \in Key : k = key[r]
    BY DEF TypeOK
  <1>2. PICK e \in Nat : e = ExpireAfter(k, Incremented(k)) /\ e - now \in Nat
    BY ScriptCases
  <1>3. /\ expire' = [expire EXCEPT ![k] = e]
        /\ reply'[r].at = now /\ reply'[r].ttl = e - now
        /\ key' = key /\ last' = [last EXCEPT ![k] = r]
    BY <1>1, <1>2 DEF Eval, TypeOK
  <1>4. /\ \A k2 \in Key \ {k} : count'[k2] = count[k2]
        /\ \A q \in Req \ {r} : pc'[q] = pc[q] /\ reply'[q] = reply[q]
    BY <1>1 DEF Eval, TypeOK
  <1>5. Describes(r)'
    BY <1>1, <1>2, <1>3 DEF Describes, TypeOK
  <1>6. ASSUME NEW q \in Req \ {r}, pc'[q] \in {"replied", "limited"}, last'[key'[q]] = q
        PROVE  Describes(q)'
    <2>1. key[q] \in Key \ {k}
      BY <1>3, <1>6 DEF TypeOK
    <2>2. Describes(q)
      BY <1>3, <1>4, <1>6, <2>1 DEF HonestInv, TypeOK
    <2>3. QED
      BY <1>3, <1>4, <2>1, <2>2 DEF Describes, TypeOK
  <1>7. QED
    BY <1>5, <1>6 DEF HonestInv

LEMMA HonestNext == TypeOK /\ HonestInv /\ [Next]_vars => HonestInv'
  <1> SUFFICES ASSUME TypeOK, HonestInv, [Next]_vars PROVE HonestInv'
    OBVIOUS
  <1>1. CASE UNCHANGED vars
    BY <1>1 DEF vars, HonestInv, Describes
  <1>2. CASE Tick
    BY <1>2 DEF Tick, hist, HonestInv, Describes
  <1>3. CASE Flush
    BY <1>3 DEF Flush, HonestInv, Describes, TypeOK
  <1>4. ASSUME NEW r \in Req, Arrive(r) \/ Lose(r) \/ Unreachable(r) \/ OnError(r)
        PROVE  HonestInv'
    <2>1. /\ UNCHANGED <<count, expire, last>>
          /\ pc'[r] \notin {"replied", "limited"}
          /\ \A q \in Req \ {r} : pc'[q] = pc[q] /\ key'[q] = key[q] /\ reply'[q] = reply[q]
      <3>1. UNCHANGED <<count, expire, last>>
        BY <1>4 DEF Arrive, Lose, Unreachable, OnError, hist
      <3>2. pc'[r] \notin {"replied", "limited"}
        BY <1>4 DEF Arrive, Lose, Unreachable, OnError, TypeOK
      <3>3. \A q \in Req \ {r} : pc'[q] = pc[q] /\ key'[q] = key[q] /\ reply'[q] = reply[q]
        BY <1>4 DEF Arrive, Lose, Unreachable, OnError, TypeOK
      <3>4. QED
        BY <3>1, <3>2, <3>3
    <2>2. QED
      BY <2>1 DEF HonestInv, Describes
  <1>5. ASSUME NEW r \in Req, Verdict(r) PROVE HonestInv'
    <2>1. /\ UNCHANGED <<count, expire, last, key>>
          /\ \A q \in Req \ {r} : pc'[q] = pc[q] /\ reply'[q] = reply[q]
          /\ pc[r] = "replied"
          /\ pc'[r] = "limited" => reply'[r] = reply[r]
          /\ pc'[r] \in {"passed", "limited"}
      BY <1>5 DEF Verdict, TypeOK
    <2>2. QED
      BY <2>1 DEF HonestInv, Describes
  <1>6. QED
    BY <1>1, <1>2, <1>3, <1>4, <1>5, HonestEval DEF Next, Handle

\* A client that waits for the announced seconds, and has its key for itself meanwhile,
\* is allowed, whatever the limit, the window and the length of a second.
THEOREM RetryAfterTellsTheTruth == Spec => []RetryAfterHonest
  <1>1. TypeOK /\ HonestInv => RetryAfterHonest
    <2> SUFFICES ASSUME TypeOK, HonestInv, NEW r \in Req, pc[r] = "limited",
                        now > reply[r].at + RetryAfterSeconds(reply[r].ttl) * Second,
                        last[key[r]] = r
                 PROVE  Incremented(key[r]) <= Limit
      BY DEF RetryAfterHonest
    <2>1. PICK k \in Key : k = key[r]
      BY DEF TypeOK
    <2>2. /\ reply[r].at \in Nat /\ reply[r].ttl \in Nat
          /\ now \in Nat /\ expire[k] \in Nat /\ count[k] \in Nat
      BY DEF TypeOK, Reply
    <2>3. PICK w \in Nat : w = RetryAfterSeconds(reply[r].ttl) * Second /\ w >= reply[r].ttl
      BY <2>2, RoundedUp, SecondAssumption
    <2>4. count[k] = 0 \/ now > expire[k]
      BY <2>1, <2>2, <2>3 DEF HonestInv, Describes
    <2>5. Incremented(k) = 1
      BY <2>2, <2>4 DEF Incremented, Alive
    <2>6. QED
      BY <2>1, <2>5, LimitType
  <1>2. QED
    BY TypingInit, TypingNext, HonestInit, HonestNext, <1>1, PTL DEF Spec
-----------------------------------------------------------------------------
(***************************************************************************)
(* The bound where it matters, at the handlers of the routes that fail     *)
(* closed.  A request let through, or about to be, was allowed by a run of *)
(* the script of its own: f gives the place of that run for the requests   *)
(* let through and g for those with the reply in hand, as far as Redis     *)
(* still remembers.  So a burst of requests is no larger than a burst of   *)
(* allowed runs.                                                           *)
(***************************************************************************)
Place == Nat

Pending(r, k) == pc[r] = "replied" /\ reply[r].ok /\ key[r] = k /\ reply[r].at >= since
Recent(i, k)  == i \in 1 .. Len(passed[k]) /\ passed[k][i] >= since

Metered(k, f, g) ==
  /\ \A i \in Nat : Recent(i, k) =>
       f[i] \in 1 .. Len(allowed[k]) /\ allowed[k][f[i]] = passed[k][i]
  /\ \A r \in Req : Pending(r, k) =>
       g[r] \in 1 .. Len(allowed[k]) /\ allowed[k][g[r]] = reply[r].at
  /\ \A i, j \in Nat : Recent(i, k) /\ Recent(j, k) /\ i # j => f[i] # f[j]
  /\ \A i \in Nat, r \in Req : Recent(i, k) /\ Pending(r, k) => f[i] # g[r]
  /\ \A q, r \in Req : Pending(q, k) /\ Pending(r, k) /\ q # r => g[q] # g[r]

\* Nothing happened in the future.
PastInv ==
  /\ \A k \in Key : \A i \in 1 .. Len(passed[k]) : passed[k][i] <= now
  /\ \A r \in Req : reply[r].at <= now

MeterInv ==
  /\ PastInv
  /\ \A k \in FailClosed : \E f \in [Place -> Place], g \in [Req -> Place] : Metered(k, f, g)

\* A set of places has a first one.
LEMMA Earliest ==
  ASSUME NEW T, T \subseteq Nat, T # {}
  PROVE  \E x \in T : \A y \in T : x <= y
  <1>1. PICK x \in T : \A y \in T : ~ (<<y, x>> \in OpToRel(<, Nat))
    BY NatLessThanWellFounded, WFMin
  <1>2. \A y \in T : ~(y < x)
    BY <1>1 DEF OpToRel
  <1>3. QED
    BY <1>2

LEMMA MeterInit == Init => MeterInv
  <1> SUFFICES ASSUME Init PROVE MeterInv
    OBVIOUS
  <1>1. PastInv
    BY DEF Init, PastInv, NoReply
  <1>2. ASSUME NEW k \in FailClosed
        PROVE  Metered(k, [n \in Place |-> 0], [r \in Req |-> 0])
    <2>1. \A i \in Nat : ~Recent(i, k)
      BY <1>2, KeyAssumption DEF Init, Recent
    <2>2. \A r \in Req : ~Pending(r, k)
      BY DEF Init, Pending
    <2>3. QED
      BY <2>1, <2>2 DEF Metered
  <1>3. [n \in Place |-> 0] \in [Place -> Place] /\ [r \in Req |-> 0] \in [Req -> Place]
    BY DEF Place
  <1>4. QED
    BY <1>1, <1>2, <1>3 DEF MeterInv

LEMMA PastNext == TypeOK /\ TypeOK' /\ PastInv /\ [Next]_vars => PastInv'
  <1> SUFFICES ASSUME TypeOK, TypeOK', PastInv, [Next]_vars PROVE PastInv'
    OBVIOUS
  <1>0. /\ now \in Nat /\ now' \in Nat
        /\ \A k \in Key : passed[k] \in Seq(Nat) /\ \A i \in 1 .. Len(passed[k]) : passed[k][i] \in Nat
        /\ \A r \in Req : reply[r].at \in Nat
    BY Times DEF TypeOK, Reply
  <1>1. CASE UNCHANGED vars
    BY <1>1 DEF vars, PastInv
  <1>2. CASE Tick \/ Flush
    <2>1. now' = now + 1 /\ passed' = passed /\ reply' = reply
      BY <1>2 DEF Tick, Flush, hist
    <2>2. QED
      BY <1>0, <2>1 DEF PastInv
  <1>3. ASSUME NEW r \in Req, Arrive(r) \/ Lose(r) \/ Unreachable(r) \/ Eval(r)
        PROVE  PastInv'
    <2>1. now' = now /\ passed' = passed
      BY <1>3 DEF Arrive, Lose, Unreachable, Eval, hist
    <2>2. \A q \in Req : reply'[q] = reply[q] \/ reply'[q].at = 0 \/ reply'[q].at = now
      <3>1. CASE Eval(r)
        BY <3>1 DEF Eval, TypeOK
      <3>2. CASE Unreachable(r)
        BY <3>2 DEF Unreachable
      <3>3. CASE Arrive(r) \/ Lose(r)
        <4>1. reply' = [reply EXCEPT ![r] = NoReply]
          BY <3>3 DEF Arrive, Lose
        <4>2. QED
          BY <4>1 DEF NoReply, TypeOK
      <3>4. QED
        BY <1>3, <3>1, <3>2, <3>3
    <2>3. QED
      BY <1>0, <2>1, <2>2 DEF PastInv
  <1>4. ASSUME NEW r \in Req, Verdict(r) \/ OnError(r)
        PROVE  PastInv'
    <2>1. PICK k \in Key : k = key[r]
      BY DEF TypeOK
    <2>2. now' = now /\ \A q \in Req : reply'[q] = reply[q] \/ reply'[q].at = 0
      <3>1. now' = now /\ (reply' = reply \/ reply' = [reply EXCEPT ![r] = NoReply])
        BY <1>4 DEF Verdict, OnError
      <3>2. CASE reply' = reply
        BY <3>1, <3>2
      <3>3. CASE reply' = [reply EXCEPT ![r] = NoReply]
        <4>1. \A q \in Req : reply'[q] = reply[q] \/ reply'[q] = NoReply
          BY <3>3 DEF TypeOK
        <4>2. NoReply.at = 0
          BY DEF NoReply
        <4>3. QED
          BY <3>1, <4>1, <4>2
      <3>4. QED
        BY <3>1, <3>2, <3>3
    <2>3. PICK t \in {reply[r].at, now} :
            passed' = passed \/ passed' = [passed EXCEPT ![k] = Append(passed[k], t)]
      BY <1>4, <2>1 DEF Verdict, OnError
    <2>4. t \in Nat /\ t <= now
      BY <1>0, <2>3 DEF PastInv
    <2>5. \A k2 \in Key : passed'[k2] = passed[k2] \/ passed'[k2] = Append(passed[k2], t)
      BY <2>3 DEF TypeOK
    <2>6. ASSUME NEW k2 \in Key, NEW i \in 1 .. Len(passed'[k2]) PROVE passed'[k2][i] <= now
      <3>1. CASE passed'[k2] = passed[k2]
        BY <3>1, <2>6 DEF PastInv
      <3>2. CASE passed'[k2] = Append(passed[k2], t)
        <4>1. /\ Len(passed'[k2]) = Len(passed[k2]) + 1
              /\ \A j \in 1 .. Len(passed[k2]) : passed'[k2][j] = passed[k2][j]
              /\ passed'[k2][Len(passed[k2]) + 1] = t
          BY <1>0, <2>4, <3>2, Appended
        <4>2. PICK n \in Nat : n = Len(passed[k2])
          BY <1>0, Times
        <4>3. i \in 1 .. n \/ i = n + 1
          BY <2>6, <4>1, <4>2
        <4>4. QED
          BY <2>4, <4>1, <4>2, <4>3 DEF PastInv
      <3>3. QED
        BY <2>5, <3>1, <3>2
    <2>7. QED
      BY <1>0, <2>2, <2>6 DEF PastInv
  <1>5. QED
    BY <1>1, <1>2, <1>3, <1>4 DEF Next, Handle

\* A step after which nobody else has a reply in hand, and nothing was let through.
LEMMA MeterKept ==
  ASSUME NEW k \in Key, NEW f \in [Place -> Place], NEW g \in [Req -> Place], Metered(k, f, g),
         allowed'[k] = allowed[k], passed'[k] = passed[k], since' = since,
         \A r \in Req : Pending(r, k)' => Pending(r, k) /\ reply'[r] = reply[r]
  PROVE  Metered(k, f, g)'
  <1>1. \A i \in Nat : Recent(i, k)' <=> Recent(i, k)
    BY DEF Recent
  <1>2. QED
    BY <1>1 DEF Metered

\* The script allows r: its run is the newest.
LEMMA MeterAllowed ==
  ASSUME TypeOK, NEW k \in Key, NEW f \in [Place -> Place], NEW g \in [Req -> Place], Metered(k, f, g),
         NEW r \in Req, Eval(r), key[r] = k, Allows(Incremented(k))
  PROVE  \E h \in [Req -> Place] : Metered(k, f, h)'
  <1>a. PICK a \in Seq(Nat) : a = allowed[k]
    BY DEF TypeOK
  <1>n. PICK n \in Nat : n = Len(a)
    BY Times
  <1>1. PICK b \in Seq(Nat) : b = Append(a, now) /\ allowed'[k] = b
    <2>1. allowed'[k] = Append(a, now) /\ now \in Nat
      BY <1>a, <1>n DEF Eval, TypeOK
    <2>2. QED
      BY <1>a, <1>n, <2>1, Appended
  <1>2. Len(b) = n + 1 /\ b[n + 1] = now /\ \A i \in 1 .. n : b[i] = a[i]
    BY <1>a, <1>n, <1>1, Appended DEF TypeOK
  <1>3. passed' = passed /\ since' = since
    BY DEF Eval
  <1>4. /\ reply'[r].at = now
        /\ \A q \in Req \ {r} : Pending(q, k)' => Pending(q, k) /\ reply'[q] = reply[q]
    BY <1>3 DEF Eval, Pending, TypeOK
  <1>5. \A i \in Nat : Recent(i, k)' <=> Recent(i, k)
    BY <1>3 DEF Recent
  <1>6. PICK h \in [Req -> Place] : h[r] = n + 1 /\ \A q \in Req \ {r} : h[q] = g[q]
    <2>1. [g EXCEPT ![r] = n + 1] \in [Req -> Place]
      BY DEF Place
    <2>2. QED
      BY <2>1
  <1>7. /\ \A i \in Nat : Recent(i, k) => f[i] \in 1 .. n /\ a[f[i]] = passed[k][i]
        /\ \A q \in Req : Pending(q, k) => g[q] \in 1 .. n /\ a[g[q]] = reply[q].at
        /\ \A i, j \in Nat : Recent(i, k) /\ Recent(j, k) /\ i # j => f[i] # f[j]
        /\ \A i \in Nat, q \in Req : Recent(i, k) /\ Pending(q, k) => f[i] # g[q]
        /\ \A p, q \in Req : Pending(p, k) /\ Pending(q, k) /\ p # q => g[p] # g[q]
    BY <1>a, <1>n DEF Metered
  <1>8. ASSUME NEW i \in Nat, Recent(i, k)
        PROVE  f[i] \in 1 .. n + 1 /\ f[i] # n + 1 /\ b[f[i]] = passed[k][i]
    <2>1. PICK m \in 1 .. n : m = f[i] /\ a[m] = passed[k][i]
      BY <1>7, <1>8
    <2>2. m \in 1 .. n + 1 /\ m # n + 1
      BY <1>n
    <2>3. QED
      BY <1>2, <2>1, <2>2
  <1>9. ASSUME NEW q \in Req, Pending(q, k)', q # r
        PROVE  h[q] \in 1 .. n + 1 /\ h[q] # n + 1 /\ b[h[q]] = reply'[q].at
    <2>1. Pending(q, k) /\ reply'[q] = reply[q] /\ h[q] = g[q]
      BY <1>4, <1>6, <1>9
    <2>2. PICK m \in 1 .. n : m = g[q] /\ a[m] = reply[q].at
      BY <1>7, <2>1
    <2>3. m \in 1 .. n + 1 /\ m # n + 1
      BY <1>n
    <2>4. QED
      BY <1>2, <2>1, <2>2, <2>3
  <1>10. h[r] \in 1 .. n + 1 /\ b[h[r]] = reply'[r].at
    BY <1>2, <1>4, <1>6
  <1>11. ASSUME NEW i \in Nat, NEW q \in Req, Recent(i, k), Pending(q, k)' PROVE f[i] # h[q]
    <2>1. CASE q = r
      BY <1>6, <1>8, <1>11, <2>1
    <2>2. CASE q # r
      <3>1. Pending(q, k) /\ h[q] = g[q]
        BY <1>4, <1>6, <1>11, <2>2
      <3>2. QED
        BY <1>7, <1>11, <3>1
    <2>3. QED
      BY <2>1, <2>2
  <1>12. ASSUME NEW p \in Req, NEW q \in Req, Pending(p, k)', Pending(q, k)', p # q
         PROVE  h[p] # h[q]
    <2>1. CASE p = r \/ q = r
      BY <1>6, <1>9, <1>12, <2>1
    <2>2. CASE p # r /\ q # r
      <3>1. Pending(p, k) /\ Pending(q, k) /\ h[p] = g[p] /\ h[q] = g[q]
        BY <1>4, <1>6, <1>12, <2>2
      <3>2. QED
        BY <1>7, <1>12, <3>1
    <2>3. QED
      BY <2>1, <2>2
  <1>13. \A q \in Req : Pending(q, k)' => h[q] \in 1 .. n + 1 /\ b[h[q]] = reply'[q].at
    BY <1>9, <1>10
  <1>14. Metered(k, f, h)'
    <2>1. Len(allowed'[k]) = n + 1
      BY <1>1, <1>2
    <2>2. /\ \A i \in Nat : Recent(i, k)' => f[i] \in 1 .. Len(allowed'[k]) /\ allowed'[k][f[i]] = passed'[k][i]
          /\ \A q \in Req : Pending(q, k)' => h[q] \in 1 .. Len(allowed'[k]) /\ allowed'[k][h[q]] = reply'[q].at
      BY <1>1, <1>3, <1>5, <1>8, <1>13, <2>1
    <2>3. \A i, j \in Nat : Recent(i, k)' /\ Recent(j, k)' /\ i # j => f[i] # f[j]
      BY <1>5, <1>7
    <2>4. \A i \in Nat, q \in Req : Recent(i, k)' /\ Pending(q, k)' => f[i] # h[q]
      BY <1>5, <1>11
    <2>5. QED
      BY <1>12, <2>2, <2>3, <2>4 DEF Metered
  <1>15. QED
    BY <1>14

\* A request with the reply in hand is let through.
LEMMA MeterPassed ==
  ASSUME TypeOK, NEW k \in Key, NEW f \in [Place -> Place], NEW g \in [Req -> Place], Metered(k, f, g),
         NEW r \in Req, Verdict(r), key[r] = k, reply[r].ok
  PROVE  \E h \in [Place -> Place] : Metered(k, h, g)'
  <1>a. PICK a \in Seq(Nat) : a = passed[k]
    BY DEF TypeOK
  <1>n. PICK n \in Nat : n = Len(a)
    BY Times
  <1>t. PICK t \in Nat : t = reply[r].at
    BY DEF TypeOK, Reply
  <1>1. PICK b \in Seq(Nat) : b = Append(a, t) /\ passed'[k] = b
    <2>1. passed'[k] = Append(a, t)
      BY <1>a, <1>n, <1>t DEF Verdict, TypeOK
    <2>2. QED
      BY <1>a, <1>n, <1>t, <2>1, Appended
  <1>2. Len(b) = n + 1 /\ b[n + 1] = t /\ \A i \in 1 .. n : b[i] = a[i]
    BY <1>a, <1>n, <1>t, <1>1, Appended
  <1>3. allowed' = allowed /\ since' = since /\ pc[r] = "replied"
    BY DEF Verdict
  <1>4. \A q \in Req : Pending(q, k)' => q # r /\ Pending(q, k) /\ reply'[q] = reply[q]
    <2>1. pc'[r] # "replied" /\ key' = key
      BY DEF Verdict, TypeOK
    <2>2. \A q \in Req \ {r} : pc'[q] = pc[q] /\ reply'[q] = reply[q]
      BY DEF Verdict, TypeOK
    <2>3. QED
      BY <1>3, <2>1, <2>2 DEF Pending
  <1>5. PICK h \in [Place -> Place] : h[n + 1] = g[r] /\ \A i \in Nat \ {n + 1} : h[i] = f[i]
    <2>1. [f EXCEPT ![n + 1] = g[r]] \in [Place -> Place]
      BY DEF Place
    <2>2. n + 1 \in Place /\ Nat = Place
      BY DEF Place
    <2>3. QED
      BY <2>1, <2>2
  <1>6. ASSUME NEW i \in Nat, Recent(i, k)'
        PROVE  \/ Recent(i, k) /\ i # n + 1 /\ b[i] = passed[k][i] /\ h[i] = f[i]
               \/ i = n + 1 /\ Pending(r, k) /\ b[i] = reply[r].at /\ h[i] = g[r]
    <2>1. i \in 1 .. n + 1 /\ b[i] >= since
      BY <1>1, <1>2, <1>3, <1>6 DEF Recent
    <2>2. CASE i = n + 1
      BY <1>a, <1>n, <1>t, <1>2, <1>3, <1>5, <2>1, <2>2 DEF Pending
    <2>3. CASE i # n + 1
      <3>1. i \in 1 .. n
        BY <2>1, <2>3
      <3>2. b[i] = passed[k][i] /\ h[i] = f[i]
        BY <1>a, <1>n, <1>t, <1>2, <1>5, <2>3, <3>1
      <3>3. QED
        BY <1>a, <1>n, <1>t, <2>1, <2>3, <3>1, <3>2 DEF Recent
    <2>4. QED
      BY <2>2, <2>3
  <1>7. \A i \in Nat : Recent(i, k)' => h[i] \in 1 .. Len(allowed[k]) /\ allowed[k][h[i]] = b[i]
    <2> SUFFICES ASSUME NEW i \in Nat, Recent(i, k)'
                 PROVE  h[i] \in 1 .. Len(allowed[k]) /\ allowed[k][h[i]] = b[i]
      OBVIOUS
    <2>1. CASE Recent(i, k) /\ b[i] = passed[k][i] /\ h[i] = f[i]
      BY <2>1 DEF Metered
    <2>2. CASE Pending(r, k) /\ b[i] = reply[r].at /\ h[i] = g[r]
      BY <2>2 DEF Metered
    <2>3. QED
      BY <1>6, <2>1, <2>2
  <1>8. \A i, j \in Nat : Recent(i, k)' /\ Recent(j, k)' /\ i # j => h[i] # h[j]
    <2> SUFFICES ASSUME NEW i \in Nat, NEW j \in Nat, Recent(i, k)', Recent(j, k)', i # j
                 PROVE  h[i] # h[j]
      OBVIOUS
    <2>1. CASE i = n + 1
      <3>1. h[i] = g[r] /\ Pending(r, k) /\ Recent(j, k) /\ h[j] = f[j]
        BY <1>6, <2>1
      <3>2. QED
        BY <3>1 DEF Metered
    <2>2. CASE j = n + 1
      <3>1. h[j] = g[r] /\ Pending(r, k) /\ Recent(i, k) /\ h[i] = f[i]
        BY <1>6, <2>2
      <3>2. QED
        BY <3>1 DEF Metered
    <2>3. CASE i # n + 1 /\ j # n + 1
      <3>1. Recent(i, k) /\ h[i] = f[i] /\ Recent(j, k) /\ h[j] = f[j]
        BY <1>6, <2>3
      <3>2. QED
        BY <3>1 DEF Metered
    <2>4. QED
      BY <2>1, <2>2, <2>3
  <1>9. \A i \in Nat, q \in Req : Recent(i, k)' /\ Pending(q, k)' => h[i] # g[q]
    <2> SUFFICES ASSUME NEW i \in Nat, NEW q \in Req, Recent(i, k)', Pending(q, k)'
                 PROVE  h[i] # g[q]
      OBVIOUS
    <2>1. q # r /\ Pending(q, k)
      BY <1>4
    <2>2. CASE Recent(i, k) /\ h[i] = f[i]
      BY <2>1, <2>2 DEF Metered
    <2>3. CASE Pending(r, k) /\ h[i] = g[r]
      BY <2>1, <2>3 DEF Metered
    <2>4. QED
      BY <1>6, <2>2, <2>3
  <1>10. /\ \A q \in Req : Pending(q, k)' => g[q] \in 1 .. Len(allowed[k]) /\ allowed[k][g[q]] = reply'[q].at
         /\ \A p, q \in Req : Pending(p, k)' /\ Pending(q, k)' /\ p # q => g[p] # g[q]
    BY <1>4 DEF Metered
  <1>11. Metered(k, h, g)'
    BY <1>1, <1>3, <1>7, <1>8, <1>9, <1>10 DEF Metered
  <1>12. QED
    BY <1>11

LEMMA MeterStep ==
  ASSUME TypeOK, TypeOK', PastInv, NEW k \in FailClosed,
         NEW f \in [Place -> Place], NEW g \in [Req -> Place], Metered(k, f, g), [Next]_vars
  PROVE  \E f2 \in [Place -> Place], g2 \in [Req -> Place] : Metered(k, f2, g2)'
  <1>0. k \in Key
    BY KeyAssumption
  <1>1. CASE UNCHANGED vars
    <2>1. \A r \in Req : Pending(r, k)' => Pending(r, k) /\ reply'[r] = reply[r]
      BY <1>1 DEF vars, Pending
    <2>2. QED
      BY <1>0, <1>1, <2>1, MeterKept DEF vars
  <1>2. CASE Tick
    <2>1. UNCHANGED <<allowed, passed, since, pc, key, reply>>
      BY <1>2 DEF Tick, hist
    <2>2. \A r \in Req : Pending(r, k)' => Pending(r, k) /\ reply'[r] = reply[r]
      BY <2>1 DEF Pending
    <2>3. QED
      BY <1>0, <2>1, <2>2, MeterKept
  <1>3. CASE Flush
    <2>1. since' = now + 1 /\ passed' = passed /\ reply' = reply /\ now \in Nat
      BY <1>3 DEF Flush, TypeOK
    <2>a. now \in Nat
      BY <2>1
    <2>2. \A i \in Nat : ~Recent(i, k)'
      <3>1. \A i \in 1 .. Len(passed[k]) : passed[k][i] \in Nat /\ passed[k][i] <= now
        BY <1>0, Times DEF PastInv, TypeOK
      <3>2. ASSUME NEW i \in 1 .. Len(passed[k]) PROVE ~(passed[k][i] >= now + 1)
        <4>1. PICK t \in Nat : t = passed[k][i] /\ t <= now
          BY <3>1
        <4>2. ~(t >= now + 1)
          BY <2>a, <4>1
        <4>3. QED
          BY <4>1, <4>2
      <3>3. QED
        BY <2>1, <3>2 DEF Recent
    <2>3. \A r \in Req : ~Pending(r, k)'
      <3>1. \A r \in Req : reply[r].at \in Nat /\ reply[r].at <= now
        BY DEF PastInv, TypeOK, Reply
      <3>2. QED
        BY <2>1, <3>1 DEF Pending
    <2>4. Metered(k, f, g)'
      BY <2>2, <2>3 DEF Metered
    <2>5. QED
      BY <2>4
  <1>4. ASSUME NEW r \in Req, Arrive(r) \/ Lose(r) \/ Unreachable(r) \/ OnError(r)
        PROVE  Metered(k, f, g)'
    <2>1. allowed' = allowed /\ since' = since
      BY <1>4 DEF Arrive, Lose, Unreachable, OnError, hist
    <2>2. passed'[k] = passed[k]
      BY <1>0, <1>4 DEF Arrive, Lose, Unreachable, OnError, Refuses, hist, TypeOK
    <2>3. pc'[r] # "replied"
      BY <1>4 DEF Arrive, Lose, Unreachable, OnError, TypeOK
    <2>4. \A q \in Req \ {r} : pc'[q] = pc[q] /\ key'[q] = key[q] /\ reply'[q] = reply[q]
      BY <1>4 DEF Arrive, Lose, Unreachable, OnError, TypeOK
    <2>5. \A q \in Req : Pending(q, k)' => Pending(q, k) /\ reply'[q] = reply[q]
      BY <2>1, <2>3, <2>4 DEF Pending
    <2>6. QED
      BY <1>0, <2>1, <2>2, <2>5, MeterKept
  <1>5. ASSUME NEW r \in Req, Eval(r)
        PROVE  \E f2 \in [Place -> Place], g2 \in [Req -> Place] : Metered(k, f2, g2)'
    <2>1. CASE key[r] = k /\ Allows(Incremented(k))
      BY <1>0, <1>5, <2>1, MeterAllowed
    <2>2. CASE key[r] # k
      <3>1. allowed'[k] = allowed[k] /\ passed'[k] = passed[k] /\ since' = since
        BY <1>0, <1>5, <2>2 DEF Eval, TypeOK
      <3>2. \A q \in Req : Pending(q, k)' => Pending(q, k) /\ reply'[q] = reply[q]
        BY <1>5, <2>2, <3>1 DEF Eval, Pending, TypeOK
      <3>3. QED
        BY <1>0, <3>1, <3>2, MeterKept
    <2>3. CASE key[r] = k /\ ~Allows(Incremented(k))
      <3>1. allowed'[k] = allowed[k] /\ passed'[k] = passed[k] /\ since' = since /\ key' = key
        BY <1>5, <2>3 DEF Eval
      <3>2. ~reply'[r].ok /\ \A q \in Req \ {r} : pc'[q] = pc[q] /\ reply'[q] = reply[q]
        <4>1. PICK b : b = Allows(Incremented(k))
          OBVIOUS
        <4>2. PICK d : d = ExpireAfter(k, Incremented(k)) - now
          OBVIOUS
        <4>3. reply' = [reply EXCEPT ![r] = [ok |-> b, ttl |-> d, at |-> now]]
          BY <1>5, <2>3, <4>1, <4>2, Zenon DEF Eval
        <4>4. reply'[r].ok = b
          BY <4>3 DEF TypeOK
        <4>5. ~b
          BY <2>3, <4>1
        <4>6. \A q \in Req \ {r} : pc'[q] = pc[q] /\ reply'[q] = reply[q]
          BY <1>5 DEF Eval, TypeOK
        <4>7. QED
          BY <4>4, <4>5, <4>6
      <3>3. \A q \in Req : Pending(q, k)' => Pending(q, k) /\ reply'[q] = reply[q]
        BY <3>1, <3>2 DEF Pending
      <3>4. QED
        BY <1>0, <3>1, <3>3, MeterKept
    <2>4. QED
      BY <2>1, <2>2, <2>3
  <1>6. ASSUME NEW r \in Req, Verdict(r)
        PROVE  \E f2 \in [Place -> Place], g2 \in [Req -> Place] : Metered(k, f2, g2)'
    <2>1. CASE key[r] = k /\ reply[r].ok
      BY <1>0, <1>6, <2>1, MeterPassed
    <2>2. CASE ~(key[r] = k /\ reply[r].ok)
      <3>1. allowed' = allowed /\ passed'[k] = passed[k] /\ since' = since
        BY <1>0, <1>6, <2>2 DEF Verdict, TypeOK
      <3>2. \A q \in Req : Pending(q, k)' => Pending(q, k) /\ reply'[q] = reply[q]
        <4>1. pc'[r] # "replied" /\ key' = key
          BY <1>6 DEF Verdict, TypeOK
        <4>2. \A q \in Req \ {r} : pc'[q] = pc[q] /\ reply'[q] = reply[q]
          BY <1>6 DEF Verdict, TypeOK
        <4>3. QED
          BY <3>1, <4>1, <4>2 DEF Pending
      <3>3. QED
        BY <1>0, <3>1, <3>2, MeterKept
    <2>3. QED
      BY <2>1, <2>2
  <1>7. QED
    BY <1>1, <1>2, <1>3, <1>4, <1>5, <1>6 DEF Next, Handle

LEMMA MeterNext == TypeOK /\ TypeOK' /\ MeterInv /\ [Next]_vars => MeterInv'
  <1> SUFFICES ASSUME TypeOK, TypeOK', MeterInv, [Next]_vars PROVE MeterInv'
    OBVIOUS
  <1>1. PastInv'
    BY PastNext DEF MeterInv
  <1>2. ASSUME NEW k \in FailClosed
        PROVE  \E f2 \in [Place -> Place], g2 \in [Req -> Place] : Metered(k, f2, g2)'
    <2>1. PICK f \in [Place -> Place], g \in [Req -> Place] : Metered(k, f, g)
      BY DEF MeterInv
    <2>2. QED
      BY <2>1, MeterStep DEF MeterInv
  <1>3. QED
    BY <1>1, <1>2 DEF MeterInv

\* A burst of requests let through is, one to one, a burst of allowed runs.
LEMMA BurstIsBounded ==
  ASSUME TypeOK, NEW k \in Key, NEW f \in [Place -> Place], NEW g \in [Req -> Place],
         Metered(k, f, g), Spaced(allowed[k]), NEW from \in Nat, from >= since
  PROVE  Cardinality({j \in 1 .. Len(passed[k]) : passed[k][j] \in from .. from + Window})
           <= 2 * Limit - 1
  <1> DEFINE J == {j \in 1 .. Len(passed[k]) : passed[k][j] \in from .. from + Window}
             T == {f[j] : j \in J}
  <1>0. Limit \in Nat /\ Limit >= 1 /\ Window \in Nat /\ since \in Nat
    BY LimitType DEF TypeOK
  <1>a. PICK n \in Nat : n = Len(passed[k])
    BY Times DEF TypeOK
  <1>1. \A j \in J : j \in Nat /\ Recent(j, k)
    <2> SUFFICES ASSUME NEW j \in J PROVE j \in Nat /\ Recent(j, k)
      OBVIOUS
    <2>1. j \in 1 .. Len(passed[k]) /\ passed[k][j] \in from .. from + Window
      OBVIOUS
    <2>2. j \in Nat
      BY <1>a, <2>1
    <2>3. PICK t \in from .. from + Window : t = passed[k][j]
      BY <2>1
    <2>4. t >= since
      BY <1>0
    <2>5. QED
      BY <2>1, <2>2, <2>3, <2>4 DEF Recent
  <1>2. /\ \A j \in J : f[j] \in 1 .. Len(allowed[k]) /\ allowed[k][f[j]] = passed[k][j]
        /\ \A i, j \in J : i # j => f[i] # f[j]
    BY <1>1 DEF Metered
  <1>3. CASE J = {}
    <2>1. Cardinality(J) = 0
      BY <1>3, FS_EmptySet
    <2>2. QED
      BY <1>0, <2>1
  <1>4. CASE J # {}
    <2>1. T \subseteq Nat /\ T # {}
      <3>1. \A j \in J : f[j] \in Nat
        BY <1>2
      <3>2. QED
        BY <1>4, <3>1
    <2>2. PICK x \in T : \A y \in T : x <= y
      BY <2>1, Earliest
    <2>3. \A y \in T : /\ y \in 1 .. Len(allowed[k])
                       /\ allowed[k][y] \in from .. from + Window
      BY <1>2
    <2>4. ASSUME NEW y \in T PROVE y \in x .. x + (2 * Limit - 2)
      <3>1. x \in Nat /\ y \in Nat /\ x <= y
        BY <2>1, <2>2
      <3>2. ~(allowed[k][y] > allowed[k][x] + Window)
        <4>1. PICK u \in from .. from + Window : u = allowed[k][x]
          BY <2>3
        <4>2. PICK v \in from .. from + Window : v = allowed[k][y]
          BY <2>3
        <4>3. ~(v > u + Window)
          BY <1>0
        <4>4. QED
          BY <4>1, <4>2, <4>3
      <3>3. ~(y - x >= 2 * Limit - 1)
        BY <2>3, <3>2 DEF Spaced
      <3>4. QED
        BY <1>0, <3>1, <3>3, SMTT(30)
    <2>5. /\ IsFiniteSet(x .. x + (2 * Limit - 2))
          /\ Cardinality(x .. x + (2 * Limit - 2)) = 2 * Limit - 1
      <3>1. x \in Int /\ x + (2 * Limit - 2) \in Int /\ ~(x > x + (2 * Limit - 2))
        <4>1. x \in Nat
          BY <2>1, <2>2
        <4>2. QED
          BY <1>0, <4>1
      <3>2. (x + (2 * Limit - 2)) - x + 1 = 2 * Limit - 1
        BY <1>0, <3>1
      <3>3. QED
        BY <3>1, <3>2, FS_Interval
    <2>6. [j \in J |-> f[j]] \in Injection(J, x .. x + (2 * Limit - 2))
      <3> DEFINE b == [j \in J |-> f[j]]
      <3>1. b \in [J -> x .. x + (2 * Limit - 2)]
        BY <2>4
      <3>2. \A i, j \in J : b[i] = b[j] => i = j
        BY <1>2
      <3> HIDE DEF b, J
      <3>3. QED
        BY <3>1, <3>2 DEF Injection, IsInjective, b
    <2>7. Cardinality(J) <= Cardinality(x .. x + (2 * Limit - 2))
      BY <2>5, <2>6, FS_Injection
    <2>8. QED
      BY <2>5, <2>7
  <1>5. QED
    BY <1>3, <1>4

\* No interval of a window's length sees more than 2 * Limit - 1 requests reach the
\* handler of a route that fails closed, whatever replies are lost, scripts sent again
\* and errors met, as long as Redis keeps its data.
THEOREM NobodyPassesUncounted == Spec => []FailClosedBound
  <1>1. TypeOK /\ WindowInv /\ MeterInv => FailClosedBound
    <2> SUFFICES ASSUME TypeOK, WindowInv, MeterInv, NEW k \in FailClosed,
                        NEW i \in 1 .. Len(passed[k]), passed[k][i] >= since
                 PROVE  Cardinality({j \in 1 .. Len(passed[k]) :
                                       passed[k][j] \in passed[k][i] .. passed[k][i] + Window})
                          <= 2 * Limit - 1
      BY DEF FailClosedBound
    <2>1. k \in Key
      BY KeyAssumption
    <2>2. passed[k][i] \in Nat /\ Spaced(allowed[k])
      BY <2>1, Times DEF TypeOK, WindowInv
    <2>3. PICK f \in [Place -> Place], g \in [Req -> Place] : Metered(k, f, g)
      BY DEF MeterInv
    <2>4. QED
      BY <2>1, <2>2, <2>3, BurstIsBounded
  <1>2. QED
    BY TypingInit, TypingNext, WindowInit, WindowNext, MeterInit, MeterNext, <1>1, PTL DEF Spec
=============================================================================
