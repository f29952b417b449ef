------------------------- MODULE MessageQueueProofs -------------------------
(***************************************************************************)
(* Proofs about MessageQueue, for every number of logins, consumers,       *)
(* places and retries, all length limits and any faults.  The bound        *)
(* MaxEntries can be any number.                                           *)
(***************************************************************************)
EXTENDS MessageQueue, FiniteSetTheorems, TLAPS

\* A busy consumer works on an entry of the log; what is pending was delivered.
Working ==
  /\ \A c \in Consumer : pc[c] # "idle" => item[c] \in 1 .. Len(log)
  /\ \A i \in Pos : owner[i] # NotPending => i <= delivered

\* Only what is settled is about to be acknowledged.
AckSettled == \A c \in Consumer : pc[c] = "ack" => Settled(item[c])

\* Some limit that is in force allows what was deleted so far.
TrimBound == trimmed # 0 => \E n \in Limits \ {0} : trimmed <= Len(log) - n

Inv == TypeOK /\ Working /\ AckSettled /\ TrimBound /\ NothingDropped

LEMMA LimitTypes == PublishMaxLen \in Nat /\ TrimMaxLen \in Nat /\ Keep = TrimMaxLen /\ Limits \subseteq Nat
BY LimitAssumption DEF PublishMaxLen, TrimMaxLen, Keep, Limits

LEMMA LargerOf == \A a, b \in Int : Larger(a, b) \in {a, b} /\ a <= Larger(a, b) /\ b <= Larger(a, b)
BY DEF Larger

LEMMA InitInv == Init => Inv
<1> SUFFICES ASSUME Init PROVE Inv
  OBVIOUS
<1> USE DEF Init
<1>1. TypeOK
  BY BoundAssumption, RetryAssumption DEF TypeOK
<1>2. Working /\ AckSettled /\ TrimBound
  BY DEF Working, AckSettled, TrimBound
<1>3. NothingDropped
  BY DEF NothingDropped
<1> QED
  BY <1>1, <1>2, <1>3 DEF Inv

-----------------------------------------------------------------------------
(* The steps that touch the stream *)

\* XADD appends one entry and deletes no more than its limit allows.
LEMMA AddEffect ==
  ASSUME Inv, NEW m \in Msg, Add(m)
  PROVE  /\ log' \in Seq(Msg) /\ Len(log') = Len(log) + 1 /\ Len(log') <= MaxEntries
         /\ trimmed' \in trimmed .. Len(log')
         /\ TrimBound'
<1>1. /\ log \in Seq(Msg) /\ Len(log) \in Nat /\ MaxEntries \in Nat
      /\ trimmed \in 0 .. Len(log)
  BY BoundAssumption DEF Inv, TypeOK
<1>2. log' \in Seq(Msg) /\ Len(log') = Len(log) + 1 /\ Len(log') <= MaxEntries
  BY <1>1 DEF Add
<1>3. CASE trimmed' = trimmed
  <2>1. trimmed # 0 => \E n \in Limits \ {0} : trimmed <= Len(log) - n
    BY DEF Inv, TrimBound
  <2>2. (trimmed # 0 => \E n \in Limits \ {0} : trimmed <= Len(log) - n)'
    BY <1>1, <1>2, <1>3, <2>1, LimitTypes DEF Limits, PublishMaxLen, TrimMaxLen
  <2> QED
    BY <1>1, <1>2, <1>3, <2>2 DEF TrimBound
<1>4. CASE trimmed' # trimmed
  <2>1. /\ PublishMaxLen # 0
        /\ trimmed' \in trimmed .. Larger(trimmed, Len(log) + 1 - PublishMaxLen)
    BY <1>4 DEF Add
  <2>2. trimmed' \in trimmed .. Len(log') /\ trimmed' <= Len(log') - PublishMaxLen
    BY <1>1, <1>2, <1>4, <2>1, LimitTypes, LargerOf DEF Larger
  <2>3. PublishMaxLen \in Limits \ {0}
    BY <2>1 DEF Limits
  <2>4. TrimBound'
    BY <2>2, <2>3 DEF TrimBound, Limits, PublishMaxLen, TrimMaxLen
  <2> QED
    BY <1>2, <2>2, <2>4
<1> QED
  BY <1>3, <1>4

\* What publishing and trimming do, as far as the consumers can tell.
StreamMoves ==
  /\ UNCHANGED <<delivered, owner, ahead, pc, item, tries, handled, poisoned, ran>>
  /\ log' \in Seq(Msg) /\ Len(log') >= Len(log) /\ Len(log') <= MaxEntries
  /\ Len(log') \in Nat
  /\ trimmed' \in trimmed .. Len(log')
  /\ TrimBound'
  /\ login' \in [Msg -> {"none", "publish", "sent", "failed"}]
  /\ failures' \in failures .. MaxFaults

LEMMA FaultCounts ==
  ASSUME Inv, NEW f, Fault(f)
  PROVE  failures' \in failures .. MaxFaults /\ failures' = failures + 1 /\ f \in Faults
BY BoundAssumption DEF Inv, TypeOK, Fault

LEMMA Same == ASSUME Inv, UNCHANGED stream PROVE TrimBound'
BY DEF Inv, stream, TrimBound, Limits, PublishMaxLen, TrimMaxLen

LEMMA StreamAction ==
  ASSUME Inv, Trim \/ \E m \in Msg : Login(m) \/ Publish(m)
  PROVE  StreamMoves
<1>1. /\ log \in Seq(Msg) /\ Len(log) \in Nat /\ trimmed \in 0 .. Len(log)
      /\ Len(log) <= MaxEntries /\ MaxEntries \in Nat
      /\ failures \in 0 .. MaxFaults
      /\ login \in [Msg -> {"none", "publish", "sent", "failed"}]
  BY BoundAssumption DEF Inv, TypeOK
<1>2. CASE Trim
  <2>1. /\ UNCHANGED <<login, log, group, ahead, work, hist, failures>>
        /\ trimmed' = Len(log) - Keep /\ Keep > 0 /\ TrimInterval > 0
        /\ Len(log) - trimmed > Keep
    BY <1>2 DEF Trim
  <2>2. trimmed' \in trimmed .. Len(log)
    BY <1>1, <2>1, LimitTypes
  <2>3. TrimMaxLen \in Limits \ {0}
    BY <2>1, LimitTypes DEF Limits
  <2>4. TrimBound'
    BY <1>1, <2>1, <2>3, LimitTypes DEF TrimBound, Limits, PublishMaxLen, TrimMaxLen
  <2> QED
    BY <1>1, <2>1, <2>2, <2>4 DEF StreamMoves, group, work, hist
<1>3. ASSUME NEW m \in Msg, Login(m) PROVE StreamMoves
  BY <1>1, <1>3, Same DEF Login, StreamMoves, stream, group, work, hist
<1>4. ASSUME NEW m \in Msg, Publish(m) PROVE StreamMoves
  <2> USE <1>1 DEF StreamMoves, stream, group, work, hist
  <2>1. UNCHANGED <<group, ahead, work, hist>>
    BY <1>4 DEF Publish
  <2>2. CASE Add(m) /\ login' = [login EXCEPT ![m] = "sent"] /\ UNCHANGED failures
    BY <2>1, <2>2, AddEffect
  <2>3. CASE Fault("redis") /\ login' = [login EXCEPT ![m] = "failed"] /\ UNCHANGED stream
    BY <2>1, <2>3, Same, FaultCounts
  <2>4. CASE Fault("redis") /\ Add(m) /\ login' \in {login, [login EXCEPT ![m] = "failed"]}
    BY <2>1, <2>4, AddEffect, FaultCounts
  <2> QED
    BY <1>4, <2>2, <2>3, <2>4 DEF Publish
<1> QED
  BY <1>2, <1>3, <1>4

LEMMA StreamStep == ASSUME Inv, StreamMoves PROVE Inv'
<1>1. TypeOK'
  BY DEF Inv, TypeOK, StreamMoves
<1>2. Working' /\ AckSettled'
  BY DEF Inv, TypeOK, Working, AckSettled, Settled, StreamMoves
<1>3. NothingDropped'
  BY DEF Inv, TypeOK, NothingDropped, Settled, StreamMoves
<1> QED
  BY <1>1, <1>2, <1>3 DEF Inv, StreamMoves

-----------------------------------------------------------------------------
(* The steps of the consumers *)

\* Hold for an entry that exists and was delivered.
LEMMA HoldStep ==
  ASSUME Inv, NEW c \in Consumer, NEW i \in Pos, Hold(c, i),
         trimmed < i, i <= Len(log),
         delivered' \in delivered .. Len(log), i <= delivered',
         \A k \in delivered + 1 .. delivered' : k > trimmed => k = i,
         UNCHANGED <<login, stream, work, hist>>, failures' \in 0 .. MaxFaults
  PROVE  Inv'
<1> USE DEF stream, work, hist
<1>1. PICK h \in {c} \X Place : /\ owner' = [owner EXCEPT ![i] = c]
                         /\ ahead' = [ahead EXCEPT ![h] = i]
  BY DEF Hold
<1>2. TypeOK'
  <2>1. /\ Len(log) \in Nat /\ i \in 0 .. Len(log) /\ delivered' \in 0 .. Len(log)
    BY BoundAssumption DEF Inv, TypeOK, Pos
  <2>2. owner' \in [Pos -> Consumer \union {Nobody, NotPending}]
    BY <1>1 DEF Inv, TypeOK
  <2>3. ahead' \in [Consumer \X Place -> 0 .. Len(log)]
    BY <1>1, <2>1 DEF Inv, TypeOK
  <2> QED
    BY <2>1, <2>2, <2>3 DEF Inv, TypeOK
<1>3. Working' /\ AckSettled' /\ TrimBound'
  <2>1. AckSettled' /\ TrimBound'
    BY Same DEF Inv, AckSettled, Settled
  <2>2. \A k \in Pos : owner'[k] # NotPending => k = i \/ owner[k] # NotPending
    BY <1>1 DEF Inv, TypeOK
  <2>3. delivered \in Nat /\ delivered' \in Nat /\ delivered' >= delivered /\ \A k \in Pos : k \in Nat
    BY DEF Inv, TypeOK, Pos
  <2>4. \A k \in Pos : owner'[k] # NotPending => k <= delivered'
    BY <2>2, <2>3 DEF Inv, Working
  <2> QED
    BY <2>1, <2>4 DEF Inv, Working
<1>4. NothingDropped'
  <2> SUFFICES ASSUME NEW k \in 1 .. delivered', k > trimmed', owner'[k] = NotPending
               PROVE  Settled(k)'
    BY DEF NothingDropped
  <2>0. /\ delivered \in Nat /\ delivered' \in Nat /\ Len(log) \in Nat
        /\ MaxEntries \in Nat /\ delivered' <= MaxEntries
    BY BoundAssumption DEF Inv, TypeOK
  <2>1. k \in Pos /\ k # i
    <3>1. k \in Pos
      BY <2>0 DEF Pos
    <3>2. owner'[i] = c
      BY <1>1 DEF Inv, TypeOK
    <3> QED
      BY <3>1, <3>2, OwnerAssumption
  <2>2. owner[k] = NotPending /\ k > trimmed
    BY <1>1, <2>1 DEF Inv, TypeOK
  <2>3. k \in 1 .. delivered
    BY <2>0, <2>1, <2>2
  <2> QED
    BY <2>2, <2>3 DEF Inv, NothingDropped, Settled
<1> QED
  BY <1>2, <1>3, <1>4 DEF Inv

\* XREADGROUP hands over an entry of the stream nobody had.
LEMMA FetchEffect ==
  ASSUME Inv, NEW c \in Consumer, Fetch(c)
  PROVE  \E i \in Pos :
           /\ Hold(c, i) /\ i > delivered /\ i > trimmed /\ i <= Len(log) /\ delivered' = i
           /\ i = delivered + 1 \/ i = trimmed + 1
           /\ UNCHANGED <<login, stream, work, hist, failures>>
<1> DEFINE i == Larger(delivered, trimmed) + 1
<1>1. /\ delivered \in 0 .. Len(log) /\ trimmed \in 0 .. Len(log)
      /\ Len(log) \in Nat /\ Len(log) <= MaxEntries /\ MaxEntries \in Nat
  BY BoundAssumption DEF Inv, TypeOK
<1>2. /\ i <= Len(log) /\ delivered' = i /\ Hold(c, i)
      /\ UNCHANGED <<login, stream, work, hist, failures>>
  BY DEF Fetch
<1>3. i \in Int /\ i > delivered /\ i > trimmed /\ (i = delivered + 1 \/ i = trimmed + 1)
  BY <1>1, LargerOf
<1> HIDE DEF i
<1>4. i \in Pos
  BY <1>1, <1>2, <1>3 DEF Pos
<1> QED
  BY <1>2, <1>3, <1>4

LEMMA FetchStep == ASSUME Inv, NEW c \in Consumer, Fetch(c) PROVE Inv'
<1>1. PICK i \in Pos :
        /\ Hold(c, i) /\ i > delivered /\ i > trimmed /\ i <= Len(log) /\ delivered' = i
        /\ i = delivered + 1 \/ i = trimmed + 1
        /\ UNCHANGED <<login, stream, work, hist, failures>>
  BY FetchEffect
<1>2. /\ delivered \in 0 .. Len(log) /\ trimmed \in 0 .. Len(log)
      /\ Len(log) \in Nat /\ i \in Nat /\ failures' \in 0 .. MaxFaults
  BY <1>1, BoundAssumption DEF Inv, TypeOK, Pos
<1>3. delivered' \in delivered .. Len(log) /\ i <= delivered'
  BY <1>1, <1>2
<1>4. \A k \in delivered + 1 .. delivered' : k > trimmed => k = i
  BY <1>1, <1>2
<1> QED
  BY <1>1, <1>2, <1>3, <1>4, HoldStep

\* XCLAIM takes an entry that was pending; each one of a living consumer is a failure.
ClaimMoves(c, i) ==
  /\ IF i > trimmed THEN Hold(c, i)
     ELSE owner' = [owner EXCEPT ![i] = NotPending] /\ UNCHANGED ahead
  /\ owner[i] # NotPending
  /\ failures' \in failures .. MaxFaults
  /\ owner[i] = Nobody \/ failures' = failures + 1
  /\ UNCHANGED <<login, stream, delivered, work, hist>>

LEMMA ClaimEffect ==
  ASSUME Inv, NEW c \in Consumer, Claim(c) PROVE \E i \in Pos : ClaimMoves(c, i)
<1>1. PICK i \in Pos : /\ Idling(i)
                       /\ IF i > trimmed THEN Hold(c, i)
                          ELSE owner' = [owner EXCEPT ![i] = NotPending] /\ UNCHANGED ahead
  BY DEF Claim
<1>2. UNCHANGED <<login, stream, delivered, work, hist>>
  BY DEF Claim
<1>3. failures \in 0 .. MaxFaults /\ MaxFaults \in Nat
  BY BoundAssumption DEF Inv, TypeOK
<1>4. CASE owner[i] = Nobody /\ UNCHANGED failures
  BY <1>1, <1>2, <1>3, <1>4, OwnerAssumption DEF ClaimMoves
<1>5. CASE owner[i] \in Consumer /\ Fault("slow")
  <2>1. failures' \in failures .. MaxFaults /\ failures' = failures + 1
    BY <1>5, FaultCounts
  <2>2. owner[i] # NotPending
    BY <1>5, OwnerAssumption
  <2> QED
    BY <1>1, <1>2, <2>1, <2>2 DEF ClaimMoves
<1> QED
  BY <1>1, <1>4, <1>5 DEF Idling

LEMMA ClaimStep == ASSUME Inv, NEW c \in Consumer, Claim(c) PROVE Inv'
<1>1. PICK i \in Pos : ClaimMoves(c, i)
  BY ClaimEffect
<1>2. /\ UNCHANGED <<login, stream, delivered, work, hist>> /\ owner[i] # NotPending
      /\ failures' \in failures .. MaxFaults
  BY <1>1 DEF ClaimMoves
<1>3. /\ i <= delivered /\ delivered \in 0 .. Len(log) /\ Len(log) \in Nat /\ i \in Nat
      /\ trimmed \in Nat /\ failures' \in 0 .. MaxFaults
  BY <1>2, BoundAssumption DEF Inv, TypeOK, Working, Pos
<1>4. CASE i > trimmed
  <2>1. delivered' \in delivered .. Len(log) /\ i <= delivered' /\ i <= Len(log)
    BY <1>2, <1>3
  <2>2. \A k \in delivered + 1 .. delivered' : k > trimmed => k = i
    BY <1>2, <1>3
  <2>3. Hold(c, i)
    BY <1>1, <1>4 DEF ClaimMoves
  <2> QED
    BY <1>2, <1>3, <1>4, <2>1, <2>2, <2>3, HoldStep
<1>5. CASE ~(i > trimmed)
  <2>1. /\ owner' = [owner EXCEPT ![i] = NotPending]
        /\ UNCHANGED <<login, stream, ahead, work, delivered, hist>>
    BY <1>1, <1>2, <1>5 DEF ClaimMoves
  <2> USE <2>1 DEF stream, work, hist
  <2>2. TypeOK'
    BY <1>3 DEF Inv, TypeOK
  <2>3. Working' /\ AckSettled' /\ TrimBound'
    BY Same DEF Inv, TypeOK, Working, AckSettled, Settled
  <2>4. NothingDropped'
    BY <1>3, <1>5 DEF Inv, TypeOK, NothingDropped, Settled, Pos
  <2> QED
    BY <2>2, <2>3, <2>4 DEF Inv
<1> QED
  BY <1>4, <1>5

\* The handler is given an entry that waited.
LEMMA BeginEffect ==
  ASSUME Inv, NEW c \in Consumer, Begin(c)
  PROVE  \E h \in {c} \X Place :
           /\ ahead[h] \in 1 .. Len(log) /\ ahead[h] \in Pos
           /\ ahead' = [ahead EXCEPT ![h] = 0]
           /\ item' = [item EXCEPT ![c] = ahead[h]]
<1>1. PICK h \in {c} \X Place : /\ ahead[h] # 0
                         /\ ahead' = [ahead EXCEPT ![h] = 0]
                         /\ item' = [item EXCEPT ![c] = ahead[h]]
  BY DEF Begin
<1>2. /\ ahead[h] \in 0 .. Len(log) /\ Len(log) \in Nat
      /\ Len(log) <= MaxEntries /\ MaxEntries \in Nat
  BY BoundAssumption DEF Inv, TypeOK
<1>3. ahead[h] \in 1 .. Len(log) /\ ahead[h] \in Pos
  BY <1>1, <1>2 DEF Pos
<1> QED
  BY <1>1, <1>3

LEMMA BeginStep == ASSUME Inv, NEW c \in Consumer, Begin(c) PROVE Inv'
<1> USE DEF stream, group, hist
<1>1. PICK h \in {c} \X Place : /\ ahead[h] \in 1 .. Len(log) /\ ahead[h] \in Pos
                         /\ ahead' = [ahead EXCEPT ![h] = 0]
                         /\ item' = [item EXCEPT ![c] = ahead[h]]
  BY BeginEffect
<1>2. /\ pc' = [pc EXCEPT ![c] = "handle"] /\ tries' = [tries EXCEPT ![c] = 0]
      /\ UNCHANGED <<login, stream, group, hist, failures>>
  BY DEF Begin
<1>3. TypeOK'
  <2>1. 0 \in 0 .. MaxRetries /\ 0 \in 0 .. Len(log) /\ ahead[h] \in 0 .. Len(log)
    BY <1>1, RetryAssumption DEF Inv, TypeOK
  <2>2. ahead' \in [Consumer \X Place -> 0 .. Len(log)]
    BY <1>1, <2>1 DEF Inv, TypeOK
  <2>3. item' \in [Consumer -> 0 .. Len(log)] /\ tries' \in [Consumer -> 0 .. MaxRetries]
    BY <1>1, <1>2, <2>1 DEF Inv, TypeOK
  <2>4. pc' \in [Consumer -> {"idle", "handle", "poison", "ack"}]
    BY <1>2 DEF Inv, TypeOK
  <2> QED
    BY <1>2, <2>2, <2>3, <2>4 DEF Inv, TypeOK
<1>4. Working'
  BY <1>1, <1>2 DEF Inv, TypeOK, Working
<1>5. AckSettled'
  BY <1>1, <1>2 DEF Inv, TypeOK, AckSettled, Settled
<1>6. TrimBound' /\ NothingDropped'
  BY <1>2, Same DEF Inv, NothingDropped, Settled
<1> QED
  BY <1>3, <1>4, <1>5, <1>6 DEF Inv

\* A step of a busy consumer that leaves stream and group alone, settles nothing less
\* than before, and moves on to "ack" with its entry settled.
LEMMA WorkStep ==
  ASSUME Inv, NEW c \in Consumer, pc[c] # "idle",
         UNCHANGED <<login, stream, group, ahead, item>>,
         NEW s \in {"handle", "poison", "ack"}, pc' = [pc EXCEPT ![c] = s],
         tries' \in [Consumer -> 0 .. MaxRetries],
         handled' \in {handled, handled \union {item[c]}},
         poisoned' \in {poisoned, poisoned \union {item[c]}},
         ran' \in [Pos -> Nat],
         s = "ack" => item[c] \in handled' \union poisoned',
         failures' \in 0 .. MaxFaults
  PROVE  Inv'
<1> USE DEF stream, group
<1>1. item[c] \in Pos
  BY BoundAssumption DEF Inv, TypeOK, Working, Pos
<1>2. TypeOK'
  BY <1>1 DEF Inv, TypeOK
<1>3. Working'
  BY DEF Inv, TypeOK, Working
<1>4. AckSettled'
  BY DEF Inv, TypeOK, AckSettled, Settled
<1>5. TrimBound' /\ NothingDropped'
  BY Same DEF Inv, NothingDropped, Settled
<1> QED
  BY <1>2, <1>3, <1>4, <1>5 DEF Inv

LEMMA HandleStep == ASSUME Inv, NEW c \in Consumer, Handle(c) PROVE Inv'
<1>1. /\ pc[c] = "handle" /\ ran' = [ran EXCEPT ![item[c]] = @ + 1]
      /\ UNCHANGED <<login, stream, group, ahead, item, tries, poisoned, failures>>
  BY DEF Handle
<1>2. /\ ran' \in [Pos -> Nat] /\ tries' \in [Consumer -> 0 .. MaxRetries]
      /\ failures' \in 0 .. MaxFaults
  <2>1. item[c] \in Pos
    BY <1>1, BoundAssumption DEF Inv, TypeOK, Working, Pos
  <2>2. ran \in [Pos -> Nat]
    BY DEF Inv, TypeOK
  <2>3. ran' \in [Pos -> Nat]
    BY <1>1, <2>1, <2>2
  <2> QED
    BY <1>1, <2>3 DEF Inv, TypeOK
<1>3. CASE pc' = [pc EXCEPT ![c] = "ack"] /\ handled' = handled \union {item[c]}
  BY <1>1, <1>2, <1>3, WorkStep
<1>4. CASE pc' = [pc EXCEPT ![c] = "poison"] /\ handled' = handled
  BY <1>1, <1>2, <1>4, WorkStep
<1> QED
  BY <1>3, <1>4 DEF Handle, AfterError

LEMMA PoisonStep == ASSUME Inv, NEW c \in Consumer, Poison(c) PROVE Inv'
<1>1. pc[c] = "poison" /\ UNCHANGED <<login, stream, group, ahead, item, handled, ran>>
  BY DEF Poison
<1>2. ran' \in [Pos -> Nat] /\ tries \in [Consumer -> 0 .. MaxRetries] /\ failures \in 0 .. MaxFaults
  BY <1>1 DEF Inv, TypeOK
<1>3. CASE /\ poisoned' = poisoned \union {item[c]}
           /\ pc' = [pc EXCEPT ![c] = "ack"]
           /\ UNCHANGED <<tries, failures>>
  BY <1>1, <1>2, <1>3, WorkStep
<1>4. CASE Fault("redis") /\ Again(c) /\ poisoned' \in {poisoned, poisoned \union {item[c]}}
  <2>1. pc' = [pc EXCEPT ![c] = "handle"] /\ failures' \in 0 .. MaxFaults
    BY <1>2, <1>4, FaultCounts DEF Again
  <2>2. tries' \in [Consumer -> 0 .. MaxRetries]
    BY <1>2, <1>4, RetryAssumption DEF Again, NextTry
  <2> QED
    BY <1>1, <1>2, <1>4, <2>1, <2>2, WorkStep
<1> QED
  BY <1>3, <1>4 DEF Poison

LEMMA AckStep == ASSUME Inv, NEW c \in Consumer, Ack(c) PROVE Inv'
<1> USE DEF Ack, stream, hist
<1>1. TypeOK'
  <2>1. item' \in [Consumer -> 0 .. Len(log)]
    BY DEF Inv, TypeOK
  <2>2. owner' \in [Pos -> Consumer \union {Nobody, NotPending}]
    BY DEF Inv, TypeOK
  <2> QED
    BY <2>1, <2>2 DEF Inv, TypeOK
<1>2. Working' /\ AckSettled'
  BY DEF Inv, TypeOK, Working, AckSettled, Settled
<1>3. TrimBound'
  BY Same
<1>4. NothingDropped'
  BY DEF Inv, TypeOK, NothingDropped, AckSettled, Settled
<1> QED
  BY <1>1, <1>2, <1>3, <1>4 DEF Inv

LEMMA CrashStep == ASSUME Inv, Crash PROVE Inv'
<1> USE DEF Crash, stream, hist
<1>1. TypeOK'
  BY FaultCounts DEF Inv, TypeOK
<1>2. Working' /\ AckSettled' /\ TrimBound'
  BY Same DEF Inv, TypeOK, Working, AckSettled
<1>3. NothingDropped'
  BY OwnerAssumption, BoundAssumption DEF Inv, TypeOK, NothingDropped, Settled, Pos
<1> QED
  BY <1>1, <1>2, <1>3 DEF Inv

-----------------------------------------------------------------------------

LEMMA Invariance == Spec => []Inv
<1>1. Inv /\ [Next]_vars => Inv'
  <2> SUFFICES ASSUME Inv, [Next]_vars PROVE Inv'
    OBVIOUS
  <2>1. CASE Trim \/ \E m \in Msg : Login(m) \/ Publish(m)
    BY <2>1, StreamAction, StreamStep
  <2>2. ASSUME NEW c \in Consumer, Consume(c) PROVE Inv'
    BY <2>2, FetchStep, ClaimStep, BeginStep, HandleStep, PoisonStep, AckStep DEF Consume
  <2>3. CASE Crash
    BY <2>3, CrashStep
  <2>4. CASE UNCHANGED vars
    BY <2>4 DEF vars, Inv, TypeOK, Working, AckSettled, TrimBound, NothingDropped,
       Settled, Limits, PublishMaxLen, TrimMaxLen
  <2> QED
    BY <2>1, <2>2, <2>3, <2>4 DEF Next
<1> QED
  BY <1>1, InitInv, PTL DEF Spec

\* The types, among them that Retry never counts beyond MaxRetries (NewRouter).
THEOREM TypeCorrect == Spec => []TypeOK
BY Invariance, PTL DEF Inv

\* No step of a consumer, no failed call and no crash takes an entry off the pending
\* list that was neither settled nor deleted by a length limit.
THEOREM PendingUntilSettled == Spec => []NothingDropped
BY Invariance, PTL DEF Inv

\* The newest entries, as many as both limits keep, are never lost.
THEOREM NewestKept == Spec => []NewestNeverLost
<1>1. Inv => NewestNeverLost
  <2> SUFFICES ASSUME Inv, NEW i \in Newest
               PROVE  i > trimmed /\ (i > delivered \/ owner[i] # NotPending \/ Settled(i))
    BY DEF NewestNeverLost
  <2>1. /\ i \in 1 .. Len(log) /\ \A n \in Limits \ {0} : i > Len(log) - n
        /\ Len(log) \in Nat /\ trimmed \in 0 .. Len(log) /\ delivered \in 0 .. Len(log)
    BY DEF Newest, Inv, TypeOK
  <2>2. i > trimmed
    <3>1. CASE trimmed = 0
      BY <2>1, <3>1
    <3>2. CASE trimmed # 0
      <4>1. PICK n \in Limits \ {0} : trimmed <= Len(log) - n
        BY <3>2 DEF Inv, TrimBound
      <4> QED
        BY <2>1, <4>1, LimitTypes
    <3> QED
      BY <3>1, <3>2
  <2> QED
    BY <2>1, <2>2 DEF Inv, NothingDropped
<1> QED
  BY <1>1, Invariance, PTL

-----------------------------------------------------------------------------
(* A handler runs again only for a cause *)

\* The runs an entry still has coming without another failure: one for each place it
\* waits in and each handler that was given it, and one if it is yet to be given away.
Waits(i)    == {h \in Consumer \X Place : ahead[h] = i}
Handling(i) == {c \in Consumer : pc[c] = "handle" /\ item[c] = i}
Due(i)      == IF i > delivered \/ owner[i] = Nobody THEN 1 ELSE 0
Load(i)     == Cardinality(Waits(i)) + Cardinality(Handling(i)) + Due(i)

RunsDue == \A i \in Pos : ran[i] + Load(i) <= 1 + failures

LEMMA Finite ==
  /\ \A S : S \subseteq Consumer \X Place => IsFiniteSet(S) /\ Cardinality(S) \in Nat
  /\ \A S : S \subseteq Consumer => IsFiniteSet(S) /\ Cardinality(S) \in Nat
<1>1. IsFiniteSet(Consumer) /\ IsFiniteSet(Consumer \X Place)
  BY ConsumerAssumption, FS_Product
<1> QED
  BY <1>1, FS_Subset, FS_CardinalityType

LEMMA Counts ==
  /\ \A i : Cardinality(Waits(i)) \in Nat /\ Cardinality(Handling(i)) \in Nat /\ Due(i) \in {0, 1}
  /\ \A i : Cardinality(Waits(i)') \in Nat /\ Cardinality(Handling(i)') \in Nat /\ Due(i)' \in {0, 1}
<1>1. \A i : Waits(i) \subseteq Consumer \X Place /\ Handling(i) \subseteq Consumer
  BY DEF Waits, Handling
<1>2. \A i : Waits(i)' \subseteq Consumer \X Place /\ Handling(i)' \subseteq Consumer
  BY DEF Waits, Handling
<1> QED
  BY <1>1, <1>2, Finite DEF Due

\* A step keeps RunsDue if, for every entry, what it adds to runs and load it adds to
\* the failures.
LEMMA RunsKept ==
  ASSUME Inv, Inv', RunsDue, failures' >= failures,
         \A i \in Pos : ran'[i] + Load(i)' <= ran[i] + Load(i) + failures' - failures
  PROVE  RunsDue'
<1> SUFFICES ASSUME NEW i \in Pos PROVE ran'[i] + Load(i)' <= 1 + failures'
  BY DEF RunsDue
<1>1. /\ ran[i] \in Nat /\ ran'[i] \in Nat /\ failures \in Nat /\ failures' \in Nat
      /\ Load(i) \in Nat /\ Load(i)' \in Nat
  <2>1. ran[i] \in Nat /\ ran'[i] \in Nat /\ failures \in Nat /\ failures' \in Nat
    BY BoundAssumption DEF Inv, TypeOK
  <2>2. Load(i) \in Nat /\ Load(i)' \in Nat
    BY Counts DEF Load
  <2> QED
    BY <2>1, <2>2
<1>2. ran[i] + Load(i) <= 1 + failures
  BY DEF RunsDue
<1> QED
  BY <1>1, <1>2

\* Steps that put nothing into a place or a handler.
LEMMA RunsIdle ==
  ASSUME Inv, Inv', RunsDue, failures' >= failures, ran' = ran,
         \A i \in Pos : Waits(i)' = Waits(i) /\ Handling(i)' = Handling(i) /\ Due(i)' <= Due(i)
  PROVE  RunsDue'
<1> SUFFICES ASSUME NEW i \in Pos
             PROVE  ran'[i] + Load(i)' <= ran[i] + Load(i) + failures' - failures
  BY RunsKept
<1>1. Load(i)' = Cardinality(Waits(i)) + Cardinality(Handling(i)) + Due(i)'
  BY DEF Load
<1>2. /\ ran[i] \in Nat /\ failures \in Nat /\ failures' \in Nat
      /\ Cardinality(Waits(i)) \in Nat /\ Cardinality(Handling(i)) \in Nat
      /\ Due(i) \in {0, 1} /\ Due(i)' \in {0, 1}
  BY Counts DEF Inv, TypeOK
<1> QED
  BY <1>1, <1>2 DEF Load

LEMMA RunsStream == ASSUME Inv, Inv', RunsDue, StreamMoves PROVE RunsDue'
<1>1. failures' >= failures /\ ran' = ran
  BY DEF StreamMoves, Inv, TypeOK
<1>2. \A i \in Pos : Waits(i)' = Waits(i) /\ Handling(i)' = Handling(i) /\ Due(i)' = Due(i)
  BY DEF StreamMoves, Waits, Handling, Due
<1>3. \A i \in Pos : Due(i)' <= Due(i)
  BY <1>2 DEF Due
<1> QED
  BY <1>1, <1>2, <1>3, RunsIdle

\* An entry that enters a place is due to nobody any more, or it is a failure.
LEMMA RunsHold ==
  ASSUME Inv, Inv', RunsDue, NEW c \in Consumer, NEW i \in Pos, Hold(c, i),
         i <= delivered', delivered' >= delivered, UNCHANGED <<work, ran>>,
         failures' >= failures, Due(i) = 1 \/ failures' = failures + 1
  PROVE  RunsDue'
<1>1. PICK h \in {c} \X Place : /\ ahead[h] = 0 /\ ahead' = [ahead EXCEPT ![h] = i]
                                /\ owner' = [owner EXCEPT ![i] = c]
  BY DEF Hold
<1>2. /\ owner \in [Pos -> Consumer \union {Nobody, NotPending}]
      /\ DOMAIN ahead = Consumer \X Place /\ h \in Consumer \X Place
      /\ failures \in Nat /\ failures' \in Nat /\ delivered \in Nat /\ delivered' \in Nat
      /\ \A k \in Pos : k \in Nat /\ k # 0 /\ ran[k] \in Nat
  BY BoundAssumption DEF Inv, TypeOK, Pos
<1>3. \A k : Handling(k)' = Handling(k)
  BY DEF Handling, work
<1> SUFFICES ASSUME NEW k \in Pos
             PROVE  ran'[k] + Load(k)' <= ran[k] + Load(k) + failures' - failures
  BY RunsKept
<1>4. CASE k = i
  <2>1. Waits(k)' = Waits(k) \union {h}
    BY <1>1, <1>2, <1>4 DEF Waits
  <2>2. Cardinality(Waits(k)') <= Cardinality(Waits(k)) + 1
    <3>1. IsFiniteSet(Waits(k)) /\ Cardinality(Waits(k)) \in Nat
      BY Finite DEF Waits
    <3>2. Cardinality(Waits(k) \union {h}) =
            IF h \in Waits(k) THEN Cardinality(Waits(k)) ELSE Cardinality(Waits(k)) + 1
      BY <3>1, FS_AddElement
    <3> QED
      BY <2>1, <3>1, <3>2
  <2>3. Due(k)' = 0
    <3>1. owner'[k] = c /\ k <= delivered'
      BY <1>1, <1>2, <1>4
    <3> QED
      BY <1>2, <3>1, OwnerAssumption DEF Due
  <2>4. Load(k)' = Cardinality(Waits(k)') + Cardinality(Handling(k)) + Due(k)'
    BY <1>3 DEF Load
  <2>5. ran'[k] = ran[k]
    OBVIOUS
  <2>6. /\ Cardinality(Waits(k)) \in Nat /\ Cardinality(Waits(k)') \in Nat
        /\ Cardinality(Handling(k)) \in Nat /\ Due(k) \in {0, 1}
    BY Counts
  <2> QED
    BY <1>2, <1>4, <2>2, <2>3, <2>4, <2>5, <2>6 DEF Load
<1>5. CASE k # i
  <2>1. Waits(k)' = Waits(k)
    BY <1>1, <1>2, <1>5 DEF Waits
  <2>2. owner'[k] = owner[k]
    BY <1>1, <1>2, <1>5
  <2>3. Due(k)' <= Due(k)
    BY <1>2, <2>2 DEF Due
  <2>4. Load(k)' = Cardinality(Waits(k)) + Cardinality(Handling(k)) + Due(k)'
    BY <1>3, <2>1 DEF Load
  <2>5. /\ Cardinality(Waits(k)) \in Nat /\ Cardinality(Handling(k)) \in Nat
        /\ Due(k) \in {0, 1} /\ Due(k)' \in {0, 1}
    BY Counts
  <2> QED
    BY <1>2, <2>3, <2>4, <2>5 DEF Load
<1> QED
  BY <1>4, <1>5

LEMMA RunsFetch == ASSUME Inv, Inv', RunsDue, NEW c \in Consumer, Fetch(c) PROVE RunsDue'
<1>1. PICK i \in Pos :
        /\ Hold(c, i) /\ i > delivered /\ i > trimmed /\ i <= Len(log) /\ delivered' = i
        /\ i = delivered + 1 \/ i = trimmed + 1
        /\ UNCHANGED <<login, stream, work, hist, failures>>
  BY FetchEffect
<1>2. Due(i) = 1
  BY <1>1 DEF Due
<1>3. i \in Nat /\ delivered \in Nat /\ failures \in Nat
  BY BoundAssumption DEF Inv, TypeOK, Pos
<1>4. i <= delivered' /\ delivered' >= delivered /\ failures' >= failures /\ UNCHANGED <<work, ran>>
  BY <1>1, <1>3 DEF hist
<1> QED
  BY <1>1, <1>2, <1>4, RunsHold

LEMMA RunsClaim == ASSUME Inv, Inv', RunsDue, NEW c \in Consumer, Claim(c) PROVE RunsDue'
<1>1. PICK i \in Pos : ClaimMoves(c, i)
  BY ClaimEffect
<1>2. /\ UNCHANGED <<delivered, pc, item, tries, work, ran>> /\ owner[i] # NotPending
      /\ owner[i] = Nobody \/ failures' = failures + 1
      /\ failures' \in failures .. MaxFaults
  BY <1>1 DEF ClaimMoves, work, hist
<1>3. /\ i <= delivered' /\ delivered' >= delivered /\ failures' >= failures
  BY <1>2, BoundAssumption DEF Inv, TypeOK, Working
<1>4. CASE i > trimmed
  <2>1. Due(i) = 1 \/ failures' = failures + 1
    BY <1>2 DEF Due
  <2>2. Hold(c, i)
    BY <1>1, <1>4 DEF ClaimMoves
  <2> QED
    BY <1>2, <1>3, <2>1, <2>2, RunsHold
<1>5. CASE ~(i > trimmed)
  <2>1. owner' = [owner EXCEPT ![i] = NotPending] /\ ahead' = ahead
    BY <1>1, <1>5 DEF ClaimMoves
  <2>2. owner \in [Pos -> Consumer \union {Nobody, NotPending}]
    BY DEF Inv, TypeOK
  <2>3. \A k \in Pos : Due(k)' <= Due(k)
    BY <1>2, <2>1, <2>2, OwnerAssumption DEF Due
  <2>4. \A k \in Pos : Waits(k)' = Waits(k) /\ Handling(k)' = Handling(k)
    BY <1>2, <2>1 DEF Waits, Handling
  <2> QED
    BY <1>2, <1>3, <2>3, <2>4, RunsIdle
<1> QED
  BY <1>4, <1>5

\* From a place into the handler.
LEMMA RunsBegin == ASSUME Inv, Inv', RunsDue, NEW c \in Consumer, Begin(c) PROVE RunsDue'
<1>1. PICK h \in {c} \X Place : /\ ahead[h] \in 1 .. Len(log) /\ ahead[h] \in Pos
                                /\ ahead' = [ahead EXCEPT ![h] = 0]
                                /\ item' = [item EXCEPT ![c] = ahead[h]]
  BY BeginEffect
<1>2. /\ pc[c] = "idle" /\ pc' = [pc EXCEPT ![c] = "handle"]
      /\ UNCHANGED <<delivered, owner, ran, failures>>
  BY DEF Begin, group, hist
<1>3. /\ DOMAIN ahead = Consumer \X Place /\ h \in Consumer \X Place
      /\ DOMAIN pc = Consumer /\ DOMAIN item = Consumer
      /\ failures \in Nat /\ \A k \in Pos : k # 0 /\ ran[k] \in Nat
  <2>1. \A k \in Pos : k # 0
    BY DEF Pos
  <2>2. failures \in Nat /\ ran \in [Pos -> Nat]
    BY DEF Inv, TypeOK
  <2>3. DOMAIN ahead = Consumer \X Place /\ DOMAIN pc = Consumer /\ DOMAIN item = Consumer
    BY DEF Inv, TypeOK
  <2> QED
    BY <2>1, <2>2, <2>3
<1> SUFFICES ASSUME NEW k \in Pos
             PROVE  ran'[k] + Load(k)' <= ran[k] + Load(k) + failures' - failures
  BY <1>2, <1>3, RunsKept
<1>4. Due(k)' = Due(k)
  BY <1>2 DEF Due
<1>5. /\ IsFiniteSet(Waits(k)) /\ IsFiniteSet(Handling(k))
      /\ Cardinality(Waits(k)) \in Nat /\ Cardinality(Handling(k)) \in Nat /\ Due(k) \in {0, 1}
  BY Finite, Counts DEF Waits, Handling
<1>6. CASE k = ahead[h]
  <2>1. Waits(k)' = Waits(k) \ {h} /\ h \in Waits(k)
    BY <1>1, <1>3, <1>6 DEF Waits
  <2>2. Handling(k)' = Handling(k) \union {c}
    BY <1>1, <1>2, <1>3, <1>6 DEF Handling
  <2>3. Cardinality(Waits(k)') = Cardinality(Waits(k)) - 1
    BY <1>5, <2>1, FS_RemoveElement
  <2>4. Cardinality(Handling(k)') <= Cardinality(Handling(k)) + 1
    <3>1. Cardinality(Handling(k) \union {c}) =
            IF c \in Handling(k) THEN Cardinality(Handling(k)) ELSE Cardinality(Handling(k)) + 1
      BY <1>5, FS_AddElement
    <3> QED
      BY <1>5, <2>2, <3>1
  <2>5. Load(k)' <= Load(k)
    BY <1>4, <1>5, <2>3, <2>4, Counts DEF Load
  <2> QED
    BY <1>2, <1>3, <1>5, <2>5, Counts DEF Load
<1>7. CASE k # ahead[h]
  <2>1. Waits(k)' = Waits(k)
    BY <1>1, <1>3, <1>7 DEF Waits
  <2>2. Handling(k)' = Handling(k)
    BY <1>1, <1>2, <1>3, <1>7 DEF Handling
  <2>3. Load(k)' = Load(k)
    BY <1>4, <2>1, <2>2 DEF Load
  <2> QED
    BY <1>2, <1>3, <1>5, <2>3 DEF Load
<1> QED
  BY <1>6, <1>7

\* A run uses up the handler's.
LEMMA RunsHandle == ASSUME Inv, Inv', RunsDue, NEW c \in Consumer, Handle(c) PROVE RunsDue'
<1>1. /\ pc[c] = "handle" /\ ran' = [ran EXCEPT ![item[c]] = @ + 1]
      /\ UNCHANGED <<delivered, owner, ahead, item, failures>>
  BY DEF Handle, group
<1>2. PICK s \in {"ack", "poison"} : pc' = [pc EXCEPT ![c] = s]
  BY DEF Handle, AfterError
<1>3. /\ DOMAIN pc = Consumer /\ ran \in [Pos -> Nat] /\ failures \in Nat
      /\ item[c] \in Pos
  BY <1>1, BoundAssumption DEF Inv, TypeOK, Working, Pos
<1> SUFFICES ASSUME NEW k \in Pos
             PROVE  ran'[k] + Load(k)' <= ran[k] + Load(k) + failures' - failures
  BY <1>1, <1>3, RunsKept
<1>4. Waits(k)' = Waits(k) /\ Due(k)' = Due(k)
  BY <1>1 DEF Waits, Due
<1>5. /\ IsFiniteSet(Handling(k))
      /\ Cardinality(Waits(k)) \in Nat /\ Cardinality(Handling(k)) \in Nat /\ Due(k) \in {0, 1}
  BY Finite, Counts DEF Handling
<1>6. CASE k = item[c]
  <2>1. Handling(k)' = Handling(k) \ {c} /\ c \in Handling(k)
    BY <1>1, <1>2, <1>3, <1>6 DEF Handling
  <2>2. Cardinality(Handling(k)') = Cardinality(Handling(k)) - 1
    BY <1>5, <2>1, FS_RemoveElement
  <2>3. Load(k)' = Cardinality(Waits(k)) + Cardinality(Handling(k)') + Due(k)
    BY <1>4 DEF Load
  <2>4. ran'[k] = ran[k] + 1
    BY <1>1, <1>3, <1>6
  <2> QED
    BY <1>1, <1>3, <1>5, <2>2, <2>3, <2>4 DEF Load
<1>7. CASE k # item[c]
  <2>1. Handling(k)' = Handling(k)
    BY <1>1, <1>2, <1>3, <1>7 DEF Handling
  <2>2. Load(k)' = Load(k) /\ ran'[k] = ran[k]
    BY <1>1, <1>3, <1>4, <1>7, <2>1 DEF Load
  <2> QED
    BY <1>1, <1>3, <1>5, <2>2 DEF Load
<1> QED
  BY <1>6, <1>7

\* Retry runs the handler again for a failed call only.
LEMMA RunsPoison == ASSUME Inv, Inv', RunsDue, NEW c \in Consumer, Poison(c) PROVE RunsDue'
<1>1. pc[c] = "poison" /\ UNCHANGED <<delivered, owner, ahead, item, ran>>
  BY DEF Poison, group
<1>2. DOMAIN pc = Consumer /\ failures \in Nat /\ \A k \in Pos : ran[k] \in Nat
  BY DEF Inv, TypeOK
<1>3. \A k \in Pos : Waits(k)' = Waits(k) /\ Due(k)' = Due(k)
  BY <1>1 DEF Waits, Due
<1>4. CASE pc' = [pc EXCEPT ![c] = "ack"] /\ failures' = failures
  <2>1. \A k \in Pos : Handling(k)' = Handling(k)
    BY <1>1, <1>2, <1>4 DEF Handling
  <2>2. \A k \in Pos : Due(k)' <= Due(k)
    BY <1>3 DEF Due
  <2> QED
    BY <1>1, <1>2, <1>3, <1>4, <2>1, <2>2, RunsIdle
<1>5. CASE Fault("redis") /\ Again(c)
  <2>1. pc' = [pc EXCEPT ![c] = "handle"] /\ failures' = failures + 1
    BY <1>5 DEF Again, Fault
  <2> SUFFICES ASSUME NEW k \in Pos
               PROVE  ran'[k] + Load(k)' <= ran[k] + Load(k) + failures' - failures
    BY <1>2, <2>1, RunsKept
  <2>2. Handling(k)' = Handling(k) \/ Handling(k)' = Handling(k) \union {c}
    BY <1>1, <1>2, <2>1 DEF Handling
  <2>3. /\ IsFiniteSet(Handling(k))
        /\ Cardinality(Waits(k)) \in Nat /\ Cardinality(Handling(k)) \in Nat /\ Due(k) \in {0, 1}
    BY Finite, Counts DEF Handling
  <2>4. Cardinality(Handling(k)') <= Cardinality(Handling(k)) + 1
    BY <2>2, <2>3, FS_AddElement
  <2>5. Load(k)' = Cardinality(Waits(k)) + Cardinality(Handling(k)') + Due(k)
    BY <1>3 DEF Load
  <2>6. Cardinality(Handling(k)') \in Nat
    BY Counts
  <2> QED
    BY <1>1, <1>2, <2>1, <2>3, <2>4, <2>5, <2>6 DEF Load
<1> QED
  BY <1>4, <1>5 DEF Poison

LEMMA RunsAck == ASSUME Inv, Inv', RunsDue, NEW c \in Consumer, Ack(c) PROVE RunsDue'
<1>1. /\ pc[c] = "ack" /\ owner' = [owner EXCEPT ![item[c]] = NotPending]
      /\ pc' = [pc EXCEPT ![c] = "idle"] /\ item' = [item EXCEPT ![c] = 0]
      /\ UNCHANGED <<delivered, ahead, ran, failures>>
  BY DEF Ack, hist
<1>2. /\ DOMAIN pc = Consumer /\ DOMAIN item = Consumer /\ DOMAIN owner = Pos /\ failures \in Nat
  BY DEF Inv, TypeOK
<1>3. \A k \in Pos : Waits(k)' = Waits(k) /\ Handling(k)' = Handling(k)
  BY <1>1, <1>2 DEF Waits, Handling
<1>4. \A k \in Pos : owner'[k] = Nobody => owner[k] = Nobody
  BY <1>1, <1>2, OwnerAssumption
<1>5. \A k \in Pos : Due(k)' <= Due(k)
  BY <1>1, <1>4 DEF Due
<1> QED
  BY <1>1, <1>2, <1>3, <1>5, RunsIdle

\* A crash takes every entry from the places and handlers: each is due once at most.
LEMMA RunsCrash == ASSUME Inv, Inv', RunsDue, Crash PROVE RunsDue'
<1>1. /\ failures' = failures + 1 /\ ran' = ran
      /\ ahead' = [h \in Consumer \X Place |-> 0] /\ pc' = [c \in Consumer |-> "idle"]
  BY DEF Crash, Fault, hist
<1>2. failures \in Nat /\ \A k \in Pos : k # 0 /\ ran[k] \in Nat
  BY BoundAssumption DEF Inv, TypeOK, Pos
<1> SUFFICES ASSUME NEW k \in Pos
             PROVE  ran'[k] + Load(k)' <= ran[k] + Load(k) + failures' - failures
  BY <1>1, <1>2, RunsKept
<1>3. Waits(k)' = {} /\ Handling(k)' = {}
  BY <1>1, <1>2 DEF Waits, Handling
<1>4. Load(k)' = 0 + 0 + Due(k)'
  BY <1>3, FS_EmptySet DEF Load
<1>5. /\ Cardinality(Waits(k)) \in Nat /\ Cardinality(Handling(k)) \in Nat
      /\ Due(k) \in {0, 1} /\ Due(k)' \in {0, 1}
  BY Counts
<1> QED
  BY <1>1, <1>2, <1>4, <1>5 DEF Load

LEMMA RunsInvariance == Spec => []RunsDue
<1>1. Init => RunsDue
  <2> SUFFICES ASSUME Init, NEW i \in Pos PROVE ran[i] + Load(i) <= 1 + failures
    BY DEF RunsDue
  <2>1. i # 0
    BY BoundAssumption DEF Pos
  <2>2. Waits(i) = {} /\ Handling(i) = {}
    BY <2>1 DEF Init, Waits, Handling
  <2>3. Load(i) = 0 + 0 + Due(i)
    BY <2>2, FS_EmptySet DEF Load
  <2> QED
    BY <2>3, Counts DEF Init
<1>2. Inv /\ Inv' /\ RunsDue /\ [Next]_vars => RunsDue'
  <2> SUFFICES ASSUME Inv, Inv', RunsDue, [Next]_vars PROVE RunsDue'
    OBVIOUS
  <2>1. CASE Trim \/ \E m \in Msg : Login(m) \/ Publish(m)
    BY <2>1, StreamAction, RunsStream
  <2>2. ASSUME NEW c \in Consumer, Consume(c) PROVE RunsDue'
    BY <2>2, RunsFetch, RunsClaim, RunsBegin, RunsHandle, RunsPoison, RunsAck DEF Consume
  <2>3. CASE Crash
    BY <2>3, RunsCrash
  <2>4. CASE UNCHANGED vars
    BY <2>4 DEF vars, RunsDue, Load, Waits, Handling, Due
  <2> QED
    BY <2>1, <2>2, <2>3, <2>4 DEF Next
<1> QED
  BY <1>1, <1>2, Invariance, PTL DEF Spec

\* For every entry the handler runs once, and once more at most for each failed call,
\* each crash and each time an entry was left idle for too long, for any number of
\* consumers that read ahead into any number of places.
THEOREM RunsCaused == Spec => []RunsHaveCauses
<1>1. Inv /\ RunsDue => RunsHaveCauses
  <2> SUFFICES ASSUME Inv, RunsDue, NEW i \in Pos PROVE ran[i] <= 1 + failures
    BY DEF RunsHaveCauses
  <2>1. ran[i] \in Nat /\ failures \in Nat /\ ran[i] + Load(i) <= 1 + failures
    BY BoundAssumption DEF Inv, TypeOK, RunsDue
  <2>2. Load(i) \in Nat
    BY Counts DEF Load
  <2> QED
    BY <2>1, <2>2
<1> QED
  BY <1>1, Invariance, RunsInvariance, PTL

-----------------------------------------------------------------------------
(* Every step implements a step of LossyQueue *)

\* Nothing is lost that the limits have not cut off.
LEMMA LostIsCut == Inv => lostShown \subseteq 1 .. trimmed
<1> SUFFICES ASSUME Inv, NEW i \in lostShown PROVE i \in 1 .. trimmed
  OBVIOUS
<1>1. i \in 1 .. Len(log) /\ ~Settled(i) /\ ~Reachable(i)
  BY DEF lostShown
<1>2. Len(log) \in Nat /\ trimmed \in 0 .. Len(log) /\ delivered \in 0 .. Len(log)
  BY DEF Inv, TypeOK
<1>3. i > trimmed => i <= delivered /\ owner[i] = NotPending
  BY <1>1, <1>2 DEF Reachable
<1>4. i > trimmed => i \in 1 .. delivered
  BY <1>1, <1>2, <1>3
<1>5. ~(i > trimmed)
  BY <1>1, <1>3, <1>4 DEF Inv, NothingDropped
<1> QED
  BY <1>1, <1>2, <1>5

\* What a step may lose, when it adds no more than at the end and unsettles nothing:
\* nothing lost becomes reachable again, and what becomes lost waited and was cut off.
LEMMA LoseStep ==
  ASSUME Inv, Inv', settledShown' = settledShown, Len(log') >= Len(log),
         lostShown' \subseteq 1 .. Len(log),
         \A i \in 1 .. Len(log) : Reachable(i)' => Reachable(i)
  PROVE  Abstract!Lose
<1>1. settledShown = handled \union poisoned /\ settledShown' = handled' \union poisoned'
  BY DEF settledShown
<1>2. \A i : Settled(i)' <=> Settled(i)
  BY <1>1 DEF Settled
<1>3. Len(log) \in Nat /\ Len(log') \in Nat
  BY DEF Inv, TypeOK
<1>4. lostShown \subseteq lostShown'
  BY <1>2, <1>3 DEF lostShown
<1>5. lostShown' \subseteq 1 .. trimmed'
  <2>1. (Inv => lostShown \subseteq 1 .. trimmed)'
    BY LostIsCut, PTL
  <2> QED
    BY <2>1
<1>6. \A i \in lostShown' : i \notin settledShown
  BY <1>1, <1>2 DEF lostShown, Settled
<1> QED
  BY <1>4, <1>5, <1>6 DEF Abstract!Lose, Abstract!Waiting

LEMMA ForgetStep ==
  ASSUME Inv, Inv', log' = log, trimmed' = trimmed, handled' = handled, poisoned' = poisoned,
         \A i \in 1 .. Len(log) : Reachable(i)' => Reachable(i)
  PROVE  Abstract!Forget
<1>1. settledShown' = settledShown /\ Len(log') >= Len(log)
  BY DEF settledShown, Inv, TypeOK
<1>2. lostShown' \subseteq 1 .. Len(log)
  BY DEF lostShown
<1>3. Abstract!Lose
  BY <1>1, <1>2, LoseStep
<1> QED
  BY <1>1, <1>3 DEF Abstract!Forget, Abstract!Shorten
\* Publishing and trimming.
LEMMA PutStep ==
  ASSUME Inv, Inv', StreamMoves, log' = log \/ \E m \in Msg : log' = Append(log, m)
  PROVE  Abstract!QueueNext
<1>1. /\ log \in Seq(Msg) /\ Len(log) \in Nat /\ Len(log') \in Nat
      /\ Len(log') >= Len(log) /\ Len(log') <= Len(log) + 1
      /\ trimmed \in 0 .. Len(log) /\ trimmed' \in trimmed .. Len(log')
  BY DEF Inv, TypeOK, StreamMoves
<1>2. trimmed' = trimmed \/ \E n \in Limits \ {0} : trimmed' \in trimmed .. Len(log') - n
  <2>1. CASE trimmed' = 0
    BY <1>1, <2>1
  <2>2. CASE trimmed' # 0
    <3>1. PICK n \in Limits \ {0} : trimmed' <= Len(log') - n
      BY <2>2 DEF StreamMoves, TrimBound, Limits, PublishMaxLen, TrimMaxLen
    <3>2. trimmed' \in trimmed .. Len(log') - n
      BY <1>1, <3>1, LimitTypes
    <3> QED
      BY <3>2
  <2> QED
    BY <2>1, <2>2
<1>3. trimmed' <= Len(log)
  BY <1>1, <1>2, LimitTypes
<1>4. lostShown' \subseteq 1 .. Len(log)
  <2>1. (Inv => lostShown \subseteq 1 .. trimmed)'
    BY LostIsCut, PTL
  <2>2. lostShown' \subseteq 1 .. trimmed'
    BY <2>1
  <2> QED
    BY <1>1, <1>3, <2>2
<1>5. \A i \in 1 .. Len(log) : Reachable(i)' => Reachable(i)
  BY <1>1 DEF Reachable, StreamMoves
<1>6. settledShown' = settledShown
  BY DEF settledShown, StreamMoves
<1>7. Abstract!Lose
  BY <1>1, <1>4, <1>5, <1>6, LoseStep
<1>8. Abstract!Shorten
  BY <1>2 DEF Abstract!Shorten
<1> QED
  BY <1>6, <1>7, <1>8 DEF Abstract!QueueNext, Abstract!Put, Abstract!Forget

\* A consumer settles the entry it works on, or settles nothing new.
LEMMA SettleStep ==
  ASSUME Inv, NEW c \in Consumer, pc[c] # "idle", UNCHANGED <<stream, group, ahead, item>>,
         NEW s \in {"handle", "poison", "ack"}, pc' = [pc EXCEPT ![c] = s],
         handled' \in {handled, handled \union {item[c]}},
         poisoned' \in {poisoned, poisoned \union {item[c]}}
  PROVE  [Abstract!QueueNext]_(Abstract!qvars)
<1>1. /\ UNCHANGED <<log, trimmed, delivered, owner, ahead, item>> /\ item[c] \in 1 .. Len(log)
      /\ \A d \in Consumer : pc'[d] # "idle" <=> pc[d] # "idle"
  BY DEF stream, group, Inv, TypeOK, Working
<1>2. \A i : Reachable(i)' <=> Reachable(i)
  BY <1>1 DEF Reachable
<1>3. Reachable(item[c])
  BY DEF Reachable
<1>4. settledShown' = settledShown \/ settledShown' = settledShown \union {item[c]}
  BY DEF settledShown
<1>5. \A i : (Settled(i) <=> i \in settledShown) /\ (Settled(i)' <=> i \in settledShown')
  BY DEF Settled, settledShown
<1>6. lostShown' = lostShown
  <2>1. \A i : ~Reachable(i) => (Settled(i)' <=> Settled(i))
    BY <1>3, <1>4, <1>5
  <2> QED
    BY <1>1, <1>2, <2>1 DEF lostShown
<1>7. CASE settledShown' = settledShown
  BY <1>1, <1>6, <1>7 DEF Abstract!qvars
<1>8. CASE settledShown' # settledShown
  <2>1. item[c] \notin settledShown /\ item[c] \notin lostShown
    BY <1>3, <1>4, <1>8 DEF lostShown
  <2>2. item[c] \in Abstract!Waiting
    BY <1>1, <2>1 DEF Abstract!Waiting
  <2>3. Abstract!Settle
    BY <1>1, <1>4, <1>6, <1>8, <2>2 DEF Abstract!Settle
  <2> QED
    BY <2>3 DEF Abstract!QueueNext
<1> QED
  BY <1>7, <1>8

\* The steps of a consumer around its handler change nothing the publisher knows of.
LEMMA HoldForgets ==
  ASSUME Inv, Inv', NEW c \in Consumer, NEW j \in Pos, Hold(c, j), Reachable(j),
         delivered' >= delivered, UNCHANGED <<log, trimmed, pc, item, handled, poisoned>>
  PROVE  Abstract!Forget
<1>1. PICK h \in {c} \X Place : /\ ahead' = [ahead EXCEPT ![h] = j]
                                /\ owner' = [owner EXCEPT ![j] = c]
  BY DEF Hold
<1>2. /\ delivered \in Nat /\ delivered' \in Nat /\ \A i \in 1 .. Len(log) : i \in Nat
      /\ owner \in [Pos -> Consumer \union {Nobody, NotPending}]
      /\ DOMAIN ahead = Consumer \X Place
  BY DEF Inv, TypeOK
<1>3. ASSUME NEW i \in 1 .. Len(log), Reachable(i)' PROVE Reachable(i)
  <2>1. CASE i = j
    BY <2>1
  <2>2. CASE i # j
    <3>1. owner'[i] = owner[i]
      BY <1>1, <1>2, <2>2
    <3>2. \A g \in Consumer \X Place : ahead'[g] = i => ahead[g] = i
      BY <1>1, <1>2, <2>2
    <3>3. i > delivered' => i > delivered
      BY <1>2
    <3> QED
      BY <1>3, <3>1, <3>2, <3>3 DEF Reachable
  <2> QED
    BY <2>1, <2>2
<1> QED
  BY <1>3, ForgetStep

LEMMA FetchForgets == ASSUME Inv, Inv', NEW c \in Consumer, Fetch(c) PROVE Abstract!Forget
<1>1. PICK i \in Pos :
        /\ Hold(c, i) /\ i > delivered /\ i > trimmed /\ i <= Len(log) /\ delivered' = i
        /\ i = delivered + 1 \/ i = trimmed + 1
        /\ UNCHANGED <<login, stream, work, hist, failures>>
  BY FetchEffect
<1>2. Reachable(i)
  BY <1>1 DEF Reachable
<1>3. delivered' >= delivered
  BY <1>1 DEF Inv, TypeOK, Pos
<1> QED
  BY <1>1, <1>2, <1>3, HoldForgets DEF stream, work, hist

LEMMA ClaimForgets == ASSUME Inv, Inv', NEW c \in Consumer, Claim(c) PROVE Abstract!Forget
<1>1. PICK j \in Pos : ClaimMoves(c, j)
  BY ClaimEffect
<1>2. /\ UNCHANGED <<log, trimmed, delivered, pc, item, handled, poisoned>>
      /\ owner[j] # NotPending
  BY <1>1 DEF ClaimMoves, stream, work, hist
<1>3. CASE j > trimmed
  <2>1. Hold(c, j) /\ Reachable(j)
    BY <1>1, <1>2, <1>3 DEF ClaimMoves, Reachable
  <2>2. delivered' >= delivered
    BY <1>2 DEF Inv, TypeOK
  <2> QED
    BY <1>2, <2>1, <2>2, HoldForgets
<1>4. CASE ~(j > trimmed)
  <2>1. owner' = [owner EXCEPT ![j] = NotPending] /\ ahead' = ahead
    BY <1>1, <1>4 DEF ClaimMoves
  <2>2. owner \in [Pos -> Consumer \union {Nobody, NotPending}]
    BY DEF Inv, TypeOK
  <2>3. \A i : owner'[i] # NotPending => owner[i] # NotPending
    BY <2>1, <2>2
  <2>4. \A i \in 1 .. Len(log) : Reachable(i)' => Reachable(i)
    BY <1>2, <2>1, <2>3 DEF Reachable
  <2> QED
    BY <1>2, <2>4, ForgetStep
<1> QED
  BY <1>3, <1>4

\* What waited in a place is given to the handler: it stays in the same hands.
LEMMA BeginForgets == ASSUME Inv, Inv', NEW c \in Consumer, Begin(c) PROVE Abstract!Forget
<1>1. PICK h \in {c} \X Place : /\ ahead[h] \in 1 .. Len(log) /\ ahead[h] \in Pos
                                /\ ahead' = [ahead EXCEPT ![h] = 0]
                                /\ item' = [item EXCEPT ![c] = ahead[h]]
  BY BeginEffect
<1>2. /\ pc' = [pc EXCEPT ![c] = "handle"]
      /\ UNCHANGED <<log, trimmed, delivered, owner, handled, poisoned>>
  BY DEF Begin, stream, group, hist
<1>3. /\ DOMAIN ahead = Consumer \X Place /\ DOMAIN pc = Consumer /\ DOMAIN item = Consumer
      /\ h \in Consumer \X Place
  BY DEF Inv, TypeOK
<1>4. ASSUME NEW i \in 1 .. Len(log), Reachable(i)' PROVE Reachable(i)
  <2>1. \A g \in Consumer \X Place : ahead'[g] = i => ahead[g] = i
    BY <1>1, <1>3
  <2>2. \A d \in Consumer : item'[d] = i => item[d] = i \/ ahead[h] = i
    BY <1>1, <1>3
  <2>3. \A d \in Consumer : d # c => pc'[d] = pc[d] /\ item'[d] = item[d]
    BY <1>1, <1>2, <1>3
  <2>4. item'[c] = ahead[h]
    BY <1>1, <1>3
  <2> QED
    BY <1>2, <1>3, <1>4, <2>1, <2>3, <2>4 DEF Reachable
<1> QED
  BY <1>2, <1>4, ForgetStep

LEMMA AckForgets == ASSUME Inv, Inv', NEW c \in Consumer, Ack(c) PROVE Abstract!Forget
<1>1. UNCHANGED <<log, trimmed, delivered, ahead, handled, poisoned>>
  BY DEF Ack, stream, hist
<1>2. \A i : owner'[i] # NotPending => owner[i] # NotPending \/ i \notin Pos
  BY DEF Ack, Inv, TypeOK
<1>3. \A d \in Consumer : pc'[d] # "idle" => pc[d] # "idle" /\ item'[d] = item[d]
  BY DEF Ack, Inv, TypeOK
<1>4. 1 .. Len(log) \subseteq Pos
  BY BoundAssumption DEF Inv, TypeOK, Pos
<1>5. \A i \in 1 .. Len(log) : Reachable(i)' => Reachable(i)
  BY <1>1, <1>2, <1>3, <1>4 DEF Reachable
<1> QED
  BY <1>1, <1>5, ForgetStep

LEMMA CrashForgets == ASSUME Inv, Inv', Crash PROVE Abstract!Forget
<1>1. UNCHANGED <<log, trimmed, delivered, handled, poisoned>>
  BY DEF Crash, stream, hist
<1>2. \A i \in Pos : owner'[i] # NotPending => owner[i] # NotPending
  BY DEF Crash
<1>3. /\ \A d \in Consumer : pc'[d] = "idle"
      /\ \A h \in Consumer \X Place : ahead'[h] = 0
  BY DEF Crash
<1>4. 1 .. Len(log) \subseteq Pos
  BY BoundAssumption DEF Inv, TypeOK, Pos
<1>5. \A i \in 1 .. Len(log) : Reachable(i)' => Reachable(i)
  BY <1>1, <1>2, <1>3, <1>4 DEF Reachable
<1> QED
  BY <1>1, <1>5, ForgetStep

LEMMA AbstractStep ==
  Inv /\ Inv' /\ [Next]_vars => [Abstract!QueueNext]_(Abstract!qvars)
<1> SUFFICES ASSUME Inv, Inv', [Next]_vars PROVE [Abstract!QueueNext]_(Abstract!qvars)
  OBVIOUS
<1>1. CASE Trim \/ \E m \in Msg : Login(m) \/ Publish(m)
  <2>1. log' = log \/ \E m \in Msg : log' = Append(log, m)
    BY <1>1 DEF Trim, Login, Publish, Add, stream
  <2> QED
    BY <1>1, <2>1, StreamAction, PutStep
<1>2. ASSUME NEW c \in Consumer, Fetch(c) \/ Claim(c) \/ Begin(c) \/ Ack(c)
      PROVE  Abstract!QueueNext
  BY <1>2, FetchForgets, ClaimForgets, BeginForgets, AckForgets DEF Abstract!QueueNext
<1>3. ASSUME NEW c \in Consumer, Handle(c) PROVE [Abstract!QueueNext]_(Abstract!qvars)
  BY <1>3, SettleStep DEF Handle, AfterError
<1>4. ASSUME NEW c \in Consumer, Poison(c) PROVE [Abstract!QueueNext]_(Abstract!qvars)
  BY <1>4, SettleStep DEF Poison, Again
<1>5. CASE Crash
  BY <1>5, CrashForgets DEF Abstract!QueueNext
<1>6. CASE UNCHANGED vars
  <2>1. settledShown' = settledShown /\ lostShown' = lostShown /\ log' = log /\ trimmed' = trimmed
    BY <1>6 DEF vars, settledShown, lostShown, Settled, Reachable
  <2> QED
    BY <2>1 DEF Abstract!qvars
<1> QED
  BY <1>1, <1>2, <1>3, <1>4, <1>5, <1>6 DEF Next, Consume

LEMMA AbstractInit == Init => Abstract!QueueInit
<1> SUFFICES ASSUME Init PROVE Abstract!QueueInit
  OBVIOUS
<1>1. settledShown = {} /\ lostShown = {}
  BY DEF Init, settledShown, lostShown
<1> QED
  BY <1>1 DEF Init, Abstract!QueueInit

\* The queue implements LossyQueue, for every number of consumers and retries, all
\* length limits, and whatever fails, is slow or crashes: an added message waits until it
\* is handled or poisoned, and only one that a limit cut off is lost.
THEOREM QueueKeepsMessages == Spec => KeepsMessages
  BY Invariance, AbstractInit, AbstractStep, PTL DEF Spec, KeepsMessages, Abstract!QueueSpec
=============================================================================
