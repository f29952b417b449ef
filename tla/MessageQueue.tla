---------------------------- MODULE MessageQueue ----------------------------
(***************************************************************************)
(* One topic of the message queue on Redis streams: the login handler that *)
(* publishes, the stream with its length limits, the trimmer, and the      *)
(* consumers of the router with their middleware.  An entry of the stream  *)
(* is known by its position in everything ever added.  The stream holds    *)
(* the positions trimmed + 1 .. Len(log); the consumer group was given     *)
(* those up to delivered, and waits for the ack of those pending.  A       *)
(* subscriber reads and claims entries while its handler is busy; they     *)
(* wait in its places, in no fixed order, and their idle time runs on.     *)
(***************************************************************************)
EXTENDS Integers, Sequences, FiniteSets

CONSTANTS
  Msg,            \* login requests that publish a message
  Consumer,       \* subscribers of the topic: topic_concurrency of them
  Place,          \* places of a subscriber for entries its handler has not begun
  MaxRetries,     \* MaxRetries of the Retry middleware
  DefaultMaxLen,  \* mq.default_max_len, 0 for no limit
  TopicMaxLen,    \* mq.topic_max_len of the topic, or Unset
  TrimInterval,   \* mq.trim_interval, 0 for no trimmer
  Faults,         \* which of "handler", "redis", "crash" and "slow" can happen
  MaxFaults,      \* bound on the number of failed calls, crashes and expired idle times
  MaxEntries,     \* bound on the entries added to the stream
  Unset,          \* the topic has no entry in topic_max_len
  Nobody,         \* a pending entry whose consumer is gone
  NotPending      \* an entry not delivered yet, or acknowledged

ASSUME LimitAssumption  == DefaultMaxLen \in Nat /\ TopicMaxLen \in Nat \union {Unset}
ASSUME RetryAssumption  == MaxRetries \in Nat
ASSUME ConsumerAssumption == IsFiniteSet(Consumer) /\ IsFiniteSet(Place)
ASSUME FaultAssumption  == Faults \subseteq {"handler", "redis", "crash", "slow"}
ASSUME BoundAssumption  == MaxFaults \in Nat /\ MaxEntries \in Nat /\ TrimInterval \in Nat
ASSUME OwnerAssumption  ==
  Nobody # NotPending /\ Nobody \notin Consumer /\ NotPending \notin Consumer

VARIABLES
  login,      \* Msg -> where its login request and its goroutine stand
  log,        \* everything ever added to the stream
  trimmed,    \* how many of the oldest entries were deleted
  delivered,  \* the last position given to the group
  owner,      \* position -> the consumer it is pending for
  ahead,      \* <<consumer, place>> -> the position waiting there, or 0
  pc,         \* Consumer -> where the consumer stands
  item,       \* Consumer -> the position it works on
  tries,      \* Consumer -> retries of the Retry middleware so far
  handled,    \* history: positions a handler processed without error
  poisoned,   \* the positions sent to mq.poison
  ran,        \* history: position -> how often a handler ran for it
  failures    \* failed calls, crashes and expired idle times so far

stream == <<log, trimmed>>
group  == <<delivered, owner>>
work   == <<pc, item, tries>>
hist   == <<handled, poisoned, ran>>
vars   ==
  <<login, log, trimmed, delivered, owner, ahead, pc, item, tries, handled, poisoned, ran, failures>>

Pos == 1 .. MaxEntries

Init ==
  /\ login = [m \in Msg |-> "none"]
  /\ log = <<>> /\ trimmed = 0 /\ delivered = 0
  /\ owner = [i \in Pos |-> NotPending]
  /\ ahead = [h \in Consumer \X Place |-> 0]
  /\ pc = [c \in Consumer |-> "idle"]
  /\ item = [c \in Consumer |-> 0]
  /\ tries = [c \in Consumer |-> 0]
  /\ handled = {} /\ poisoned = {}
  /\ ran = [i \in Pos |-> 0]
  /\ failures = 0

\* Something fails that need not fail.
Fault(f) == f \in Faults /\ failures < MaxFaults /\ failures' = failures + 1

-----------------------------------------------------------------------------
(* Publishing *)

\* The limit NewPublisher gives XADD, and the one StartTrimmer gives XTRIM.
PublishMaxLen == IF TopicMaxLen # Unset THEN TopicMaxLen ELSE DefaultMaxLen
TrimMaxLen    == IF TopicMaxLen # Unset /\ TopicMaxLen > 0 THEN TopicMaxLen ELSE DefaultMaxLen

Larger(a, b) == IF a < b THEN b ELSE a

\* A login succeeds: it is answered, a goroutine goes on to publish.
Login(m) ==
  /\ login[m] = "none"
  /\ login' = [login EXCEPT ![m] = "publish"]
  /\ UNCHANGED <<stream, group, ahead, work, hist, failures>>

\* XADD MAXLEN ~: Redis deletes some of the oldest entries, or none, and keeps
\* at least the limit.
Add(m) ==
  /\ Len(log) < MaxEntries
  /\ log' = Append(log, m)
  /\ IF PublishMaxLen = 0 THEN UNCHANGED trimmed
     ELSE trimmed' \in trimmed .. Larger(trimmed, Len(log) + 1 - PublishMaxLen)

\* XADD succeeds; fails; or takes effect and its reply is lost, whereupon the
\* client library sends it again or gives up.  An error is only logged.
Publish(m) ==
  /\ login[m] = "publish"
  /\ \/ Add(m) /\ login' = [login EXCEPT ![m] = "sent"] /\ UNCHANGED failures
     \/ Fault("redis") /\ login' = [login EXCEPT ![m] = "failed"] /\ UNCHANGED stream
     \/ Fault("redis") /\ Add(m) /\ login' = [login EXCEPT ![m] = "failed"]
     \/ Fault("redis") /\ Add(m) /\ UNCHANGED login
  /\ UNCHANGED <<group, ahead, work, hist>>

\* XTRIM MAXLEN removes the oldest entries beyond the limit, whoever needs them.
TrimsOneMore == IF TrimMaxLen > 1 THEN TrimMaxLen - 1 ELSE TrimMaxLen
Keep == TrimMaxLen

Trim ==
  /\ TrimInterval > 0 /\ Keep > 0
  /\ Len(log) - trimmed > Keep
  /\ trimmed' = Len(log) - Keep
  /\ UNCHANGED <<login, log, group, ahead, work, hist, failures>>

-----------------------------------------------------------------------------
(* Consuming *)

\* An entry is given to consumer c and waits in a free place of its subscriber.
Hold(c, i) ==
  /\ owner' = [owner EXCEPT ![i] = c]
  /\ \E h \in {c} \X Place : ahead[h] = 0 /\ ahead' = [ahead EXCEPT ![h] = i]

\* XREADGROUP, whatever the handler does meanwhile: the group's next entry that is
\* still in the stream.
Fetch(c) ==
  LET i == Larger(delivered, trimmed) + 1 IN
  /\ i <= Len(log)
  /\ delivered' = i
  /\ Hold(c, i)
  /\ UNCHANGED <<login, stream, work, hist, failures>>

\* XPENDING: an entry idle for too long, because its consumer is gone or, if entries
\* can be slow, because it still waits for the handler of a living consumer (c itself
\* is one) or outlasts it.
NeverClaims(i) == FALSE /\ UNCHANGED failures
ClaimsFromTheLiving(i) == owner[i] # NotPending /\ UNCHANGED failures
Idling(i) ==
  \/ owner[i] = Nobody /\ UNCHANGED failures
  \/ owner[i] \in Consumer /\ Fault("slow")

\* XCLAIM hands the entry to c; of one that was deleted it clears the pending list.
Claim(c) ==
  /\ \E h \in {c} \X Place : ahead[h] = 0
  /\ \E i \in Pos :
       /\ Idling(i)
       /\ IF i > trimmed THEN Hold(c, i)
          ELSE owner' = [owner EXCEPT ![i] = NotPending] /\ UNCHANGED ahead
  /\ UNCHANGED <<login, stream, delivered, work, hist>>

\* The handler is free and is given an entry that waits.
Begin(c) ==
  /\ pc[c] = "idle"
  /\ \E h \in {c} \X Place :
       /\ ahead[h] # 0
       /\ item'  = [item EXCEPT ![c] = ahead[h]]
       /\ ahead' = [ahead EXCEPT ![h] = 0]
  /\ pc'    = [pc EXCEPT ![c] = "handle"]
  /\ tries' = [tries EXCEPT ![c] = 0]
  /\ UNCHANGED <<login, stream, group, hist, failures>>

\* A handler returns an error or panics: PoisonQueue sees the error first, since
\* Retry was added before it and wraps it.
ErrorSwallowed == "ack"
AfterError == "poison"

Handle(c) ==
  /\ pc[c] = "handle"
  /\ ran' = [ran EXCEPT ![item[c]] = @ + 1]
  /\ \/ pc' = [pc EXCEPT ![c] = "ack"] /\ handled' = handled \union {item[c]}
     \/ /\ "handler" \in Faults
        /\ pc' = [pc EXCEPT ![c] = AfterError] /\ UNCHANGED handled
  /\ UNCHANGED <<login, stream, group, ahead, item, tries, poisoned, failures>>

\* Retry runs the handler again; after its last attempt the message is nacked, and
\* the subscriber delivers it anew.
RetriesForever(n) == n + 1
NextTry(n) == IF n < MaxRetries THEN n + 1 ELSE 0

Again(c) ==
  /\ pc' = [pc EXCEPT ![c] = "handle"]
  /\ tries' = [tries EXCEPT ![c] = NextTry(@)]

\* PoisonQueue publishes the message; an error of that, with or without effect,
\* goes up to Retry.
Poison(c) ==
  /\ pc[c] = "poison"
  /\ \/ /\ poisoned' = poisoned \union {item[c]}
        /\ pc' = [pc EXCEPT ![c] = "ack"]
        /\ UNCHANGED <<tries, failures>>
     \/ Fault("redis") /\ Again(c) /\ UNCHANGED poisoned
     \/ Fault("redis") /\ Again(c) /\ poisoned' = poisoned \union {item[c]}
  /\ UNCHANGED <<login, stream, group, ahead, item, handled, ran>>

\* XACK, repeated until it succeeds.
Ack(c) ==
  /\ pc[c] = "ack"
  /\ owner' = [owner EXCEPT ![item[c]] = NotPending]
  /\ pc' = [pc EXCEPT ![c] = "idle"]
  /\ item' = [item EXCEPT ![c] = 0]
  /\ UNCHANGED <<login, stream, delivered, ahead, tries, hist, failures>>

\* The process dies and restarts; its consumers get new names, so what was pending
\* for them belongs to nobody, and goroutines that had not published are gone.
Crash ==
  /\ Fault("crash")
  /\ login' = [m \in Msg |-> IF login[m] = "publish" THEN "failed" ELSE login[m]]
  /\ owner' = [i \in Pos |-> IF owner[i] = NotPending THEN NotPending ELSE Nobody]
  /\ pc' = [c \in Consumer |-> "idle"]
  /\ item' = [c \in Consumer |-> 0]
  /\ ahead' = [h \in Consumer \X Place |-> 0]
  /\ UNCHANGED <<stream, delivered, tries, hist>>

Consume(c) == Fetch(c) \/ Claim(c) \/ Begin(c) \/ Handle(c) \/ Poison(c) \/ Ack(c)

Next ==
  \/ \E m \in Msg : Login(m) \/ Publish(m)
  \/ \E c \in Consumer : Consume(c)
  \/ Trim \/ Crash

Spec == Init /\ [][Next]_vars

\* Handlers return, and the goroutines of a subscriber keep running.
FairSpec == Spec /\ \A c \in Consumer : WF_vars(Consume(c))

-----------------------------------------------------------------------------
(* Properties *)

TypeOK ==
  /\ login \in [Msg -> {"none", "publish", "sent", "failed"}]
  /\ log \in Seq(Msg) /\ Len(log) <= MaxEntries
  /\ trimmed \in 0 .. Len(log) /\ delivered \in 0 .. Len(log)
  /\ owner \in [Pos -> Consumer \union {Nobody, NotPending}]
  /\ pc \in [Consumer -> {"idle", "handle", "poison", "ack"}]
  /\ ahead \in [Consumer \X Place -> 0 .. Len(log)]
  /\ item \in [Consumer -> 0 .. Len(log)]
  /\ tries \in [Consumer -> 0 .. MaxRetries]
  /\ handled \subseteq Pos /\ poisoned \subseteq Pos
  /\ ran \in [Pos -> Nat]
  /\ failures \in 0 .. MaxFaults

Settled(i) == i \in handled \union poisoned

\* Of the newest entries, as many as both limits keep, none is lost, whatever crashes
\* or fails and however slowly the consumers read: each is still in the stream and
\* will be delivered, or is pending, or was handled, or is in the poison queue.
Limits == {PublishMaxLen} \union (IF TrimInterval > 0 THEN {TrimMaxLen} ELSE {})
Newest == {i \in 1 .. Len(log) : \A n \in Limits \ {0} : i > Len(log) - n}

NewestNeverLost ==
  \A i \in Newest : i > trimmed /\ (i > delivered \/ owner[i] # NotPending \/ Settled(i))

\* An entry leaves the pending list only when it was settled, or deleted before.
NothingDropped ==
  \A i \in 1 .. delivered : i > trimmed => owner[i] # NotPending \/ Settled(i)

\* A handler runs once for an entry, and once more at most for every call that failed,
\* every crash and every time an entry was left idle for too long: neither the poison
\* queue, the claims nor a restart make it run again for nothing.
RunsHaveCauses == \A i \in Pos : ran[i] <= 1 + failures

\* Once the logins are over, every entry is settled or was deleted by a length limit:
\* none waits for ever in the stream, for a busy handler, for an ack or in the pending
\* list of a consumer that is gone.
EveryEntrySettled ==
  <>[](\A i \in 1 .. Len(log) : Settled(i) \/ i <= trimmed)

\* An entry that can still be handled: in the stream and not given to the group yet, or
\* pending there; or in the hands of a consumer, deleted or not.
Reachable(i) ==
  \/ i > trimmed /\ (i > delivered \/ owner[i] # NotPending)
  \/ \E h \in Consumer \X Place : ahead[h] = i
  \/ \E c \in Consumer : pc[c] # "idle" /\ item[c] = i

\* The refinement mapping: what the variables of the abstract queue are here.
settledShown == handled \union poisoned
lostShown    == {i \in 1 .. Len(log) : ~Settled(i) /\ ~Reachable(i)}

Abstract == INSTANCE LossyQueue WITH
  Limits  <- Limits \ {0},
  cut     <- trimmed,
  settled <- settledShown,
  lost    <- lostShown

\* The queue keeps the promise of LossyQueue whatever crashes or fails: a message waits
\* until it is handled or poisoned, whoever drops it meanwhile; it is lost only if a
\* length limit cut it off, never before, and never comes back.
KeepsMessages == Abstract!QueueSpec

\* "Messages beyond the number of retries go to mq.poison": a message in the poison
\* queue was tried 1 + MaxRetries times.
RetriedBeforePoison == \A i \in poisoned : ran[i] > MaxRetries

\* "Only consumed messages are removed, unconsumed ones are not affected."
TrimSparesUnconsumed == \A i \in 1 .. trimmed : Settled(i)

=============================================================================
