------------------------------ MODULE LossyQueue ------------------------------
(***************************************************************************)
(* What the message queue promises whoever publishes, without groups,      *)
(* pending lists, consumers, retries or crashes.  Messages are added at    *)
(* the end and keep their place.  A message waits until it is settled -    *)
(* handled, or sent to the poison queue - or lost.  Length limits cut off  *)
(* the oldest messages, as many as one of them allows; only a message that *)
(* was cut off can be lost.  What is settled or lost remains so.           *)
(***************************************************************************)
EXTENDS Integers, Sequences

CONSTANTS
  Msg,     \* messages
  Limits   \* the length limits in force, each at least 1

VARIABLES
  log,      \* the messages added so far
  cut,      \* how many of the oldest were cut off
  settled,  \* positions handled or sent to the poison queue
  lost      \* positions that will never be handled

qvars == <<log, cut, settled, lost>>

QueueInit == log = <<>> /\ cut = 0 /\ settled = {} /\ lost = {}

Waiting == (1 .. Len(log)) \ (settled \union lost)

\* No more than one of the limits allows is cut off.
Shorten == cut' = cut \/ \E n \in Limits : cut' \in cut .. Len(log') - n

\* Of those that wait, some that were cut off are lost.
Lose == lost \subseteq lost' /\ lost' \subseteq lost \union (Waiting \intersect 1 .. cut')

Put    == (\E m \in Msg : log' = Append(log, m)) /\ Shorten /\ Lose /\ UNCHANGED settled
Forget == Shorten /\ Lose /\ UNCHANGED <<log, settled>>
Settle == \E i \in Waiting : settled' = settled \union {i} /\ UNCHANGED <<log, cut, lost>>

QueueNext == Put \/ Forget \/ Settle

QueueSpec == QueueInit /\ [][QueueNext]_qvars

=============================================================================
