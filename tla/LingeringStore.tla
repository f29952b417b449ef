--------------------------- MODULE LingeringStore ---------------------------
(***************************************************************************)
(* What the product endpoints promise, without Redis, singleflight or      *)
(* request steps.  Every id has a current value and a set of visible       *)
(* values: the current one and older ones that still linger.  A read       *)
(* answers a visible value; an update patches a visible value; an older    *)
(* value may be forgotten at any time, and a forgotten value is never seen *)
(* again unless a write brings it back.                                    *)
(***************************************************************************)
EXTENDS Naturals

CONSTANTS
  Req, Id, Field, NotFound, NoReply,
  Defaulted    \* fields a revived product may have lost to their default, 0

VARIABLES
  view,     \* Id -> the current value
  visible,  \* Id -> the values a read may still answer
  ask,      \* Req -> the id the request is about
  reply     \* Req -> the answer of a read, NoReply before there is one

lvars == <<view, visible, ask, reply>>

LingeringInit ==
  /\ view \in [Id -> {NotFound, [f \in Field |-> 0]}]
  /\ visible = [k \in Id |-> {view[k]}]
  /\ ask \in [Req -> Id]
  /\ reply = [r \in Req |-> NoReply]

\* Nothing but the values written becomes visible; the current value stays.
Settle(written) ==
  \A k \in Id : /\ visible'[k] \subseteq visible[k] \union written[k]
                /\ view'[k] \in visible'[k]

Nothing == [k \in Id |-> {}]

Forget == Settle(Nothing) /\ UNCHANGED <<view, ask, reply>>

\* v is base with one body applied and some fields lost: it agrees with base on the fields
\* the body does not name, and the fields it names have one origin.
PatchOf(v, base, lost) ==
  /\ \A f \in lost : v[f] = 0
  /\ \E body \in SUBSET Field :
       /\ \A f \in Field \ (body \union lost) : v[f] = base[f]
       /\ \A f, g \in body \ lost : v[f] = v[g]

\* A delete, a create of an absent product, or an update of a visible one; when the
\* product is absent, the update revives it and may lose fields to their default.
Written(k, v) ==
  \/ v = NotFound
  \/ v # NotFound /\ view[k] = NotFound /\ \A f, g \in Field : v[f] = v[g]
  \/ v # NotFound /\ \E base \in visible[k] \ {NotFound} :
       \E lost \in SUBSET (IF view[k] = NotFound THEN Defaulted ELSE {}) :
         PatchOf(v, base, lost)

Commit(k) ==
  /\ \A j \in Id \ {k} : view'[j] = view[j]
  /\ Written(k, view'[k])
  /\ Settle([Nothing EXCEPT ![k] = {view'[k]}])
  /\ UNCHANGED <<ask, reply>>

Asking(r) ==
  /\ \A q \in Req \ {r} : ask'[q] = ask[q] /\ reply'[q] = reply[q]
  /\ ask'[r] \in Id /\ reply'[r] = NoReply
  /\ UNCHANGED <<view, visible>>

Reply(r) ==
  /\ reply[r] = NoReply
  /\ reply'[r] \in visible[ask[r]]
  /\ \A q \in Req \ {r} : reply'[q] = reply[q]
  /\ Settle(Nothing)
  /\ UNCHANGED <<view, ask>>

LingeringNext ==
  \/ Forget
  \/ \E k \in Id : Commit(k)
  \/ \E r \in Req : Asking(r) \/ Reply(r)

LingeringSpec == LingeringInit /\ [][LingeringNext]_lvars

=============================================================================
