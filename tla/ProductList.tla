----------------------------- MODULE ProductList -----------------------------
(***************************************************************************)
(* GET /products: the paging of the product list, next to the writes of    *)
(* ProductCache.  A list request counts the live rows and reads one page   *)
(* of them, in two statements and without a transaction.  A client that    *)
(* wants the whole list asks for the pages 1, 2, 3, ... until one is       *)
(* shorter than its size; what such a walk may miss or repeat while rows   *)
(* come and go is what this module is about.                               *)
(*                                                                         *)
(* A query parameter is the number its text stands for; a text that is no  *)
(* number stands for 0, and an absent one for its default ("1", "10").     *)
(***************************************************************************)
EXTENDS ProductCache

CONSTANTS
  RawPage,      \* values of ?page=
  RawSize,      \* values of ?size=
  MaxSize,      \* the largest page size accepted, 100
  DefaultSize,  \* the size of a page that asks for none or for a wrong one, 10
  MaxInt        \* the largest int

\* Ids are uints, and a table has no more rows than an int counts.
ASSUME IdAssumption   == Id \subseteq Nat /\ IsFiniteSet(Id) /\ Cardinality(Id) <= MaxInt
ASSUME RawAssumption  == RawPage \subseteq Int /\ RawSize \subseteq Int
ASSUME SizeAssumption == MaxSize \in Nat /\ DefaultSize \in 1..MaxSize /\ MaxInt \in Nat \ {0}

VARIABLES
  at,      \* where the list request stands
  query,   \* its page and size, as ParsePage returns them
  total,   \* what Count returned
  rows,    \* ids of the rows Find returned and the client was sent
  moved,   \* history: rows that appeared or vanished since Count
  walk     \* history: the walk the request is a page of

listVars == <<at, query, total, rows, moved, walk>>

-----------------------------------------------------------------------------
(* ParsePage, and the page of a query *)

\* strconv.Atoi, its error ignored: a number out of range reads as the nearest int.
Atoi(n) == IF n > MaxInt THEN MaxInt ELSE IF n < -MaxInt - 1 THEN -MaxInt - 1 ELSE n

PageUnchecked(raw) == Atoi(raw)
PageOf(raw) == IF Atoi(raw) < 1 THEN 1 ELSE Atoi(raw)
SizeOf(raw) == IF Atoi(raw) \in 1..MaxSize THEN Atoi(raw) ELSE DefaultSize

\* The int a product overflows to.
Wrapped(n) == ((n + MaxInt + 1) % (2 * (MaxInt + 1))) - (MaxInt + 1)

OffsetInPages(q) == q.page - 1
Offset(q) == Wrapped((q.page - 1) * q.size)

Live == {k \in Id : View(k) # NotFound}

\* ORDER BY id DESC: the rows that stand before k, and the first n of them.
Rank(set, k) == Cardinality({j \in set : j > k})
FirstRows(set, n) == {k \in set : Rank(set, k) < n}

\* LIMIT size OFFSET offset; gorm writes no OFFSET unless it is positive.  The rows of a
\* page are a set: their order is the one of their ids.
PageRows(q) ==
  LET skip == IF Offset(q) > 0 THEN Offset(q) ELSE 0
  IN  FirstRows(Live, skip + q.size) \ FirstRows(Live, skip)

CountAllRows == Cardinality({k \in Id : db[k] # NoRow})
CountRows == Cardinality(Live)

-----------------------------------------------------------------------------
(* The list request *)

NoWalk == [next |-> 0, size |-> 0, shown |-> 0, seen |-> {}, stay |-> {}, removed |-> 0, added |-> 0]
Walking == walk.next > 0

\* The page shorter than its size was the last.
WalkOver == Walking /\ at = "done" /\ Cardinality(rows) < query.size

\* Page 1 begins a walk; the page that is due goes on with it; any other ends it.
WalkOn(page, size) ==
  IF page = 1
  THEN [NoWalk EXCEPT !.next = 1, !.size = size, !.stay = Live]
  ELSE IF walk.next = page /\ walk.size = size /\ ~WalkOver THEN walk ELSE NoWalk

ListInit ==
  /\ Init
  /\ at = "idle" /\ query = [page |-> 1, size |-> DefaultSize]
  /\ total = 0 /\ rows = {} /\ moved = 0 /\ walk = NoWalk

\* A client asks for a page and the handler parses the query.
Ask(rawPage, rawSize) ==
  /\ at \notin {"count", "find"}
  /\ at' = "count"
  /\ query' = [page |-> PageOf(rawPage), size |-> SizeOf(rawSize)]
  /\ total' = 0 /\ rows' = {} /\ moved' = 0
  /\ walk' = WalkOn(PageOf(rawPage), SizeOf(rawSize))
  /\ UNCHANGED vars

\* The page is sent to the client.
Send(ids) ==
  /\ at' = "done"
  /\ rows' = ids
  /\ walk' = IF Walking
             THEN [walk EXCEPT !.next = @ + 1, !.shown = @ + Cardinality(ids), !.seen = @ \union ids]
             ELSE walk

\* SELECT count(*); nothing to find is answered at once.
Count ==
  /\ at = "count"
  /\ total' = CountRows
  /\ IF total' = 0 THEN Send({}) ELSE at' = "find" /\ UNCHANGED <<rows, walk>>
  /\ UNCHANGED <<vars, query, moved>>

\* The second statement, some time after the first.
Find ==
  /\ at = "find"
  /\ Send(PageRows(query))
  /\ UNCHANGED <<vars, query, total, moved>>

\* A statement fails, or the client leaves: 500.
ListFails ==
  /\ at \in {"count", "find"}
  /\ at' = "failed" /\ total' = 0
  /\ UNCHANGED <<vars, query, rows, moved, walk>>

\* What the writes do meanwhile: rows appear and vanish.
Others ==
  /\ Next
  /\ LET gained == Live' \ Live
         lost   == Live \ Live'
     IN  /\ moved' = IF at = "find" THEN moved + Cardinality(gained \union lost) ELSE moved
         /\ walk' = IF ~Walking \/ WalkOver THEN walk
                    ELSE [walk EXCEPT !.stay = @ \ lost,
                                      !.removed = @ + Cardinality(lost),
                                      !.added = @ + Cardinality(gained)]
  /\ UNCHANGED <<at, query, total, rows>>

ListNext ==
  \/ \E page \in RawPage, size \in RawSize : Ask(page, size)
  \/ Count \/ Find \/ ListFails
  \/ Others

ListSpec == ListInit /\ [][ListNext]_<<vars, listVars>>

-----------------------------------------------------------------------------
(* Properties *)

ListTypeOK ==
  /\ at \in {"idle", "count", "find", "done", "failed"}
  /\ query \in [page : 1..MaxInt, size : 1..MaxSize]
  /\ total \in 0..Cardinality(Id)
  /\ rows \subseteq Id /\ Cardinality(rows) <= query.size
  /\ moved \in Nat
  /\ walk \in [next : Nat, size : Nat, shown : Nat, seen : SUBSET Id, stay : SUBSET Id,
               removed : Nat, added : Nat]

\* A walk through all pages tells the truth about the list up to what changed on the
\* way: it shows no more rows again than were inserted meanwhile, and of the rows that
\* were there all the time it misses no more than were deleted.
WalkShowsTheList ==
  /\ walk.shown - Cardinality(walk.seen) <= walk.added
  /\ WalkOver => Cardinality(walk.stay \ walk.seen) <= walk.removed

\* The answer is the page its own total promises, up to the rows that appeared or
\* vanished between the two statements, for every page whose offset fits an int.
PageFitsTotal ==
  LET offset   == (query.page - 1) * query.size
      rest     == IF total > offset THEN total - offset ELSE 0
      promised == Min2(rest, query.size)
  IN  at = "done" /\ offset <= MaxInt =>
        /\ Cardinality(rows) <= promised + moved
        /\ promised <= Cardinality(rows) + moved

=============================================================================
