----------------------------- MODULE MCPipeline -----------------------------
(* Instances of Pipeline for TLC. *)
EXTENDS Pipeline

CONSTANTS own, foreign, abc

\* Every header and token on every route, with an empty body; and every body on the
\* routes that bind one, with the headers that let it through.
Plain == [route |-> "read", preflight |-> FALSE, origin |-> own, token |-> "admin",
          size |-> 0, arrives |-> 0, object |-> 0, declared |-> TRUE, binary |-> FALSE,
          tags |-> <<"en">>, id |-> NoId]
Headed == {[Plain EXCEPT !.route = r, !.origin = o, !.token = t, !.tags = l, !.id = i] :
             r \in Routes, o \in {own, foreign, NoOrigin}, t \in Token, i \in {abc, NoId},
             l \in {<<>>, <<"other", "en", "zh">>}}
Asked == {[Plain EXCEPT !.route = "none", !.preflight = TRUE, !.origin = o] :
            o \in {own, foreign, NoOrigin}}
Bodies == {b \in [size : 0..3, arrives : 0..3, object : 0..3] : b.arrives <= b.size /\ b.object <= b.size}
Kinds  == {k \in [declared : BOOLEAN, binary : BOOLEAN] : k.declared \/ ~k.binary}
Loaded == {[Plain EXCEPT !.route = r, !.size = b.size, !.arrives = b.arrives, !.object = b.object,
                         !.declared = k.declared, !.binary = k.binary] :
             r \in Binds, b \in Bodies, k \in Kinds}
AllRequests == Headed \cup Asked \cup Loaded
=============================================================================
