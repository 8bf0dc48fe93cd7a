----------------------------- MODULE DeferredMC -----------------------------
(* The lists that get and get_items are run on. *)
EXTENDS Deferred

List(r, t, o) == [rows |-> r, trimmed |-> t, opaque |-> o, keyed |-> TRUE]

\* Every list of up to eight rows whose first page is {1, 2}, gaps and all,
\* with every row returned.
PlainLists == {List({1, 2} \cup s, {}, {}) : s \in SUBSET (3..8)}

\* The first link cannot be read, and the page after it comes back empty: one
\* page after another, and then guesses.
UnreadableLists == {List(1..4 \cup s, {3, 4}, {2}) : s \in SUBSET (5..8)}

\* A gap wide enough for one page to swallow several guesses, dense and sparse
\* on either side of it; and pages of which no row is returned.
GapLists == {List(s, t, {}) :
                s \in {{1, 2, 3, 10, 11, 12}, {1, 2, 9, 10, 11, 12}, {1, 2, 3, 4, 11, 12},
                       {1, 2, 7, 8, 12}},
                t \in {{}, {9, 10}}}

\* Rows without an id, dense and with gaps.
UnkeyedLists == {[List(s, {}, {}) EXCEPT !.keyed = FALSE] :
                    s \in {1..6, {1, 2, 4, 6, 7}, {1, 2, 5, 6, 8}}}

SomeLists == PlainLists \cup UnreadableLists \cup GapLists \cup UnkeyedLists

\* The link after the second page cannot be read.
OpaqueLists == {List(1..7, {}, {4})}
=============================================================================
