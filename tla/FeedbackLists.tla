---------------------------- MODULE FeedbackLists ----------------------------
(***************************************************************************)
(* The two lists of a BlockFeedback datagram as pure operators: the done   *)
(* blocks, packed as at most `limit' ranges that rotate with the feedback  *)
(* id, and the open blocks, cut to `limit' entries with ghosts first.      *)
(* Block numbers are integers; a list of the code is a set here because    *)
(* both sides sort what they pack and rebuild sets from what they unpack.  *)
(***************************************************************************)
EXTENDS Integers, FiniteSets

\* The n smallest elements of a set of numbers: sorted(S)[:n].
Lowest(S, n) == {x \in S : Cardinality({y \in S : y < x}) < n}

\* The first block of every maximal run of consecutive done blocks.
RangeStarts(S) == {x \in S : x - 1 \notin S}

\* The position, from 0, of the run that holds x.
RangeIndex(S, x) == Cardinality({s \in RangeStarts(S) : s <= x}) - 1

\* The blocks a feedback reports as done: all of them while they form no
\* more than `limit' ranges, else the `limit' ranges of the cyclic list that
\* start at (rotate * limit) % n.
DoneRanges(S, limit, rotate) ==
    LET n == Cardinality(RangeStarts(S))
    IN  {x \in S : \/ n <= limit
                   \/ (RangeIndex(S, x) - rotate * limit) % n < limit}

\* The blocks a feedback lists as open: the lowest ghosts (decoded, slot not
\* yet released), then the lowest incomplete blocks in the room that is left.
MergeOpen(incomplete, ghosts, limit, ghostLimit) ==
    LET kept == Lowest(ghosts, IF ghostLimit < limit THEN ghostLimit ELSE limit)
    IN  kept \cup Lowest(incomplete, limit - Cardinality(kept))
=============================================================================
