---------------------------- MODULE MCConfStore ----------------------------
(* Instances of ConfStore for TLC. *)
EXTENDS ConfStore

T(i, v, s) == [id |-> i, ver |-> v, split |-> s]

\* Three ids; the first has two versions, the second may span several lines.
MCTexts == {T(1, 1, FALSE), T(1, 2, FALSE), T(2, 1, FALSE), T(2, 1, TRUE), T(3, 1, FALSE)}

\* An empty file, and one whose tests are not in the order of their ids, with
\* two lines for one of them.
MCStartConfs == {<<>>, <<T(2, 1, FALSE), T(1, 1, FALSE), T(1, 2, FALSE)>>}
=============================================================================
