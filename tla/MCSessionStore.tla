--------------------------- MODULE MCSessionStore ---------------------------
(* Instances of SessionStore for TLC. *)
EXTENDS SessionStore, TLC

CONSTANTS a, b, o1, o2

\* The saved chat changes once, which is enough to leave a fork behind; the other
\* twice, so that a write queued before an opening can meet one queued after it.
FewChanges == [c \in Chats |-> IF c \in Saved THEN 1 ELSE 2]

\* Openings are only told apart by what they have read.
OpeningSymmetry == Permutations(Openings)
=============================================================================
