----------------------------- MODULE MCTelegram -----------------------------
(* A small instance of Telegram for TLC. *)
EXTENDS Telegram, TLC

CONSTANTS p1, p2, c1, n1, x1, x2

\* One long notification of p1, a nonce of p1's own bot and one of p2's.
Protocol == [n \in Notifs |-> p1]
Chat     == [n \in Notifs |-> c1]
Category == [n \in Notifs |-> "defi"]
Body     == [n \in Notifs |-> 4000]
Frame    == [n \in Notifs |-> 90]
Buttons  == [n \in Notifs |-> 2]
Of       == [x \in Nonces |-> IF x = x1 THEN p1 ELSE p2]
For      == [x \in Nonces |-> "custom"]
\* The paragraphs leave it at two parts, the least that can break off between two.
TwoParts == Init /\ \A n \in Notifs : chunks[n] = 2
MCSpec   == TwoParts /\ [][Next]_vars

\* Runs are interchangeable.
Symmetric == Permutations(Runs)
=============================================================================
