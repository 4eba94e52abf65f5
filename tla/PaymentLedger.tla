---------------------------- MODULE PaymentLedger ----------------------------
(***************************************************************************)
(* What billing promises an account, whatever is delivered, repeated or    *)
(* retried: a Helio transaction buys its tier and its months once, counted *)
(* from the moment it is granted.                                          *)
(***************************************************************************)
EXTENDS Naturals

CONSTANTS Txs, Months, TierOf,
          Month        \* length of thirty days, in ticks of the clock

VARIABLES clock, granted, paidUntil, tier

\* An account that never paid, or one whose earlier payments last some time yet.
Init == clock = 0 /\ granted = {} /\ paidUntil \in Nat /\ tier \in 0..3

Tick == clock' = clock + 1 /\ UNCHANGED <<granted, paidUntil, tier>>

Grant(t) ==
  /\ t \notin granted
  /\ granted' = granted \cup {t}
  /\ paidUntil' = clock + Month * Months[t]
  /\ tier' = TierOf[t]
  /\ UNCHANGED clock

Next == Tick \/ \E t \in Txs : Grant(t)

Spec == Init /\ [][Next]_<<clock, granted, paidUntil, tier>>
=============================================================================
