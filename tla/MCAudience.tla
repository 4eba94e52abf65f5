----------------------------- MODULE MCAudience -----------------------------
(* Instance of Audience for TLC: an audience that lists a wallet twice. *)
EXTENDS Audience

CONSTANTS x1, x2

MCWallets == {x1, x2}
MCListed  == <<x1, x2, x2>>
=============================================================================
