----------------------------- MODULE MCReceipts -----------------------------
(***************************************************************************)
(* Receipts with the parties of one scene: the scanners and workers that   *)
(* run and the notifications that get delivered.                           *)
(***************************************************************************)
EXTENDS Receipts

CONSTANTS n1, n2, n3, p1, p2, w1, w2

Scenes == {<<{p1, p2}, {w1, w2}, {n1}>>, <<{p1}, {w1}, {n1, n3}>>, <<{p1}, {w1}, {n2}>>}

VARIABLE scene

MCInit == ReceiptsInit /\ scene \in Scenes

MCNext ==
  /\ ReceiptsNext
  /\ \A p \in Scanners \ scene[1] : spc'[p] = "idle"
  /\ \A w \in Workers \ scene[2] : wpc'[w] = "idle"
  /\ \A i \in DOMAIN delivered' : delivered'[i] \in scene[3]
  /\ UNCHANGED scene

MCSpec == MCInit /\ [][MCNext]_<<receiptsVars, scene>> /\ ReceiptsFairness
=============================================================================
