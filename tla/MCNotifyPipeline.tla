-------------------------- MODULE MCNotifyPipeline --------------------------
(* Small instances of NotifyPipeline for TLC. *)
EXTENDS NotifyPipeline

CONSTANTS r1, r2, k1

\* Two requests with one key: a send and its retry by the client.
SameKey == [r \in Requests |-> k1]

\* A keyed request beside one without a key.
OneKey == [r \in Requests |-> IF r = r1 THEN k1 ELSE NoKey]
=============================================================================
