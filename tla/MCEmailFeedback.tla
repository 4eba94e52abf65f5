-------------------------- MODULE MCEmailFeedback --------------------------
(* A small instance of EmailFeedback for TLC. *)
EXTENDS EmailFeedback

CONSTANTS s1, s2, h, c, d, m1, m2, w1, w2

\* Soft bounces of two mails, a hard bounce of the first and a complaint about
\* it, a delivery of the second.
Kind    == [e \in Events |-> CASE e \in {s1, s2} -> "soft" [] e = h -> "hard"
                               [] e = c -> "complaint" [] e = d -> "delivery"]
Message == [e \in Events |-> IF e \in {s1, h, c} THEN m1 ELSE m2]

\* Scenes with the workers that run in each and the faults it may meet.
Casts ==
  {[scene |-> [events |-> {s1, s2, d}, known |-> {m1, m2}, mails |-> 0],
    staff |-> {w1}, faults |-> 0],
   [scene |-> [events |-> {s1, d}, known |-> {m1, m2}, mails |-> 0],
    staff |-> {w1, w2}, faults |-> 1],
   [scene |-> [events |-> {h, c}, known |-> {m2}, mails |-> 0],
    staff |-> {w1}, faults |-> 1],
   [scene |-> [events |-> {c}, known |-> {m2}, mails |-> 1],
    staff |-> {w1}, faults |-> 1],
   [scene |-> [events |-> {c}, known |-> {m2}, mails |-> 0],
    staff |-> {w1, w2}, faults |-> 1]}

Together == {k.scene : k \in Casts}

VARIABLE cast

MCInit ==
  /\ FeedbackInit
  /\ cast \in Casts
  /\ {e \in Events : src[e] = "none"} = cast.scene.events
  /\ known = cast.scene.known
  /\ mails = cast.scene.mails

MCNext ==
  /\ FeedbackNext
  /\ \A w \in Workers \ cast.staff : rpc'[w] = "idle"
  /\ faults' <= cast.faults
  /\ UNCHANGED cast

MCSpec == MCInit /\ [][MCNext]_<<feedbackVars, cast>> /\ FeedbackFairness
=============================================================================
