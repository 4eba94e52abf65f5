----------------------------- MODULE MCBranding ------------------------------
(***************************************************************************)
(* A small instance of Branding for TLC: one domain, two keys of one       *)
(* protocol at one place, and a key of another protocol.                   *)
(***************************************************************************)
EXTENDS Branding, TLC

CONSTANTS k1, k2, k3

KeyOwners    == [k \in Keys |-> IF k = k3 THEN "theirs" ELSE "ours"]
KeyDomains   == [k \in Keys |-> "example.org"]
KeySelectors == [k \in Keys |-> IF k = k3 THEN "s2" ELSE "s1"]

InGovernance == [t \in Templates |-> "governance"]

\* The two sources meet in the cache.
Hashes ==
  [s \in Sources \cup {System, Minimal} |-> IF s \in {"plain", "branded"} THEN "custom" ELSE s]

\* What is unsafe in "scripted" leaves "plain".
Sanitized == [s \in Sources |-> IF s = "scripted" THEN "plain" ELSE s]

Nobody == [domains |-> {}, keys |-> {}, writers |-> {}, mails |-> {}, told |-> {}, born |-> {},
           asked |-> {}, versions |-> MaxVersion, logos |-> {}, picks |-> {}]
Asks(h, d) == [html |-> h, dflt |-> d]
OneLogo == {CHOOSE l \in Compliant : TRUE}

\* Two calls on keys, of one protocol and of two; two on a key and its logo; two
\* on the HTML of a template; two on the default of two templates; a call on
\* domains while mails are sent; a call on templates while mails are sent.
AtWork ==
  {[Nobody EXCEPT !.domains = Admins, !.keys = {k1, k2}],
   [Nobody EXCEPT !.domains = Admins, !.keys = {k1, k3}],
   [Nobody EXCEPT !.domains = Admins, !.keys = {k1}, !.logos = Logos],
   [Nobody EXCEPT !.writers = Admins, !.versions = 1,
                  !.asked = {Asks(h, d) : h \in {None, Invalid, "plain"}, d \in {"yes", "no"}}]}
  \cup {[Nobody EXCEPT !.writers = Admins, !.born = {t},
                       !.asked = {Asks(s, Keep) : s \in {"plain", "branded", Invalid}}] : t \in Own}
  \cup {[Nobody EXCEPT !.domains = {a}, !.keys = {k1, k3}, !.mails = Mails, !.picks = {None},
                       !.logos = OneLogo] : a \in Admins}
  \cup {[Nobody EXCEPT !.writers = {a}, !.mails = Mails, !.born = {t}, !.versions = 2,
                       !.told = told, !.picks = Templates,
                       !.asked = {Asks(s, Keep) : s \in {"branded", "scripted"}}
                                 \cup {Asks(None, "no")}] :
          a \in Admins, t \in Own, told \in {{}, Mails}}

\* Registration with the providers, which mails do not ask about, is left to the
\* scenes without mails, and the categories of mails to those without domains.
MCNext ==
  /\ Next
  /\ scene.mails # {} => \A a \in Admins : task'[a] # "register"
  /\ scene.domains # {} => UNCHANGED mcategory

MCSpec == Init /\ [][MCNext]_vars

Symmetry == Permutations(Admins) \cup Permutations(Own)
=============================================================================
