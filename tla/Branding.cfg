\* Two calls manage domains or templates while a worker sends mails.
SPECIFICATION MCSpec
SYMMETRY Symmetry
CONSTANTS
  k1 = k1
  k2 = k2
  k3 = k3
  Keys = {k1, k2, k3}
  OwnerOf <- KeyOwners
  DomainOf <- KeyDomains
  SelectorOf <- KeySelectors
  Logos = {l1, l2, l3}
  Compliant = {l1, l2}
  Admins = {a1, a2}
  None = None
  MaxDomains = 1
  MaxEvents = 2
  MaxFaults = 1
  Ours = "ours"
  Templates = {t1, t2, f1}
  Own = {t1, t2}
  CategoryOf <- InGovernance
  Sources = {"plain", "branded", "scripted"}
  Branded = {"branded"}
  Purified <- Sanitized
  Herald = Herald
  HashOf <- Hashes
  Provider = "ses"
  Mails = {m1}
  Kept = 2
  MaxVersion = 4
  Scenes <- AtWork
 
INVARIANT VersionsAgree
INVARIANT DefaultsExplained
INVARIANT BimiExplained
\* Once every template is deleted nothing is left to do.
CHECK_DEADLOCK FALSE
