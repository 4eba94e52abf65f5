------------------------------- MODULE Domains -------------------------------
(***************************************************************************)
(* Custom sender domains of the protocols: DKIM keys and their limit, the  *)
(* DNS check, registration with SES and Resend, and the BIMI logo a        *)
(* protocol has for a domain.  A part of Branding, which adds the mails    *)
(* that use them.                                                          *)
(***************************************************************************)
EXTENDS Naturals, FiniteSets, Sequences

CONSTANTS
  Keys,            \* DKIM keys that may be provisioned
  OwnerOf,         \* the protocol a key is for
  DomainOf,        \* the domain of a key
  SelectorOf,      \* the selector of a key
  Logos,           \* BIMI logos
  Compliant,       \* those that pass for SVG Tiny
  Admins,          \* API calls under way at once
  None,
  MaxDomains,      \* domains the plan allows
  MaxEvents,       \* bound: what happens in DNS, crashes
  MaxFaults        \* bound: failed calls to KMS, providers and Postgres

Names == {DomainOf[k] : k \in Keys}

\* <selector>._domainkey.<domain>; no two rows have the same.
Place(k) == <<DomainOf[k], SelectorOf[k]>>
Places == {Place(k) : k \in Keys}

\* The BIMI record of a protocol for a domain serves all its keys there.
RecordOf(k) == <<OwnerOf[k], DomainOf[k]>>
Records == {RecordOf(k) : k \in Keys}

ASSUME KeysAssumption == IsFiniteSet(Keys) /\ Compliant \subseteq Logos
ASSUME LimitsAssumption == MaxDomains \in Nat /\ MaxEvents \in Nat /\ MaxFaults \in Nat
ASSUME NoneAssumption == None \notin Keys \cup Logos \cup Admins

VARIABLES
  rows,            \* dkim_keys, oldest first
  used,            \* keys that were provisioned at some time
  verified,        \* dns_verified
  ses, resend,     \* registered with the provider
  txt,             \* DNS: the key published at a place
  bimi,            \* bimi_records: logo and is_verified
  published,       \* DNS: the logo published for a domain
  dmarc,           \* DNS: domains whose policy is quarantine or reject
  task, arg, got,  \* an API call: where it is, its key, what it read
  passing,         \* syncs all of whose look-ups so far found what they should
  events, faults,
  \* History: keys a look-up found a record for; syncs whose logo was replaced
  \* since they read it; records whose logo was replaced since the sync that
  \* judged it; logos a sync found in DNS after a DMARC policy.
  seen, changed, swapped, shown

dnsVars    == <<txt, published, dmarc>>
rowVars    == <<rows, used, verified, ses, resend>>
taskVars   == <<task, arg, got, passing>>
domainVars == <<rowVars, dnsVars, bimi, taskVars, seen, changed, swapped, shown>>

Held == {rows[i] : i \in DOMAIN rows}

Syncing == {"dmarc", "record", "write"}
Tasks == {"idle", "kms", "insert", "lookup", "register", "delete", "upsert"} \cup Syncing
NoBimi == [logo |-> None, ok |-> FALSE]

DomainsTypeOK ==
  /\ rows \in Seq(Keys) /\ used \subseteq Keys /\ verified \subseteq Keys
  /\ ses \subseteq Keys /\ resend \subseteq Keys /\ seen \subseteq Keys
  /\ txt \in [Places -> Keys \cup {None}]
  /\ published \in [Names -> Logos \cup {None}] /\ dmarc \subseteq Names
  /\ bimi \in [Records -> [logo : Logos \cup {None}, ok : BOOLEAN]]
  /\ task \in [Admins -> Tasks] /\ arg \in [Admins -> Keys \cup {None}]
  /\ got \in [Admins -> Logos \cup {None}] /\ passing \subseteq Admins
  /\ events \in 0..MaxEvents /\ faults \in 0..MaxFaults
  /\ changed \subseteq Admins /\ swapped \subseteq Records
  /\ shown \subseteq Names \X Logos

DomainsInit ==
  /\ rows = <<>> /\ used = {} /\ verified = {} /\ ses = {} /\ resend = {} /\ seen = {}
  /\ txt = [p \in Places |-> None]
  /\ published = [n \in Names |-> None] /\ dmarc = Names
  /\ bimi = [r \in Records |-> NoBimi]
  /\ task = [a \in Admins |-> "idle"] /\ arg = [a \in Admins |-> None]
  /\ got = [a \in Admins |-> None] /\ passing = {}
  /\ events = 0 /\ faults = 0 /\ changed = {} /\ swapped = {}
  /\ shown = {}

Event == events < MaxEvents /\ events' = events + 1
Fault == faults < MaxFaults /\ faults' = faults + 1

Begins(a, t, k) ==
  /\ task[a] = "idle"
  /\ task' = [task EXCEPT ![a] = t] /\ arg' = [arg EXCEPT ![a] = k]
Goes(a, t) == task' = [task EXCEPT ![a] = t] /\ UNCHANGED <<arg, got>>
Returns(a) ==
  /\ task' = [task EXCEPT ![a] = "idle"] /\ arg' = [arg EXCEPT ![a] = None]
  /\ got' = [got EXCEPT ![a] = None]
  /\ changed' = changed \ {a} /\ passing' = passing \ {a}

-----------------------------------------------------------------------------
(* Keys. *)

\* provisionDomainKey: the active keys of the protocol are counted, and a key is
\* made in KMS.
Provision(a, k) ==
  /\ k \notin used /\ \A b \in Admins : arg[b] # k
  /\ Cardinality({l \in Held : OwnerOf[l] = OwnerOf[k]}) < MaxDomains
  /\ Begins(a, "kms", k)
  /\ UNCHANGED <<got, passing, rowVars, dnsVars, bimi, events, faults, seen, changed, swapped, shown>>

CreateKmsKey(a) ==
  /\ task[a] = "kms"
  /\ \/ Goes(a, "insert") /\ UNCHANGED <<faults, changed, passing>>
     \/ Fault /\ Returns(a)
  /\ UNCHANGED <<rowVars, dnsVars, bimi, events, seen, swapped, shown>>

\* A domain may have several keys; domain and selector are unique together,
\* over all protocols.
InsertKey(a) ==
  LET k == arg[a] IN
  /\ task[a] = "insert" /\ Returns(a) /\ used' = used \cup {k}
  /\ rows' = IF \E l \in Held : Place(l) = Place(k) THEN rows ELSE Append(rows, k)
  /\ UNCHANGED <<verified, ses, resend, dnsVars, bimi, events, faults, seen, swapped, shown>>

\* verifyDomain: the row is read, its record looked up.
StartVerify(a, k) ==
  /\ k \in Held /\ Begins(a, "lookup", k)
  /\ UNCHANGED <<got, passing, rowVars, dnsVars, bimi, events, faults, seen, changed, swapped, shown>>

\* Only the first 32 characters of the key are looked for, which all RSA keys
\* of this size share: any such key fits.
RecordFits(k) == txt[Place(k)] # None

\* A failed look-up, or a row deleted meanwhile, answers "not verified".
VerifyDomain(a) ==
  LET k == arg[a] IN
  /\ task[a] = "lookup" /\ Returns(a)
  /\ \/ /\ RecordFits(k)
        /\ verified' = IF k \in Held THEN verified \cup {k} ELSE verified
        /\ seen' = IF txt[Place(k)] # None THEN seen \cup {k} ELSE seen
        /\ UNCHANGED faults
     \/ ~RecordFits(k) /\ UNCHANGED <<verified, seen, faults>>
     \/ Fault /\ UNCHANGED <<verified, seen>>
  /\ UNCHANGED <<rows, used, ses, resend, dnsVars, bimi, events, swapped, shown>>

\* registerDomain: both providers are asked, and one may fail.
StartRegister(a, k) ==
  /\ k \in Held /\ Begins(a, "register", k)
  /\ UNCHANGED <<got, passing, rowVars, dnsVars, bimi, events, faults, seen, changed, swapped, shown>>

\* An identity that exists already is as good as a new one.
RegisterWithSes(k, answers)    == IF answers /\ k \in Held THEN ses \cup {k} ELSE ses
RegisterWithResend(k, answers) == IF answers /\ k \in Held THEN resend \cup {k} ELSE resend

RegisterDomain(a) ==
  LET k == arg[a] IN
  /\ task[a] = "register" /\ Returns(a)
  /\ \E sesAnswers, resendAnswers \in BOOLEAN :
       /\ IF sesAnswers /\ resendAnswers THEN UNCHANGED faults ELSE Fault
       /\ ses' = RegisterWithSes(k, sesAnswers)
       /\ resend' = RegisterWithResend(k, resendAnswers)
  /\ UNCHANGED <<rows, used, verified, dnsVars, bimi, events, seen, swapped, shown>>

\* deleteDomainKey: Resend is told first, and may fail.
StartDelete(a, k) ==
  /\ k \in Held /\ Begins(a, "delete", k)
  /\ UNCHANGED <<got, passing, rowVars, dnsVars, bimi, events, faults, seen, changed, swapped, shown>>

\* The row goes, if it is still there; the BIMI record stays behind.
DeleteDomainKey(a) ==
  LET k == arg[a] IN
  /\ task[a] = "delete" /\ Returns(a)
  /\ \/ k \notin Held /\ UNCHANGED rows
     \/ \E i \in DOMAIN rows :
          /\ rows[i] = k
          /\ rows' = [j \in 1..Len(rows) - 1 |-> rows[IF j < i THEN j ELSE j + 1]]
  /\ verified' = verified \ {k} /\ ses' = ses \ {k}
  /\ resend' = resend \ {k}
  /\ UNCHANGED <<used, dnsVars, bimi, events, faults, seen, swapped, shown>>

-----------------------------------------------------------------------------
(* BIMI. *)

\* validateLogo
ValidateLogo(l) == l \in Compliant

\* upsertBimi: the domain is read and the logo validated; a refused logo ends
\* the call.
StartUpsert(a, k, l) ==
  /\ k \in Held /\ ValidateLogo(l)
  /\ Begins(a, "upsert", k) /\ got' = [got EXCEPT ![a] = l]
  /\ UNCHANGED <<passing, rowVars, dnsVars, bimi, events, faults, seen, changed, swapped, shown>>

\* A new logo leaves is_verified as it was.
UpsertBimi(a) ==
  LET r == RecordOf(arg[a]) IN
  /\ task[a] = "upsert"
  /\ bimi' = [bimi EXCEPT ![r].logo = got[a]]
  /\ task' = [task EXCEPT ![a] = "idle"] /\ arg' = [arg EXCEPT ![a] = None]
  /\ got' = [got EXCEPT ![a] = None]
  /\ swapped' = IF bimi[r].logo = got[a] THEN swapped ELSE swapped \cup {r}
  /\ changed' = (changed \ {a})
       \cup {b \in Admins \ {a} : task[b] \in Syncing /\ RecordOf(arg[b]) = r /\ got[b] # got[a]}
  /\ UNCHANGED <<passing, rowVars, dnsVars, events, faults, seen, shown>>

\* syncBimiStatus: the record is read, then DNS is asked twice, then the verdict
\* written.
StartSync(a, k) ==
  /\ k \in Held /\ bimi[RecordOf(k)].logo # None /\ Begins(a, "dmarc", k)
  /\ got' = [got EXCEPT ![a] = bimi[RecordOf(k)].logo]
  /\ UNCHANGED <<passing, rowVars, dnsVars, bimi, events, faults, seen, changed, swapped, shown>>

\* A look-up that fails finds nothing.
CheckDmarcPolicy(a) ==
  /\ task[a] = "dmarc" /\ Goes(a, "record")
  /\ \/ /\ passing' = IF DomainOf[arg[a]] \in dmarc THEN passing \cup {a} ELSE passing
        /\ UNCHANGED faults
     \/ Fault /\ UNCHANGED passing
  /\ UNCHANGED <<rowVars, dnsVars, bimi, events, seen, changed, swapped, shown>>

\* Mutant of RecordMatches: a record of whatever logo is enough.
RecordMatchesAny(n, l) == published[n] # None

RecordMatches(n, l) == published[n] = l

\* Judged with the logo that was read.
CheckBimiRecord(a) ==
  LET n == DomainOf[arg[a]] IN
  /\ task[a] = "record" /\ Goes(a, "write")
  /\ \/ /\ passing' = IF RecordMatches(n, got[a]) THEN passing ELSE passing \ {a}
        /\ shown' = IF a \in passing THEN shown \cup ({n} \X (Logos \cap {published[n]})) ELSE shown
        /\ UNCHANGED faults
     \/ Fault /\ passing' = passing \ {a} /\ UNCHANGED shown
  /\ UNCHANGED <<rowVars, dnsVars, bimi, events, seen, changed, swapped>>

\* The verdict, whatever became of DNS and of the logo meanwhile.
SyncBimi(a) ==
  LET r == RecordOf(arg[a]) IN
  /\ task[a] = "write" /\ Returns(a)
  /\ \/ /\ bimi' = [bimi EXCEPT ![r].ok = (a \in passing)]
        /\ swapped' = IF a \in changed THEN swapped \cup {r} ELSE swapped \ {r}
        /\ UNCHANGED faults
     \/ Fault /\ UNCHANGED <<bimi, swapped>>
  /\ UNCHANGED <<rowVars, dnsVars, events, seen, shown>>

-----------------------------------------------------------------------------
(* External: the owner's DNS. *)

DnsChanges(logos) ==
  /\ Event
  /\ \/ \E p \in Places, k \in used \cup {None} :
          k # txt[p] /\ txt' = [txt EXCEPT ![p] = k] /\ UNCHANGED <<published, dmarc>>
     \/ \E n \in Names, l \in logos \cup {None} :
          l # published[n] /\ published' = [published EXCEPT ![n] = l]
          /\ UNCHANGED <<txt, dmarc>>
     \/ dmarc' \in SUBSET Names /\ dmarc' # dmarc /\ UNCHANGED <<txt, published>>
  /\ UNCHANGED <<rowVars, bimi, taskVars, faults, seen, changed, swapped, shown>>

DomainStep(a, keys, logos) ==
  \/ \E k \in keys : \/ Provision(a, k) \/ StartVerify(a, k) \/ StartRegister(a, k)
                     \/ StartDelete(a, k) \/ StartSync(a, k)
                     \/ \E l \in logos : StartUpsert(a, k, l)
  \/ CreateKmsKey(a) \/ InsertKey(a) \/ VerifyDomain(a) \/ RegisterDomain(a)
  \/ DeleteDomainKey(a) \/ UpsertBimi(a)
  \/ CheckDmarcPolicy(a) \/ CheckBimiRecord(a) \/ SyncBimi(a)

=============================================================================
