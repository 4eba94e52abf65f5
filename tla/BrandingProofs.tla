--------------------------- MODULE BrandingProofs ---------------------------
(***************************************************************************)
(* Safety of Branding and of Domains for every set of keys, templates,     *)
(* sources, calls and mails, and every value of the limits and bounds.     *)
(*                                                                         *)
(* The four properties hold because of what is true in between.  A BIMI    *)
(* verdict is about the logo its sync read, unless that was replaced, and  *)
(* a sync whose look-ups all passed found that logo (SyncsSound); the      *)
(* cache holds sanitised sources only, and answers with one of the same    *)
(* key (CacheSound, Made); of a template that was not overtaken one update *)
(* at a time is between its version record and its row (VersionsSound);    *)
(* after the defaults of a category were unset no default is left but that *)
(* of the call that unset them (DefaultsSound); and what a mail has in     *)
(* hand depends on how far it is (MailsSound).                             *)
(***************************************************************************)
EXTENDS Branding, TLAPS, FiniteSetTheorems, SequenceTheorems

\* A call on domains knows its key; a sync judges the logo of the record, or
\* counts as overtaken; what passed all look-ups was found.
SyncsSound ==
  \A a \in Admins :
    /\ task[a] # "idle" => arg[a] \in Keys
    /\ task[a] = "upsert" \/ task[a] \in Syncing => got[a] \in Logos
    /\ task[a] \in Syncing /\ a \notin changed => bimi[RecordOf(arg[a])].logo = got[a]
    /\ task[a] = "write" /\ a \in passing => <<DomainOf[arg[a]], got[a]>> \in shown

BimiShown ==
  \A r \in Records : bimi[r].ok =>
    /\ r \notin swapped => <<r[2], bimi[r].logo>> \in shown
    /\ \E l \in Logos : <<r[2], l>> \in shown

DInv == DomainsTypeOK /\ verified \subseteq seen /\ SyncsSound /\ BimiShown

\* What a template has, once it is there.
TemplatesSound ==
  /\ \A t \in Templates \ born : version[t] = 0
  /\ \A t \in born : /\ version[t] >= 1 /\ html[t] \in Sources
                     /\ Purified[html[t]] = html[t]

\* What a call on templates has in hand, by where it is.
WritersSound ==
  \A w \in Admins :
    /\ wpc[w] = "idle" => wt[w] = None
    /\ wpc[w] # "idle" => wt[w] \in Own
    /\ wpc[w] = "unset" => wbody[w].dflt = "yes"
    /\ wpc[w] = "create" => wt[w] \notin born
    /\ wpc[w] \in {"version", "prune", "update"} => wt[w] \in born
    /\ wpc[w] = "version" => wbody[w].html # None
    /\ wpc[w] = "prune" => wbody[w].html \in Sources
    /\ wpc[w] = "update" => wbody[w].html \in Sources \cup {None}
    /\ wt[w] \in Own \ born => /\ wbody[w].html \in Sources
                               /\ Purified[wbody[w].html] = wbody[w].html
                               /\ \A v \in Admins : wt[v] = wt[w] => v = w
    /\ wt[w] \in born /\ wbody[w].html \in Sources => wread[w] < MaxVersion

\* A call whose version is on record and not yet in the row.
Pending(w) == wpc[w] \in {"prune", "update"} /\ wbody[w].html # None

Recorded(t, n) == {r \in versions[t] : r[1] = n}

VersionsSound ==
  \A t \in Own \ overtaken :
    /\ \A r \in versions[t] : r[1] <= version[t] + 1
    /\ version[t] > 1 => Recorded(t, version[t]) = {<<version[t], html[t]>>}
    /\ \A w \in Admins : wt[w] = t /\ t \in born => wread[w] \in 1..version[t]
    /\ \A w \in Admins : Pending(w) /\ wt[w] = t =>
         /\ wread[w] = version[t]
         /\ Recorded(t, version[t] + 1) = {<<version[t] + 1, Purified[wbody[w].html]>>}
         /\ \A v \in Admins : Pending(v) /\ wt[v] = t => v = w

\* A call that unset the defaults of category c to set one of its own.
Claims(w, c) ==
  wpc[w] \notin {"idle", "unset"} /\ wbody[w].dflt = "yes" /\ CategoryOf[wt[w]] = c

DefaultsOf(c) == {t \in Own \cap isDefault : CategoryOf[t] = c}

DefaultsSound ==
  \A c \in Categories \ raced :
    /\ \A t, u \in DefaultsOf(c) : t = u
    /\ \A w \in Admins : Claims(w, c) =>
         /\ DefaultsOf(c) \subseteq {wt[w]}
         /\ \A v \in Admins : Claims(v, c) => v = w

Loaded(m) ==
  /\ msource[m] \in Sources \cup {System, Minimal}
  /\ mloaded[m] = None => msource[m] \in {System, Minimal}
  /\ mloaded[m] # None => /\ mloaded[m] \in Own /\ msource[m] \in Sources
                          /\ Purified[msource[m]] = msource[m]

\* What came out of the cache and of the footer.
Made(m) ==
  /\ Sha(mmade[m]) = Sha(msource[m])
  /\ mmade[m] \in Sources => Purified[mmade[m]] = mmade[m]
  /\ mfooters[m] \in {0, 1}
  /\ mfooters[m] = 0 => \/ msource[m] = Minimal \/ HasMark(m, mmade[m])
                        \/ mmade[m] # msource[m]

\* By what a mail announces BIMI, once it is sent.
Announced(m) ==
  /\ mpc[m] # "sent" => mbimi[m] = None
  /\ mbimi[m] \in Records => /\ msender[m] # None /\ DomainOf[msender[m]] = mbimi[m][2]
                             /\ \E l \in Logos : <<mbimi[m][2], l>> \in shown

MailsSound ==
  \A m \in Mails :
    /\ mpc[m] \in {"idle", "sender", "custom", "default", "system"} => mloaded[m] = None
    /\ mpc[m] \in {"render", "send", "sent"} => Loaded(m)
    /\ mpc[m] \in {"send", "sent"} => Made(m)
    /\ msender[m] # None => OwnerOf[msender[m]] = Ours /\ msender[m] \in seen
    /\ Announced(m)

\* The cache holds what went through the sanitiser.
CacheSound == \A s \in compiled \cap Sources : Purified[s] = s

\* The types of templates and calls on them, and of mails.
TemplateTypes ==
  /\ active \subseteq born /\ born \subseteq Templates
  /\ isDefault \subseteq born /\ approved \subseteq born
  /\ html \in [Templates -> Sources \cup {None}] /\ version \in [Templates -> 0..MaxVersion]
  /\ versions \in [Templates -> SUBSET ((1..MaxVersion) \X Sources)]
  /\ wpc \in [Admins -> {"idle", "unset", "create", "version", "prune", "update"}]
  /\ wt \in [Admins -> Templates \cup {None}]
  /\ wbody \in [Admins -> Bodies] /\ wread \in [Admins -> 0..MaxVersion]
  /\ raced \subseteq Categories /\ overtaken \subseteq Templates

MailTypes ==
  /\ compiled \subseteq (Sources \cup {System, Minimal})
  /\ mpc \in [Mails -> {"idle", "sender", "custom", "default", "system", "render", "send", "sent"}]
  /\ mtemplate \in [Mails -> Templates \cup {None}] /\ mcategory \in [Mails -> Categories]
  /\ msender \in [Mails -> Keys \cup {None}]
  /\ mloaded \in [Mails -> Templates \cup {None}]
  /\ msource \in [Mails -> Sources \cup {System, Minimal, None}]
  /\ mmade \in [Mails -> Sources \cup {System, Minimal, None}]
  /\ mfooters \in [Mails -> Nat] /\ mbimi \in [Mails -> Records \cup {None, Herald}]

WInv == TemplateTypes /\ TemplatesSound /\ WritersSound /\ VersionsSound /\ DefaultsSound

MInv == MailTypes /\ CacheSound /\ MailsSound

IInv == scene \in Scenes /\ DInv /\ WInv /\ MInv

-----------------------------------------------------------------------------
\* Taking a key out of the list of keys leaves a list of keys.
LEMMA WithoutKey ==
  ASSUME NEW s \in Seq(Keys), NEW i \in DOMAIN s
  PROVE  [j \in 1..Len(s) - 1 |-> s[IF j < i THEN j ELSE j + 1]] \in Seq(Keys)
<1> DEFINE n == Len(s) - 1
<1>1. Len(s) \in Nat /\ DOMAIN s = 1..Len(s) /\ s \in [1..Len(s) -> Keys]
  BY LenProperties
<1>2. n \in Nat
  BY <1>1
<1>3. \A j \in 1..n : s[IF j < i THEN j ELSE j + 1] \in Keys
  BY <1>1
<1>4. [j \in 1..n |-> s[IF j < i THEN j ELSE j + 1]] \in [1..n -> Keys]
  BY <1>3
<1> QED
  BY <1>2, <1>4, SeqDef

\* A key has a record, of its domain.
LEMMA RecordFacts ==
  /\ \A k \in Keys : RecordOf(k) \in Records /\ RecordOf(k)[2] = DomainOf[k] /\ DomainOf[k] \in Names
  /\ \A r \in Records : r[2] \in Names
BY DEF RecordOf, Records, Names

\* The beginning of a call on domains changes nothing but what it has in hand.
LEMMA DomainBegins ==
  ASSUME DInv, NEW a \in Admins, NEW logos \in SUBSET Logos, NEW k \in Keys,
         \/ Provision(a, k) \/ StartVerify(a, k) \/ StartRegister(a, k) \/ StartDelete(a, k)
         \/ StartSync(a, k) \/ \E l \in logos : StartUpsert(a, k, l)
  PROVE  DInv' /\ UNCHANGED <<seen, shown>>
<1> USE NoneAssumption DEF DInv, DomainsTypeOK, rowVars, dnsVars, Begins, Tasks, Syncing
<1>1. \E t \in Tasks \ {"idle", "record", "write"} :
        /\ task[a] = "idle" /\ task' = [task EXCEPT ![a] = t] /\ arg' = [arg EXCEPT ![a] = k]
        /\ \/ t \notin {"upsert", "dmarc"} /\ got' = got
           \/ t = "upsert" /\ \E l \in logos : got' = [got EXCEPT ![a] = l]
           \/ /\ t = "dmarc" /\ bimi[RecordOf(k)].logo # None
              /\ got' = [got EXCEPT ![a] = bimi[RecordOf(k)].logo]
  BY DEF Provision, StartVerify, StartRegister, StartDelete, StartSync, StartUpsert
<1>2. UNCHANGED <<passing, rowVars, dnsVars, bimi, events, faults, seen, changed, swapped, shown>>
  BY DEF Provision, StartVerify, StartRegister, StartDelete, StartSync, StartUpsert
<1>3. bimi[RecordOf(k)].logo \in Logos \cup {None}
  BY RecordFacts
<1>4. DomainsTypeOK'
  <2>1. task' \in [Admins -> Tasks] /\ arg' \in [Admins -> Keys \cup {None}]
    BY <1>1
  <2>2. got' \in [Admins -> Logos \cup {None}]
    BY <1>1, <1>3
  <2> QED
    BY <1>2, <2>1, <2>2
<1>5. SyncsSound'
  BY <1>1, <1>2, <1>3 DEF SyncsSound
<1>6. BimiShown'
  BY <1>2 DEF BimiShown
<1> QED
  BY <1>2, <1>4, <1>5, <1>6

\* The end of a call on domains forgets what it had in hand.
LEMMA DomainReturns ==
  ASSUME DInv, NEW a \in Admins, Returns(a), UNCHANGED <<bimi, shown>>
  PROVE  /\ task' \in [Admins -> Tasks] /\ arg' \in [Admins -> Keys \cup {None}]
         /\ got' \in [Admins -> Logos \cup {None}] /\ changed' \subseteq Admins
         /\ passing' \subseteq Admins /\ SyncsSound'
<1> USE DEF DInv, DomainsTypeOK, Returns, Tasks, Syncing
<1>1. /\ task' \in [Admins -> Tasks] /\ arg' \in [Admins -> Keys \cup {None}]
      /\ got' \in [Admins -> Logos \cup {None}] /\ changed' \subseteq Admins
      /\ passing' \subseteq Admins
  OBVIOUS
<1>2. SyncsSound'
  BY DEF SyncsSound
<1> QED
  BY <1>1, <1>2

\* The calls on DKIM keys: a key passes as verified only when a record of it
\* was seen.
LEMMA KeySteps ==
  ASSUME DInv, NEW a \in Admins,
         \/ CreateKmsKey(a) \/ InsertKey(a) \/ VerifyDomain(a) \/ RegisterDomain(a)
         \/ DeleteDomainKey(a)
  PROVE  DInv' /\ seen \subseteq seen' /\ UNCHANGED shown
<1> USE LimitsAssumption, NoneAssumption DEF DInv, rowVars, dnsVars, Fault
<1>1. ASSUME UNCHANGED <<dnsVars, bimi, swapped, shown>> PROVE BimiShown'
  BY <1>1 DEF BimiShown
<1>2. CASE CreateKmsKey(a)
  <2>1. CASE Returns(a)
    BY <1>1, <1>2, <2>1, DomainReturns DEF CreateKmsKey, DomainsTypeOK
  <2>2. CASE Goes(a, "insert") /\ UNCHANGED <<faults, changed, passing>>
    <3>1. DomainsTypeOK'
      BY <1>2, <2>2 DEF CreateKmsKey, DomainsTypeOK, Goes, Tasks
    <3>2. SyncsSound'
      BY <1>2, <2>2 DEF CreateKmsKey, DomainsTypeOK, Goes, SyncsSound, Syncing
    <3> QED
      BY <1>1, <1>2, <3>1, <3>2 DEF CreateKmsKey
  <2> QED
    BY <1>2, <2>1, <2>2 DEF CreateKmsKey
<1>3. CASE InsertKey(a)
  <2>1. arg[a] \in Keys
    BY <1>3 DEF InsertKey, SyncsSound
  <2>2. rows' \in Seq(Keys)
    BY <1>3, <2>1 DEF InsertKey, DomainsTypeOK
  <2> QED
    BY <1>1, <1>3, <2>1, <2>2, DomainReturns DEF InsertKey, DomainsTypeOK
<1>4. CASE VerifyDomain(a)
  <2>1. arg[a] \in Keys
    BY <1>4 DEF VerifyDomain, SyncsSound
  <2>2. /\ verified' \subseteq Keys /\ seen' \subseteq Keys /\ seen \subseteq seen'
        /\ verified' \subseteq seen' /\ faults' \in 0..MaxFaults
    BY <1>4, <2>1 DEF VerifyDomain, DomainsTypeOK, RecordFits
  <2> QED
    BY <1>1, <1>4, <2>2, DomainReturns DEF VerifyDomain, DomainsTypeOK
<1>5. CASE RegisterDomain(a)
  <2>1. arg[a] \in Keys
    BY <1>5 DEF RegisterDomain, SyncsSound
  <2>2. ses' \subseteq Keys /\ resend' \subseteq Keys /\ faults' \in 0..MaxFaults
    BY <1>5, <2>1 DEF RegisterDomain, DomainsTypeOK, RegisterWithSes, RegisterWithResend
  <2> QED
    BY <1>1, <1>5, <2>2, DomainReturns DEF RegisterDomain, DomainsTypeOK
<1>6. CASE DeleteDomainKey(a)
  <2>1. rows' \in Seq(Keys)
    <3>1. CASE UNCHANGED rows
      BY <3>1 DEF DomainsTypeOK
    <3>2. ASSUME NEW i \in DOMAIN rows,
                 rows' = [j \in 1..Len(rows) - 1 |-> rows[IF j < i THEN j ELSE j + 1]]
          PROVE  rows' \in Seq(Keys)
      BY <3>2, WithoutKey DEF DomainsTypeOK
    <3> QED
      BY <1>6, <3>1, <3>2 DEF DeleteDomainKey
  <2> QED
    BY <1>1, <1>6, <2>1, DomainReturns DEF DeleteDomainKey, DomainsTypeOK
<1> QED
  BY <1>2, <1>3, <1>4, <1>5, <1>6

\* A new logo: the verdict stays and counts as stale, and so do syncs that read
\* another one.
LEMMA UpsertStep ==
  ASSUME DInv, NEW a \in Admins, UpsertBimi(a)
  PROVE  DInv' /\ UNCHANGED <<seen, shown>>
<1> USE DEF DInv, rowVars, dnsVars
<1> DEFINE r == RecordOf(arg[a])
<1>1. arg[a] \in Keys /\ got[a] \in Logos /\ r \in Records
  BY RecordFacts DEF UpsertBimi, SyncsSound
<1>2. /\ bimi' = [bimi EXCEPT ![r].logo = got[a]]
      /\ bimi \in [Records -> [logo : Logos \cup {None}, ok : BOOLEAN]]
  BY DEF UpsertBimi, DomainsTypeOK
<1>3. /\ bimi' \in [Records -> [logo : Logos \cup {None}, ok : BOOLEAN]]
      /\ bimi'[r].logo = got[a] /\ bimi'[r].ok = bimi[r].ok
      /\ \A q \in Records \ {r} : bimi'[q] = bimi[q]
  BY <1>1, <1>2
<1>4. DomainsTypeOK'
  <2>1. task' \in [Admins -> Tasks] /\ arg' \in [Admins -> Keys \cup {None}]
    BY DEF UpsertBimi, DomainsTypeOK, Tasks
  <2>2. got' \in [Admins -> Logos \cup {None}]
    BY DEF UpsertBimi, DomainsTypeOK
  <2>3. swapped' \subseteq Records /\ changed' \subseteq Admins
    BY <1>1 DEF UpsertBimi, DomainsTypeOK
  <2> QED
    BY <1>3, <2>1, <2>2, <2>3 DEF UpsertBimi, DomainsTypeOK
<1>5. SyncsSound'
  <2> SUFFICES ASSUME NEW b \in Admins PROVE SyncsSound!(b)'
    BY DEF SyncsSound
  <2>1. CASE b = a
    BY <2>1 DEF UpsertBimi, DomainsTypeOK, Syncing
  <2>2. CASE b # a
    <3>1. /\ task'[b] = task[b] /\ arg'[b] = arg[b] /\ got'[b] = got[b]
          /\ UNCHANGED <<passing, shown>>
      BY <2>2 DEF UpsertBimi, DomainsTypeOK
    <3>2. b \notin changed' =>
            /\ b \notin changed
            /\ ~(task[b] \in Syncing /\ RecordOf(arg[b]) = r /\ got[b] # got[a])
      BY <2>2 DEF UpsertBimi
    <3>3. task[b] # "idle" => RecordOf(arg[b]) \in Records
      BY RecordFacts DEF SyncsSound
    <3>4. RecordOf(arg'[b]) = RecordOf(arg[b])
      BY <3>1 DEF RecordOf
    <3>5. task[b] \in Syncing => task[b] # "idle"
      BY DEF Syncing
    <3>6. SyncsSound!(b)
      BY DEF SyncsSound
    <3> QED
      BY <1>3, <3>1, <3>2, <3>3, <3>4, <3>5, <3>6
  <2> QED
    BY <2>1, <2>2
<1>6. BimiShown'
  <2>1. swapped' = IF bimi[r].logo = got[a] THEN swapped ELSE swapped \cup {r}
    BY DEF UpsertBimi
  <2>2. shown' = shown
    BY DEF UpsertBimi
  <2> QED
    BY <1>3, <2>1, <2>2 DEF BimiShown
<1> QED
  BY <1>4, <1>5, <1>6 DEF UpsertBimi

\* The look-ups of a sync: what passes them both was found.
LEMMA LookupStep ==
  ASSUME DInv, NEW a \in Admins, CheckDmarcPolicy(a) \/ CheckBimiRecord(a)
  PROVE  DInv' /\ UNCHANGED seen /\ shown \subseteq shown'
<1> USE LimitsAssumption DEF DInv, rowVars, dnsVars
<1> DEFINE n == DomainOf[arg[a]]
<1>1. arg[a] \in Keys /\ got[a] \in Logos /\ n \in Names /\ task[a] \in {"dmarc", "record"}
  BY RecordFacts DEF CheckDmarcPolicy, CheckBimiRecord, SyncsSound, Syncing
<1>2. UNCHANGED <<rows, used, verified, ses, resend, txt, published, dmarc, bimi, events, seen,
                  changed, swapped, arg, got>>
  BY DEF CheckDmarcPolicy, CheckBimiRecord, Goes
<1>3. /\ task' = [task EXCEPT ![a] = IF task[a] = "dmarc" THEN "record" ELSE "write"]
      /\ faults' = faults \/ Fault
  BY DEF CheckDmarcPolicy, CheckBimiRecord, Goes
<1>4. /\ passing' \subseteq passing \cup {a}
      /\ shown \subseteq shown' /\ shown' \subseteq Names \X Logos
  <2>1. CASE CheckDmarcPolicy(a)
    BY <2>1 DEF CheckDmarcPolicy, DomainsTypeOK
  <2>2. CASE CheckBimiRecord(a)
    BY <1>1, <2>2 DEF CheckBimiRecord, DomainsTypeOK
  <2> QED
    BY <2>1, <2>2
<1>5. task[a] = "record" /\ a \in passing' => <<n, got[a]>> \in shown'
  <2>1. CASE CheckDmarcPolicy(a)
    BY <2>1 DEF CheckDmarcPolicy
  <2>2. CASE CheckBimiRecord(a)
    BY <1>1, <2>2 DEF CheckBimiRecord, RecordMatches
  <2> QED
    BY <2>1, <2>2
<1>6. DomainsTypeOK'
  <2>1. task' \in [Admins -> Tasks] /\ faults' \in 0..MaxFaults
    BY <1>3 DEF DomainsTypeOK, Tasks, Syncing, Fault
  <2> QED
    BY <1>2, <1>4, <2>1 DEF DomainsTypeOK
<1>7. SyncsSound'
  <2> SUFFICES ASSUME NEW b \in Admins PROVE SyncsSound!(b)'
    BY DEF SyncsSound
  <2>1. SyncsSound!(b)
    BY DEF SyncsSound
  <2>2. RecordOf(arg'[b]) = RecordOf(arg[b])
    BY <1>2 DEF RecordOf
  <2>3. CASE b = a
    <3>1. task'[b] = IF task[a] = "dmarc" THEN "record" ELSE "write"
      BY <1>3, <2>3 DEF DomainsTypeOK
    <3>2. task[b] \in Syncing /\ (task'[b] = "write" => task[a] = "record")
      BY <1>1, <2>3, <3>1 DEF Syncing
    <3> QED
      BY <1>1, <1>2, <1>5, <2>1, <2>2, <2>3, <3>1, <3>2
  <2>4. CASE b # a
    <3>1. task'[b] = task[b] /\ (b \in passing' => b \in passing)
      BY <1>3, <1>4, <2>4 DEF DomainsTypeOK
    <3> QED
      BY <1>2, <1>4, <2>1, <2>2, <3>1
  <2> QED
    BY <2>3, <2>4
<1>8. BimiShown'
  BY <1>2, <1>4 DEF BimiShown
<1> QED
  BY <1>2, <1>4, <1>6, <1>7, <1>8

\* A sync writes what its look-ups said of the logo it read.
LEMMA SyncStep ==
  ASSUME DInv, NEW a \in Admins, SyncBimi(a)
  PROVE  DInv' /\ UNCHANGED <<seen, shown>>
<1> USE LimitsAssumption DEF DInv, rowVars, dnsVars
<1> DEFINE r == RecordOf(arg[a])
           v == a \in passing
<1>1. arg[a] \in Keys /\ got[a] \in Logos /\ r \in Records /\ r[2] = DomainOf[arg[a]]
  BY RecordFacts DEF SyncBimi, SyncsSound, Syncing
<1>2. CASE Fault /\ UNCHANGED <<bimi, swapped>>
  <2>1. DomainsTypeOK' /\ SyncsSound'
    BY <1>2, DomainReturns DEF SyncBimi, DomainsTypeOK, Fault
  <2>2. BimiShown'
    BY <1>2 DEF SyncBimi, BimiShown
  <2> QED
    BY <2>1, <2>2 DEF SyncBimi
<1>3. CASE /\ bimi' = [bimi EXCEPT ![r].ok = v] /\ UNCHANGED faults
           /\ swapped' = IF a \in changed THEN swapped \cup {r} ELSE swapped \ {r}
  <2>1. /\ bimi' \in [Records -> [logo : Logos \cup {None}, ok : BOOLEAN]]
        /\ bimi'[r].logo = bimi[r].logo /\ bimi'[r].ok = v
        /\ \A q \in Records \ {r} : bimi'[q] = bimi[q]
        /\ \A q \in Records : bimi'[q].logo = bimi[q].logo
    <3>1. bimi \in [Records -> [logo : Logos \cup {None}, ok : BOOLEAN]] /\ v \in BOOLEAN
      BY DEF DomainsTypeOK
    <3>2. bimi' = [q \in Records |-> IF q = r THEN [bimi[r] EXCEPT !.ok = v] ELSE bimi[q]]
      BY <1>1, <1>3, <3>1
    <3>3. [bimi[r] EXCEPT !.ok = v] = [logo |-> bimi[r].logo, ok |-> v]
      BY <1>1, <3>1
    <3> HIDE DEF v
    <3> QED
      BY <1>1, <3>1, <3>2, <3>3
  <2>2. DomainsTypeOK'
    <3>1. /\ task' \in [Admins -> Tasks] /\ arg' \in [Admins -> Keys \cup {None}]
          /\ got' \in [Admins -> Logos \cup {None}] /\ changed' \subseteq Admins
          /\ passing' \subseteq Admins
      BY DEF SyncBimi, Returns, DomainsTypeOK, Tasks
    <3>2. swapped' \subseteq Records
      BY <1>1, <1>3 DEF DomainsTypeOK
    <3> QED
      BY <1>3, <2>1, <3>1, <3>2 DEF SyncBimi, DomainsTypeOK
  <2>3. SyncsSound'
    <3> SUFFICES ASSUME NEW b \in Admins PROVE SyncsSound!(b)'
      BY DEF SyncsSound
    <3>1. CASE b = a
      BY <3>1 DEF SyncBimi, Returns, DomainsTypeOK, Syncing
    <3>2. CASE b # a
      <4>1. /\ task'[b] = task[b] /\ arg'[b] = arg[b] /\ got'[b] = got[b]
            /\ (b \notin changed' => b \notin changed) /\ (b \in passing' => b \in passing)
            /\ shown' = shown
        BY <3>2 DEF SyncBimi, Returns, DomainsTypeOK
      <4>2. task[b] # "idle" => RecordOf(arg[b]) \in Records
        BY RecordFacts DEF SyncsSound
      <4>3. RecordOf(arg'[b]) = RecordOf(arg[b])
        BY <4>1 DEF RecordOf
      <4>4. task[b] \in Syncing => task[b] # "idle"
        BY DEF Syncing
      <4>5. SyncsSound!(b)
        BY DEF SyncsSound
      <4> QED
        BY <2>1, <4>1, <4>2, <4>3, <4>4, <4>5
    <3> QED
      BY <3>1, <3>2
  <2>4. BimiShown'
    <3>1. shown' = shown
      BY DEF SyncBimi
    <3>2. v => <<r[2], got[a]>> \in shown
      BY <1>1 DEF SyncsSound, SyncBimi
    <3>3. a \notin changed => bimi[r].logo = got[a]
      BY DEF SyncsSound, SyncBimi, Syncing
    <3> HIDE DEF v
    <3> QED
      BY <1>1, <1>3, <2>1, <3>1, <3>2, <3>3 DEF BimiShown
  <2> QED
    BY <2>2, <2>3, <2>4 DEF SyncBimi
<1> QED
  BY <1>2, <1>3 DEF SyncBimi

\* DNS changes: what is kept of it does not.
LEMMA DnsStep ==
  ASSUME DInv, NEW logos \in SUBSET Logos, DnsChanges(logos)
  PROVE  DInv' /\ UNCHANGED <<seen, shown>>
<1> USE LimitsAssumption DEF DInv, rowVars, taskVars, DnsChanges
<1>1. /\ txt' \in [Places -> Keys \cup {None}]
      /\ published' \in [Names -> Logos \cup {None}] /\ dmarc' \subseteq Names
  <2>1. used \subseteq Keys /\ logos \subseteq Logos
    BY DEF DomainsTypeOK
  <2>2. \/ /\ \E p \in Places, k \in Keys \cup {None} : txt' = [txt EXCEPT ![p] = k]
           /\ UNCHANGED <<published, dmarc>>
        \/ /\ \E n \in Names, l \in Logos \cup {None} : published' = [published EXCEPT ![n] = l]
           /\ UNCHANGED <<txt, dmarc>>
        \/ dmarc' \in SUBSET Names /\ UNCHANGED <<txt, published>>
    BY <2>1
  <2> HIDE DEF DnsChanges
  <2> QED
    BY <2>2 DEF DomainsTypeOK
<1>2. DomainsTypeOK'
  BY <1>1 DEF DomainsTypeOK, Event
<1>3. SyncsSound' /\ BimiShown'
  BY DEF SyncsSound, BimiShown
<1> QED
  BY <1>2, <1>3

\* Every step on domains keeps their invariant and what was seen in DNS.
LEMMA DomainsStep ==
  ASSUME DInv, NEW logos \in SUBSET Logos, NEW keys \in SUBSET Keys,
         DnsChanges(logos) \/ \E a \in Admins : DomainStep(a, keys, logos)
  PROVE  DInv' /\ seen \subseteq seen' /\ shown \subseteq shown'
<1>1. ASSUME NEW a \in Admins, DomainStep(a, keys, logos)
      PROVE  DInv' /\ seen \subseteq seen' /\ shown \subseteq shown'
  <2>1. CASE \E k \in keys : \/ Provision(a, k) \/ StartVerify(a, k) \/ StartRegister(a, k)
                             \/ StartDelete(a, k) \/ StartSync(a, k)
                             \/ \E l \in logos : StartUpsert(a, k, l)
    BY <2>1, DomainBegins
  <2>2. CASE \/ CreateKmsKey(a) \/ InsertKey(a) \/ VerifyDomain(a) \/ RegisterDomain(a)
             \/ DeleteDomainKey(a)
    BY <2>2, KeySteps
  <2>3. CASE UpsertBimi(a)
    BY <2>3, UpsertStep
  <2>4. CASE CheckDmarcPolicy(a) \/ CheckBimiRecord(a)
    BY <2>4, LookupStep
  <2>5. CASE SyncBimi(a)
    BY <2>5, SyncStep
  <2> QED
    BY <1>1, <2>1, <2>2, <2>3, <2>4, <2>5 DEF DomainStep
<1> QED
  BY <1>1, DnsStep

-----------------------------------------------------------------------------
\* What a scene may ask for.
LEMMA SceneFacts ==
  ASSUME scene \in Scenes
  PROVE  /\ scene.writers \subseteq Admins /\ scene.domains \subseteq Admins
         /\ scene.keys \subseteq Keys /\ scene.mails \subseteq Mails /\ scene.born \subseteq Own
         /\ scene.asked \subseteq Bodies /\ scene.versions \in 1..MaxVersion
         /\ scene.logos \subseteq Logos /\ scene.picks \subseteq Templates \cup {None}
         /\ MaxVersion \in Nat /\ MaxVersion >= 1
BY ScenesAssumption, TemplatesAssumption

\* The ends of a step of a call on templates.
LEMMA WriterMoves ==
  ASSUME TemplateTypes, NEW w \in Admins
  PROVE  /\ \A s \in {"idle", "unset", "create", "version", "prune", "update"} :
              WriterGoes(w, s) =>
                /\ wpc' \in [Admins -> {"idle", "unset", "create", "version", "prune", "update"}]
                /\ wpc'[w] = s /\ \A v \in Admins \ {w} : wpc'[v] = wpc[v]
                /\ UNCHANGED <<wt, wbody, wread>>
         /\ WriterEnds(w) =>
              /\ wpc' \in [Admins -> {"idle", "unset", "create", "version", "prune", "update"}]
              /\ wt' \in [Admins -> Templates \cup {None}]
              /\ wbody' \in [Admins -> Bodies] /\ wread' \in [Admins -> 0..MaxVersion]
              /\ wpc'[w] = "idle" /\ wt'[w] = None /\ wbody'[w] = NoBody
              /\ \A v \in Admins \ {w} : /\ wpc'[v] = wpc[v] /\ wt'[v] = wt[v]
                                         /\ wbody'[v] = wbody[v] /\ wread'[v] = wread[v]
<1>1. NoBody \in Bodies /\ 0 \in 0..MaxVersion
  BY TemplatesAssumption DEF NoBody, Bodies
<1> QED
  BY <1>1 DEF TemplateTypes, WriterGoes, WriterEnds

\* What a call on templates that begins is about: HTML of its own for a new
\* template, or a template as it is.
Begun(w, t) ==
  \E s \in {"unset", "create", "version", "update"}, body \in Bodies, n \in 0..MaxVersion :
    /\ wpc' = [wpc EXCEPT ![w] = s] /\ wt' = [wt EXCEPT ![w] = t]
    /\ wbody' = [wbody EXCEPT ![w] = body] /\ wread' = [wread EXCEPT ![w] = n]
    /\ t \in Own /\ (s = "unset" <=> body.dflt = "yes")
    /\ \/ /\ t \notin born /\ s \in {"unset", "create"} /\ body.html \in Sources
          /\ Purified[body.html] = body.html /\ \A v \in Admins : wt[v] # t
       \/ /\ t \in born /\ s # "create" /\ n = version[t]
          /\ s = "version" => body.html # None
          /\ s = "update" => body.html = None
          /\ body.html \in Sources => n < MaxVersion

\* The beginning of a call on templates.
LEMMA WriterStarts ==
  ASSUME scene \in Scenes, WInv, NEW w \in Admins, NEW t \in Templates,
         StartCreate(w, t) \/ StartUpdate(w, t)
  PROVE  /\ UNCHANGED <<events, faults, templateVars>> /\ Still
         /\ wpc[w] = "idle"
         /\ Begun(w, t)
<1>1. CASE StartCreate(w, t)
  <2>1. PICK body \in scene.asked :
          /\ body.html \in Sources /\ body.dflt # Keep
          /\ WriterBegins(w, IF body.dflt = "yes" THEN "unset" ELSE "create", t,
                          [body EXCEPT !.html = ValidateCustomTemplate(@)], 0)
    BY <1>1 DEF StartCreate
  <2>2. body \in Bodies /\ ValidateCustomTemplate(body.html) = Purified[body.html]
    BY <2>1, SceneFacts, TemplatesAssumption DEF ValidateCustomTemplate, SanitizeHtml
  <2> DEFINE b == [body EXCEPT !.html = ValidateCustomTemplate(@)]
  <2>3. /\ b \in Bodies /\ b.dflt = body.dflt /\ b.html = Purified[body.html]
        /\ b.html \in Sources /\ Purified[b.html] = b.html
    BY <2>1, <2>2, TemplatesAssumption DEF Bodies
  <2>4. 0 \in 0..MaxVersion
    BY SceneFacts
  <2>5. t \in Own \ born /\ \A v \in Admins : wt[v] # t
    BY <1>1 DEF StartCreate
  <2>6. UNCHANGED <<events, faults, templateVars>> /\ Still
    BY <1>1 DEF StartCreate
  <2> HIDE DEF b
  <2>7. WriterBegins(w, IF body.dflt = "yes" THEN "unset" ELSE "create", t, b, 0)
    BY <2>1 DEF b
  <2> QED
    BY <2>3, <2>4, <2>5, <2>6, <2>7 DEF WriterBegins, Begun
<1>2. CASE StartUpdate(w, t)
  <2>1. PICK body \in scene.asked :
          /\ body.html \in Sources => version[t] < scene.versions
          /\ WriterBegins(w, IF body.dflt = "yes" THEN "unset"
                             ELSE IF body.html # None THEN "version" ELSE "update",
                          t, body, version[t])
    BY <1>2 DEF StartUpdate
  <2>2. body \in Bodies /\ version[t] \in 0..MaxVersion /\ t \in born /\ t \in Own
    BY <1>2, SceneFacts DEF StartUpdate, WInv, TemplateTypes
  <2>3. body.html \in Sources => version[t] < MaxVersion
    BY <2>1, <2>2, SceneFacts
  <2>4. UNCHANGED <<events, faults, templateVars>> /\ Still
    BY <1>2 DEF StartUpdate
  <2> QED
    BY <2>1, <2>2, <2>3, <2>4 DEF WriterBegins, Begun
<1> QED
  BY <1>1, <1>2

\* A call that begins finds the template as it is, and claims no default yet.
LEMMA StartStep ==
  ASSUME scene \in Scenes, WInv, NEW w \in Admins, NEW t \in Templates,
         StartCreate(w, t) \/ StartUpdate(w, t)
  PROVE  WInv'
<1>1. UNCHANGED templateVars /\ wpc[w] = "idle" /\ Begun(w, t)
  BY WriterStarts
<1>2. PICK s \in {"unset", "create", "version", "update"}, body \in Bodies, n \in 0..MaxVersion :
        /\ wpc' = [wpc EXCEPT ![w] = s] /\ wt' = [wt EXCEPT ![w] = t]
        /\ wbody' = [wbody EXCEPT ![w] = body] /\ wread' = [wread EXCEPT ![w] = n]
        /\ t \in Own /\ (s = "unset" <=> body.dflt = "yes")
        /\ \/ /\ t \notin born /\ s \in {"unset", "create"} /\ body.html \in Sources
              /\ Purified[body.html] = body.html /\ \A v \in Admins : wt[v] # t
           \/ /\ t \in born /\ s # "create" /\ n = version[t]
              /\ s = "version" => body.html # None
              /\ s = "update" => body.html = None
              /\ body.html \in Sources => n < MaxVersion
  BY <1>1, Zenon DEF Begun
<1> USE DEF WInv, TemplateTypes
<1>3. /\ wpc'[w] = s /\ wt'[w] = t /\ wbody'[w] = body /\ wread'[w] = n
      /\ \A v \in Admins \ {w} : /\ wpc'[v] = wpc[v] /\ wt'[v] = wt[v]
                                 /\ wbody'[v] = wbody[v] /\ wread'[v] = wread[v]
  BY <1>2
<1>4. TemplateTypes'
  <2>1. wpc' \in [Admins -> {"idle", "unset", "create", "version", "prune", "update"}]
    BY <1>2
  <2>2. wt' \in [Admins -> Templates \cup {None}]
    BY <1>2
  <2>3. wbody' \in [Admins -> Bodies] /\ wread' \in [Admins -> 0..MaxVersion]
    BY <1>2
  <2> QED
    BY <1>1, <2>1, <2>2, <2>3 DEF templateVars
<1>5. TemplatesSound'
  BY <1>1 DEF templateVars, TemplatesSound
<1>6. WritersSound'
  <2>1. born' = born /\ t \in Templates /\ None \notin Templates
    BY <1>1, TemplatesAssumption DEF templateVars
  <2> SUFFICES ASSUME NEW x \in Admins
               PROVE  WritersSound!(x)'
    BY DEF WritersSound
  <2> QED
    BY <1>2, <1>3, <2>1 DEF WritersSound
<1>7. VersionsSound'
  BY <1>1, <1>2, <1>3 DEF templateVars, VersionsSound, Pending, Recorded, TemplatesSound
<1>8. DefaultsSound'
  BY <1>1, <1>2, <1>3 DEF templateVars, DefaultsSound, Claims, DefaultsOf
<1> QED
  BY <1>4, <1>5, <1>6, <1>7, <1>8

\* The defaults of a category are unset: none is left, and the call that did it
\* is the only one to set another, unless one was at that already.
LEMMA UnsetStep ==
  ASSUME WInv, NEW w \in Admins, UnsetDefaults(w)
  PROVE  WInv'
<1> USE DEF WInv, TemplateTypes
<1> DEFINE c == CategoryOf[wt[w]]
<1> DEFINE s == IF wt[w] \notin born THEN "create"
                ELSE IF wbody[w].html # None THEN "version" ELSE "update"
<1>1. /\ wpc[w] = "unset" /\ WriterGoes(w, s)
      /\ isDefault' = isDefault \ {t \in Own : CategoryOf[t] = c}
      /\ raced' = IF \E v \in Admins \ {w} : Claims(v, c) THEN raced \cup {c} ELSE raced
      /\ UNCHANGED <<born, active, approved, html, version, versions, overtaken>>
  BY DEF UnsetDefaults, Claims
<1>2. wt[w] \in Own /\ c \in Categories
  BY <1>1, TemplatesAssumption DEF WritersSound
<1>3. /\ wpc' \in [Admins -> {"idle", "unset", "create", "version", "prune", "update"}]
      /\ wpc'[w] = s /\ \A v \in Admins \ {w} : wpc'[v] = wpc[v]
      /\ UNCHANGED <<wt, wbody, wread>>
  BY <1>1, WriterMoves
<1>4. TemplateTypes'
  BY <1>1, <1>2, <1>3
<1>5. TemplatesSound'
  BY <1>1 DEF TemplatesSound
<1>6. WritersSound'
  <2> SUFFICES ASSUME NEW x \in Admins
               PROVE  WritersSound!(x)'
    BY DEF WritersSound
  <2> QED
    BY <1>1, <1>2, <1>3, TemplatesAssumption DEF WritersSound
<1>7. VersionsSound'
  <2>1. \A v \in Admins : Pending(v)' => Pending(v)
    BY <1>1, <1>3 DEF Pending
  <2> QED
    BY <1>1, <1>3, <2>1 DEF VersionsSound, Recorded
<1>8. DefaultsSound'
  <2> SUFFICES ASSUME NEW d \in Categories \ raced'
               PROVE  DefaultsSound!(d)'
    BY DEF DefaultsSound
  <2>1. CASE d = c
    <3>1. DefaultsOf(d)' = {}
      BY <1>1, <2>1 DEF DefaultsOf
    <3>2. \A v \in Admins : Claims(v, d)' => v = w
      BY <1>1, <1>3, <2>1 DEF Claims
    <3> QED
      BY <3>1, <3>2
  <2>2. CASE d # c
    <3>1. DefaultsOf(d)' = DefaultsOf(d) /\ d \in Categories \ raced
      BY <1>1, <2>2 DEF DefaultsOf
    <3>2. \A v \in Admins : Claims(v, d)' => Claims(v, d)
      BY <1>3, <2>2 DEF Claims
    <3> QED
      BY <1>3, <3>1, <3>2 DEF DefaultsSound
  <2> QED
    BY <2>1, <2>2
<1> QED
  BY <1>4, <1>5, <1>6, <1>7, <1>8

\* A call that ends, and so claims nothing more, while templates stay.
LEMMA EndStep ==
  ASSUME WInv, NEW w \in Admins, WriterEnds(w), UNCHANGED templateVars
  PROVE  WInv'
<1> USE DEF WInv, TemplateTypes, templateVars
<1>1. /\ wpc' \in [Admins -> {"idle", "unset", "create", "version", "prune", "update"}]
      /\ wt' \in [Admins -> Templates \cup {None}]
      /\ wbody' \in [Admins -> Bodies] /\ wread' \in [Admins -> 0..MaxVersion]
      /\ wpc'[w] = "idle" /\ wt'[w] = None /\ wbody'[w] = NoBody
      /\ \A v \in Admins \ {w} : /\ wpc'[v] = wpc[v] /\ wt'[v] = wt[v]
                                 /\ wbody'[v] = wbody[v] /\ wread'[v] = wread[v]
  BY WriterMoves
<1>2. None \notin Own
  BY TemplatesAssumption
<1>3. TemplatesSound'
  BY DEF TemplatesSound
<1>4. WritersSound'
  <2> SUFFICES ASSUME NEW x \in Admins
               PROVE  WritersSound!(x)'
    BY DEF WritersSound
  <2> QED
    BY <1>1, <1>2, TemplatesAssumption DEF WritersSound
<1>5. VersionsSound'
  BY <1>1, <1>2 DEF VersionsSound, Pending, Recorded
<1>6. DefaultsSound'
  BY <1>1 DEF DefaultsSound, Claims, DefaultsOf
<1> QED
  BY <1>1, <1>3, <1>4, <1>5, <1>6

\* A new template: nobody else is about it, and it is at its first version.
LEMMA CreateStep ==
  ASSUME scene \in Scenes, WInv, NEW w \in Admins, CreateTemplate(w)
  PROVE  WInv'
<1> DEFINE t == wt[w]
<1>1. CASE UNCHANGED templateVars
  BY <1>1, EndStep DEF CreateTemplate
<1>2. CASE ~UNCHANGED templateVars
  <2> USE DEF WInv, TemplateTypes
  <2>1. /\ wpc[w] = "create" /\ WriterEnds(w)
        /\ born' = born \cup {t} /\ active' = active \cup {t}
        /\ isDefault' = IF wbody[w].dflt = "yes" THEN isDefault \cup {t} ELSE isDefault
        /\ html' = [html EXCEPT ![t] = wbody[w].html]
        /\ version' = [version EXCEPT ![t] = 1]
        /\ UNCHANGED <<approved, versions, raced, overtaken>>
    BY <1>2 DEF CreateTemplate, templateVars
  <2>2. /\ t \in Own /\ t \notin born /\ wbody[w].html \in Sources
        /\ Purified[wbody[w].html] = wbody[w].html
        /\ \A v \in Admins : wt[v] = t => v = w
        /\ version[t] = 0 /\ t \in Templates
    BY <2>1, TemplatesAssumption DEF WritersSound, TemplatesSound
  <2>3. /\ wpc' \in [Admins -> {"idle", "unset", "create", "version", "prune", "update"}]
        /\ wt' \in [Admins -> Templates \cup {None}]
        /\ wbody' \in [Admins -> Bodies] /\ wread' \in [Admins -> 0..MaxVersion]
        /\ wpc'[w] = "idle" /\ wt'[w] = None /\ wbody'[w] = NoBody
        /\ \A v \in Admins \ {w} : /\ wpc'[v] = wpc[v] /\ wt'[v] = wt[v]
                                   /\ wbody'[v] = wbody[v] /\ wread'[v] = wread[v]
    BY <2>1, WriterMoves
  <2>4. /\ version'[t] = 1 /\ html'[t] = wbody[w].html
        /\ \A u \in Templates \ {t} : version'[u] = version[u] /\ html'[u] = html[u]
        /\ version' \in [Templates -> 0..MaxVersion]
        /\ html' \in [Templates -> Sources \cup {None}]
    BY <2>1, <2>2, SceneFacts
  <2>5. TemplateTypes'
    BY <2>1, <2>2, <2>3, <2>4
  <2>6. TemplatesSound'
    BY <2>1, <2>2, <2>4 DEF TemplatesSound
  <2>7. WritersSound'
    <3> SUFFICES ASSUME NEW x \in Admins
                 PROVE  WritersSound!(x)'
      BY DEF WritersSound
    <3> QED
      BY <2>1, <2>2, <2>3, TemplatesAssumption DEF WritersSound
  <2>8. VersionsSound'
    <3> SUFFICES ASSUME NEW u \in Own \ overtaken'
                 PROVE  VersionsSound!(u)'
      BY DEF VersionsSound
    <3>1. CASE u = t
      <4>1. \A v \in Admins : wt'[v] # t
        BY <2>2, <2>3, TemplatesAssumption
      <4>2. \A r \in versions[t] : r[1] <= 1
        <5>1. t \in Own \ overtaken
          BY <2>1, <2>2, <3>1
        <5>2. \A r \in versions[t] : r[1] <= version[t] + 1
          BY <5>1 DEF VersionsSound
        <5> QED
          BY <2>2, <5>2
      <4>3. \A r \in versions'[t] : r[1] <= version'[t] + 1
        <5>1. \A r \in versions[t] : r[1] \in 1..MaxVersion
          BY <2>2
        <5> QED
          BY <2>1, <2>4, <4>2, <5>1, SceneFacts
      <4> QED
        BY <2>1, <2>4, <3>1, <4>1, <4>3 DEF Pending
    <3>2. CASE u # t
      <4>1. u \in Templates /\ None \notin Own
        BY TemplatesAssumption
      <4> QED
        BY <2>1, <2>3, <2>4, <3>2, <4>1 DEF VersionsSound, Pending, Recorded
    <3> QED
      BY <3>1, <3>2
  <2>9. DefaultsSound'
    <3> SUFFICES ASSUME NEW d \in Categories \ raced'
                 PROVE  DefaultsSound!(d)'
      BY DEF DefaultsSound
    <3>1. CASE wbody[w].dflt = "yes" /\ CategoryOf[t] = d
      <4>1. Claims(w, d)
        BY <2>1, <3>1 DEF Claims
      <4>2. DefaultsOf(d) \subseteq {t} /\ \A v \in Admins : Claims(v, d) => v = w
        BY <2>1, <4>1 DEF DefaultsSound
      <4>3. DefaultsOf(d)' \subseteq {t}
        BY <2>1, <4>2 DEF DefaultsOf
      <4>4. \A v \in Admins : ~Claims(v, d)'
        BY <2>3, <4>2 DEF Claims
      <4> QED
        BY <4>3, <4>4
    <3>2. CASE ~(wbody[w].dflt = "yes" /\ CategoryOf[t] = d)
      <4>1. DefaultsOf(d)' = DefaultsOf(d)
        BY <2>1, <3>2 DEF DefaultsOf
      <4>2. \A v \in Admins : Claims(v, d)' => Claims(v, d) /\ v # w
        BY <2>3 DEF Claims
      <4> QED
        BY <2>1, <2>3, <4>1, <4>2 DEF DefaultsSound
    <3> QED
      BY <3>1, <3>2
  <2> QED
    BY <2>5, <2>6, <2>7, <2>8, <2>9
<1> QED
  BY <1>1, <1>2

\* Only a version that is not on record is recorded, and only the next one
\* unless the template was overtaken.
LEMMA RecordStep ==
  ASSUME scene \in Scenes, WInv, NEW w \in Admins, AddVersion(w)
  PROVE  WInv'
<1> DEFINE t == wt[w]
           n == wread[w] + 1
           s == Purified[wbody[w].html]
<1>1. CASE WriterEnds(w) /\ UNCHANGED templateVars
  BY <1>1, EndStep
<1>2. CASE ~(WriterEnds(w) /\ UNCHANGED templateVars)
  <2> USE DEF WInv, TemplateTypes
  <2>1. /\ wpc[w] = "version" /\ WriterGoes(w, "prune")
        /\ ValidateCustomTemplate(wbody[w].html) # None /\ VersionFree(t, n)
        /\ versions' = [versions EXCEPT ![t] = @ \cup {<<n, ValidateCustomTemplate(wbody[w].html)>>}]
        /\ overtaken' = IF n < version[t] THEN overtaken \cup {t} ELSE overtaken
        /\ UNCHANGED <<born, active, isDefault, approved, html, version, raced>>
    BY <1>2 DEF AddVersion, templateVars
  <2>2. /\ t \in Own /\ t \in born /\ t \in Templates /\ wbody[w].html \in Sources
        /\ ValidateCustomTemplate(wbody[w].html) = s /\ s \in Sources
        /\ wread[w] \in 0..MaxVersion /\ wread[w] < MaxVersion
    BY <2>1, TemplatesAssumption
       DEF WritersSound, ValidateCustomTemplate, SanitizeHtml, Bodies
  <2>3. /\ wpc' \in [Admins -> {"idle", "unset", "create", "version", "prune", "update"}]
        /\ wpc'[w] = "prune" /\ \A v \in Admins \ {w} : wpc'[v] = wpc[v]
        /\ UNCHANGED <<wt, wbody, wread>>
    BY <2>1, WriterMoves
  <2>4. n \in 1..MaxVersion
    BY <2>2, SceneFacts
  <2>5. /\ versions' \in [Templates -> SUBSET ((1..MaxVersion) \X Sources)]
        /\ versions'[t] = versions[t] \cup {<<n, s>>}
        /\ \A u \in Templates \ {t} : versions'[u] = versions[u]
    BY <2>1, <2>2, <2>4
  <2>6. TemplateTypes'
    BY <2>1, <2>2, <2>3, <2>5
  <2>7. TemplatesSound'
    BY <2>1 DEF TemplatesSound
  <2>8. WritersSound'
    <3> SUFFICES ASSUME NEW x \in Admins
                 PROVE  WritersSound!(x)'
      BY DEF WritersSound
    <3> QED
      BY <2>1, <2>2, <2>3 DEF WritersSound
  <2>9. VersionsSound'
    <3> SUFFICES ASSUME NEW u \in Own \ overtaken'
                 PROVE  VersionsSound!(u)'
      BY DEF VersionsSound
    <3>1. u \in Own \ overtaken /\ u \in Templates
      BY <2>1, TemplatesAssumption
    <3>2. CASE u = t
      <4>1. /\ \A r \in versions[u] : r[1] <= version[u] + 1
            /\ version[u] > 1 => Recorded(u, version[u]) = {<<version[u], html[u]>>}
            /\ \A v \in Admins : wt[v] = u => wread[v] \in 1..version[u]
            /\ \A v \in Admins : Pending(v) /\ wt[v] = u =>
                 Recorded(u, version[u] + 1) = {<<version[u] + 1, Purified[wbody[v].html]>>}
        BY <2>2, <3>1, <3>2 DEF VersionsSound
      <4>2. /\ version[u] \in Nat /\ wread[w] \in 1..version[u] /\ ~(n < version[u])
            /\ \A r \in versions[u] : r[1] \in Nat /\ r[1] # n
        <5>1. ~(n < version[u])
          BY <2>1, <2>2, <3>2
        <5>2. \A r \in versions[u] : r[1] # n
          BY <2>1, <3>2 DEF VersionFree
        <5>3. wread[w] \in 1..version[u]
          BY <3>2, <4>1
        <5>4. version[u] \in Nat /\ \A r \in versions[u] : r[1] \in Nat
          BY <3>1, SceneFacts
        <5> QED
          BY <5>1, <5>2, <5>3, <5>4
      <4>3. n = version[u] + 1
        <5>1. ASSUME version[u] > 1 PROVE n # version[u]
          <6>1. <<version[u], html[u]>> \in Recorded(u, version[u])
            BY <4>1, <5>1
          <6> QED
            BY <4>2, <6>1 DEF Recorded
        <5> QED
          BY <4>2, <5>1
      <4>4. \A r \in versions[u] : r[1] # version[u] + 1
        BY <4>2, <4>3
      <4>5. \A v \in Admins : ~(Pending(v) /\ wt[v] = u)
        <5> SUFFICES ASSUME NEW v \in Admins, Pending(v), wt[v] = u PROVE FALSE
          OBVIOUS
        <5>1. <<version[u] + 1, Purified[wbody[v].html]>> \in Recorded(u, version[u] + 1)
          BY <4>1
        <5> QED
          BY <4>4, <5>1 DEF Recorded
      <4>6. \A v \in Admins : Pending(v)' /\ wt'[v] = u => v = w
        BY <2>3, <4>5 DEF Pending
      <4>7. versions'[u] = versions[u] \cup {<<version[u] + 1, s>>} /\ version' = version
        BY <2>1, <2>5, <3>2, <4>3
      <4>8. {r \in versions'[u] : r[1] = version'[u] + 1} = {<<version'[u] + 1, s>>}
        BY <4>4, <4>7
      <4>9. /\ {r \in versions'[u] : r[1] = version'[u]} = Recorded(u, version[u])
            /\ \A r \in versions'[u] : r[1] <= version'[u] + 1
        BY <4>1, <4>2, <4>7 DEF Recorded
      <4>10. wread'[w] = version'[u] /\ s = Purified[wbody'[w].html]
        <5>1. wread[w] = version[u]
          BY <4>2, <4>3
        <5> QED
          BY <2>3, <4>7, <5>1
      <4> HIDE DEF t, n, s
      <4> QED
        BY <2>1, <2>3, <4>1, <4>6, <4>7, <4>8, <4>9, <4>10 DEF Recorded
    <3>3. CASE u # t
      <4>1. \A v \in Admins : wt[v] = u => (Pending(v)' <=> Pending(v))
        BY <2>3, <3>3 DEF Pending
      <4>2. versions'[u] = versions[u]
        BY <2>5, <3>1, <3>3
      <4> QED
        BY <2>1, <2>3, <3>1, <4>1, <4>2 DEF VersionsSound, Recorded
    <3> QED
      BY <3>2, <3>3
  <2>10. DefaultsSound'
    BY <2>1, <2>3 DEF DefaultsSound, Claims, DefaultsOf
  <2> QED
    BY <2>6, <2>7, <2>8, <2>9, <2>10
<1> QED
  BY <1>1, <1>2

\* Of what is pruned nothing is the version a template shows, or the next one.
LEMMA NewestStay ==
  ASSUME scene \in Scenes, WInv, NEW w \in Admins, wpc[w] = "prune", wt[w] \notin overtaken
  PROVE  \A r \in Oldest(wt[w]) : r[1] # version[wt[w]] /\ r[1] # version[wt[w]] + 1
<1> DEFINE t == wt[w]
<1> USE DEF WInv, TemplateTypes
<1>1. t \in Own \ overtaken /\ t \in Templates /\ Pending(w)
  BY TemplatesAssumption DEF WritersSound, Pending
<1> DEFINE s == Purified[wbody[w].html]
<1>2. Recorded(t, version[t] + 1) = {<<version[t] + 1, s>>}
  BY <1>1 DEF VersionsSound
<1>3. version[t] \in Nat /\ \A q \in versions[t] : q[1] \in Nat /\ q[1] <= version[t] + 1
  BY <1>1, SceneFacts DEF VersionsSound
<1> HIDE DEF t, s, WInv, TemplateTypes
<1>4. Kept \in Nat /\ Kept >= 2
  BY TemplatesAssumption
<1>5. ASSUME NEW r \in versions[t], r[1] = version[t]
      PROVE  ~(Cardinality({q \in versions[t] : q[1] > r[1]}) >= Kept)
  <2>1. {q \in versions[t] : q[1] > r[1]} = {<<version[t] + 1, s>>}
    <3>1. \A q \in versions[t] : q[1] > r[1] <=> q[1] = version[t] + 1
      BY <1>3, <1>5
    <3> QED
      BY <1>2, <3>1 DEF Recorded
  <2>2. Cardinality({q \in versions[t] : q[1] > r[1]}) = 1
    BY <2>1, FS_Singleton
  <2> QED
    BY <1>4, <2>2
<1>6. ASSUME NEW r \in versions[t], r[1] = version[t] + 1
      PROVE  ~(Cardinality({q \in versions[t] : q[1] > r[1]}) >= Kept)
  <2>1. {q \in versions[t] : q[1] > r[1]} = {}
    BY <1>3, <1>6
  <2>2. Cardinality({q \in versions[t] : q[1] > r[1]}) = 0
    BY <2>1, FS_EmptySet
  <2> QED
    BY <1>4, <2>2
<1> QED
  BY <1>5, <1>6 DEF Oldest, t

\* Old versions go.
LEMMA PruneStep ==
  ASSUME scene \in Scenes, WInv, NEW w \in Admins, PruneVersions(w)
  PROVE  WInv'
<1> DEFINE t == wt[w]
<1> USE DEF WInv, TemplateTypes
<1>1. /\ wpc[w] = "prune" /\ WriterGoes(w, "update")
      /\ versions' = [versions EXCEPT ![t] = @ \ Oldest(t)]
      /\ UNCHANGED <<born, active, isDefault, approved, html, version, raced, overtaken>>
  BY DEF PruneVersions
<1>2. t \in Own /\ t \in born /\ t \in Templates /\ wbody[w].html \in Sources
  BY <1>1, TemplatesAssumption DEF WritersSound
<1>3. /\ wpc' \in [Admins -> {"idle", "unset", "create", "version", "prune", "update"}]
      /\ wpc'[w] = "update" /\ \A v \in Admins \ {w} : wpc'[v] = wpc[v]
      /\ UNCHANGED <<wt, wbody, wread>>
  BY <1>1, WriterMoves
<1>4. /\ versions' \in [Templates -> SUBSET ((1..MaxVersion) \X Sources)]
      /\ versions'[t] = versions[t] \ Oldest(t)
      /\ \A u \in Templates \ {t} : versions'[u] = versions[u]
  BY <1>1, <1>2
<1>5. TemplateTypes'
  BY <1>1, <1>2, <1>3, <1>4
<1>6. TemplatesSound'
  BY <1>1 DEF TemplatesSound
<1>7. WritersSound'
  <2> SUFFICES ASSUME NEW x \in Admins
               PROVE  WritersSound!(x)'
    BY DEF WritersSound
  <2> QED
    BY <1>1, <1>2, <1>3 DEF WritersSound
<1>8. VersionsSound'
  <2> SUFFICES ASSUME NEW u \in Own \ overtaken'
               PROVE  VersionsSound!(u)'
    BY DEF VersionsSound
  <2>1. u \in Own \ overtaken /\ u \in Templates
    BY <1>1, TemplatesAssumption
  <2>2. \A v \in Admins : Pending(v)' <=> Pending(v)
    BY <1>1, <1>3 DEF Pending
  <2>3. /\ \A r \in versions'[u] : r \in versions[u]
        /\ Recorded(u, version[u])' = Recorded(u, version[u])
        /\ Recorded(u, version[u] + 1)' = Recorded(u, version[u] + 1)
    <3>1. CASE u = t
      <4>1. \A r \in Oldest(u) : r[1] # version[u] /\ r[1] # version[u] + 1
        BY <1>1, <2>1, <3>1, NewestStay
      <4>2. versions'[u] = versions[u] \ Oldest(u) /\ version' = version
        BY <1>1, <1>4, <3>1
      <4> HIDE DEF t, WInv, TemplateTypes
      <4> QED
        BY <4>1, <4>2 DEF Recorded
    <3>2. CASE u # t
      <4>1. versions'[u] = versions[u] /\ version' = version
        BY <1>1, <1>4, <2>1, <3>2
      <4> QED
        BY <4>1 DEF Recorded
    <3> QED
      BY <3>1, <3>2
  <2> QED
    BY <1>1, <1>3, <2>1, <2>2, <2>3 DEF VersionsSound
<1>9. DefaultsSound'
  BY <1>1, <1>3 DEF DefaultsSound, Claims, DefaultsOf
<1> QED
  BY <1>5, <1>6, <1>7, <1>8, <1>9

\* The row takes over the version on record, and the default when it claims it.
LEMMA UpdateStep ==
  ASSUME scene \in Scenes, WInv, NEW w \in Admins, UpdateRow(w)
  PROVE  WInv'
<1> DEFINE t == wt[w]
           b == wbody[w]
<1> USE DEF WInv, TemplateTypes
<1>1. /\ wpc[w] = "update" /\ WriterEnds(w)
      /\ isDefault' = CASE b.dflt = "yes" -> isDefault \cup {t}
                        [] b.dflt = "no" -> isDefault \ {t}
                        [] OTHER -> isDefault
      /\ html' = IF b.html = None THEN html
                 ELSE [html EXCEPT ![t] = ValidateCustomTemplate(b.html)]
      /\ version' = IF b.html = None THEN version ELSE [version EXCEPT ![t] = wread[w] + 1]
      /\ UNCHANGED <<born, active, approved, versions, raced, overtaken>>
  BY DEF UpdateRow
<1>2. /\ t \in Own /\ t \in born /\ t \in Templates /\ b.html \in Sources \cup {None}
      /\ b.html # None => /\ ValidateCustomTemplate(b.html) = Purified[b.html]
                          /\ Purified[b.html] \in Sources
                          /\ Purified[Purified[b.html]] = Purified[b.html]
                          /\ wread[w] + 1 \in 1..MaxVersion
  <2>1. t \in Own /\ t \in born /\ t \in Templates /\ b.html \in Sources \cup {None}
    BY <1>1, TemplatesAssumption DEF WritersSound
  <2>2. ASSUME b.html # None
        PROVE  /\ ValidateCustomTemplate(b.html) = Purified[b.html]
               /\ Purified[b.html] \in Sources
               /\ Purified[Purified[b.html]] = Purified[b.html]
    BY <2>1, <2>2, TemplatesAssumption DEF ValidateCustomTemplate, SanitizeHtml
  <2>3. ASSUME b.html # None PROVE wread[w] + 1 \in 1..MaxVersion
    <3>1. wread[w] < MaxVersion
      BY <2>1, <2>3 DEF WritersSound
    <3>2. wread[w] \in 0..MaxVersion
      OBVIOUS
    <3> QED
      BY <3>1, <3>2, SceneFacts
  <2> QED
    BY <2>1, <2>2, <2>3
<1>3. /\ wpc' \in [Admins -> {"idle", "unset", "create", "version", "prune", "update"}]
      /\ wt' \in [Admins -> Templates \cup {None}]
      /\ wbody' \in [Admins -> Bodies] /\ wread' \in [Admins -> 0..MaxVersion]
      /\ wpc'[w] = "idle" /\ wt'[w] = None /\ wbody'[w] = NoBody
      /\ \A v \in Admins \ {w} : /\ wpc'[v] = wpc[v] /\ wt'[v] = wt[v]
                                 /\ wbody'[v] = wbody[v] /\ wread'[v] = wread[v]
  BY <1>1, WriterMoves
<1>4. /\ html' \in [Templates -> Sources \cup {None}] /\ version' \in [Templates -> 0..MaxVersion]
      /\ \A u \in Templates \ {t} : html'[u] = html[u] /\ version'[u] = version[u]
      /\ b.html # None => html'[t] = Purified[b.html] /\ version'[t] = wread[w] + 1
  BY <1>1, <1>2
<1>5. isDefault' \subseteq isDefault \cup {t}
  BY <1>1
<1>6. TemplateTypes'
  BY <1>1, <1>2, <1>3, <1>4, <1>5
<1>7. TemplatesSound'
  <2> SUFFICES ASSUME NEW u \in Templates
               PROVE  /\ u \notin born => version'[u] = 0
                      /\ u \in born => /\ version'[u] >= 1 /\ html'[u] \in Sources
                                       /\ Purified[html'[u]] = html'[u]
    BY <1>1 DEF TemplatesSound
  <2>1. CASE u = t /\ b.html # None
    BY <1>2, <1>4, <2>1
  <2>2. CASE ~(u = t /\ b.html # None)
    BY <1>1, <1>4, <2>2 DEF TemplatesSound
  <2> QED
    BY <2>1, <2>2
<1>8. WritersSound'
  <2> SUFFICES ASSUME NEW x \in Admins
               PROVE  WritersSound!(x)'
    BY DEF WritersSound
  <2> QED
    BY <1>1, <1>2, <1>3, TemplatesAssumption DEF WritersSound
<1>9. VersionsSound'
  <2> SUFFICES ASSUME NEW u \in Own \ overtaken'
               PROVE  VersionsSound!(u)'
    BY DEF VersionsSound
  <2>1. u \in Own \ overtaken /\ u \in Templates /\ None \notin Own
    BY <1>1, TemplatesAssumption
  <2>2. CASE u = t /\ b.html # None
    <3>1. Pending(w)
      BY <1>1, <2>2 DEF Pending
    <3>2. /\ wread[w] = version[u] /\ \A r \in versions[u] : r[1] <= version[u] + 1
          /\ Recorded(u, version[u] + 1) = {<<version[u] + 1, Purified[b.html]>>}
          /\ \A v \in Admins : Pending(v) /\ wt[v] = u => v = w
          /\ \A v \in Admins : wt[v] = u => wread[v] \in 1..version[u]
      BY <1>2, <2>1, <2>2, <3>1 DEF VersionsSound
    <3>3. /\ version'[u] = version[u] + 1 /\ html'[u] = Purified[b.html]
          /\ versions'[u] = versions[u]
      BY <1>1, <1>4, <2>2, <3>2
    <3>4. version[u] \in Nat /\ \A r \in versions[u] : r[1] \in Nat
      BY <2>1, SceneFacts
    <3>5. \A v \in Admins : ~(Pending(v)' /\ wt'[v] = u)
      BY <1>3, <2>1, <3>2 DEF Pending
    <3>6. \A v \in Admins : wt'[v] = u => wt[v] = u /\ wread'[v] = wread[v]
      BY <1>3, <2>1
    <3> HIDE DEF t, b, WInv, TemplateTypes
    <3>7. \A r \in versions'[u] : r[1] <= version'[u] + 1
      BY <3>2, <3>3, <3>4
    <3>8. {r \in versions'[u] : r[1] = version'[u]} = {<<version'[u], html'[u]>>}
      BY <3>2, <3>3 DEF Recorded
    <3>9. \A v \in Admins : wt'[v] = u => wread'[v] \in 1..version'[u]
      BY <3>2, <3>3, <3>4, <3>6
    <3> QED
      BY <3>5, <3>7, <3>8, <3>9 DEF Recorded
  <2>3. CASE ~(u = t /\ b.html # None)
    <3>1. version'[u] = version[u] /\ html'[u] = html[u] /\ versions'[u] = versions[u]
      BY <1>1, <1>4, <2>1, <2>3
    <3>2. \A v \in Admins : wt'[v] = u => /\ wt[v] = u /\ wread'[v] = wread[v]
                                          /\ wbody'[v] = wbody[v]
                                          /\ Pending(v)' <=> Pending(v)
      BY <1>3, <2>1 DEF Pending
    <3> QED
      BY <1>1, <2>1, <3>1, <3>2 DEF VersionsSound, Recorded, Pending
  <2> QED
    BY <2>2, <2>3
<1>10. DefaultsSound'
  <2> SUFFICES ASSUME NEW d \in Categories \ raced'
               PROVE  DefaultsSound!(d)'
    BY DEF DefaultsSound
  <2>1. d \in Categories \ raced
    BY <1>1
  <2>2. \A v \in Admins : Claims(v, d)' => Claims(v, d) /\ v # w /\ wt'[v] = wt[v]
    BY <1>3 DEF Claims
  <2>3. CASE b.dflt = "yes" /\ CategoryOf[t] = d
    <3>1. Claims(w, d)
      BY <1>1, <2>3 DEF Claims
    <3>2. DefaultsOf(d) \subseteq {t} /\ \A v \in Admins : Claims(v, d) => v = w
      BY <2>1, <3>1 DEF DefaultsSound
    <3>3. DefaultsOf(d)' \subseteq {t}
      BY <1>5, <3>2 DEF DefaultsOf
    <3> QED
      BY <2>2, <3>2, <3>3
  <2>4. CASE ~(b.dflt = "yes" /\ CategoryOf[t] = d)
    <3>1. DefaultsOf(d)' \subseteq DefaultsOf(d)
      BY <1>1, <2>4 DEF DefaultsOf
    <3> QED
      BY <2>1, <2>2, <3>1 DEF DefaultsSound
  <2> QED
    BY <2>3, <2>4
<1> QED
  BY <1>6, <1>7, <1>8, <1>9, <1>10

\* A template deleted or approved is otherwise what it was.
LEMMA RestStep ==
  ASSUME WInv, active' \subseteq born, approved' \subseteq born,
         UNCHANGED <<born, isDefault, html, version, versions, raced, overtaken, writerVars>>
  PROVE  WInv'
<1> USE DEF WInv, writerVars
<1>1. TemplateTypes'
  BY DEF TemplateTypes
<1>2. TemplatesSound'
  BY DEF TemplatesSound
<1>3. WritersSound'
  BY DEF WritersSound
<1>4. VersionsSound'
  BY DEF VersionsSound, Pending, Recorded
<1>5. DefaultsSound'
  BY DEF DefaultsSound, Claims, DefaultsOf
<1> QED
  BY <1>1, <1>2, <1>3, <1>4, <1>5

\* Every step of a call on templates keeps their invariant, and leaves domains
\* and mails alone.
LEMMA WriterStep ==
  ASSUME scene \in Scenes, WInv, events \in 0..MaxEvents, faults \in 0..MaxFaults,
         NEW w \in Admins, TemplateStep(w)
  PROVE  WInv' /\ Still /\ events' \in 0..MaxEvents /\ faults' \in 0..MaxFaults
<1> USE LimitsAssumption
<1>1. CASE \E t \in Templates : StartCreate(w, t) \/ StartUpdate(w, t)
  BY <1>1, StartStep, WriterStarts
<1>2. CASE UnsetDefaults(w)
  BY <1>2, UnsetStep DEF UnsetDefaults
<1>3. CASE CreateTemplate(w)
  <2>1. Still /\ events' = events /\ (faults' = faults \/ Fault)
    BY <1>3 DEF CreateTemplate
  <2> QED
    BY <1>3, <2>1, CreateStep DEF Fault
<1>4. CASE AddVersion(w)
  <2>1. Still /\ events' = events /\ (faults' = faults \/ Fault)
    BY <1>4 DEF AddVersion
  <2> QED
    BY <1>4, <2>1, RecordStep DEF Fault
<1>5. CASE PruneVersions(w)
  BY <1>5, PruneStep DEF PruneVersions
<1>6. CASE UpdateRow(w)
  BY <1>6, UpdateStep DEF UpdateRow
<1>7. CASE WriterDies(w)
  BY <1>7, EndStep DEF WriterDies, Event
<1> QED
  BY <1>1, <1>2, <1>3, <1>4, <1>5, <1>6, <1>7 DEF TemplateStep

-----------------------------------------------------------------------------
\* Domains are left alone by the steps of templates and mails.
LEMMA DomainsStay ==
  ASSUME DInv, UNCHANGED domainVars, events' \in 0..MaxEvents, faults' \in 0..MaxFaults
  PROVE  DInv'
<1> USE DEF DInv, domainVars, rowVars, dnsVars, taskVars
<1>1. DomainsTypeOK'
  BY DEF DomainsTypeOK
<1>2. SyncsSound'
  BY DEF SyncsSound
<1>3. BimiShown'
  BY DEF BimiShown
<1> QED
  BY <1>1, <1>2, <1>3

\* Templates are left alone by the steps of domains and mails.
LEMMA TemplatesStay ==
  ASSUME WInv, UNCHANGED <<templateVars, writerVars>>
  PROVE  WInv'
<1>1. active' \subseteq born /\ approved' \subseteq born
  BY DEF WInv, TemplateTypes, templateVars
<1> QED
  BY <1>1, RestStep DEF templateVars

\* Mails are left alone by the other steps, and what was seen in DNS only grows.
LEMMA MailsStay ==
  ASSUME MInv, UNCHANGED <<scene, compiled, mailVars>>, seen \subseteq seen',
         shown \subseteq shown'
  PROVE  MInv'
<1> USE DEF MInv, mailVars
<1>1. MailTypes' /\ CacheSound'
  BY DEF MailTypes, CacheSound
<1>2. MailsSound'
  BY DEF MailsSound, Loaded, Made, Announced, HasMark
<1> QED
  BY <1>1, <1>2

\* One mail moves, and what it had is sound: so are all mails.
LEMMA OneMailMoves ==
  ASSUME MInv, NEW m \in Mails, UNCHANGED <<scene, seen, shown>>, CacheSound', MailTypes',
         \A x \in Mails \ {m} :
           /\ mpc'[x] = mpc[x] /\ mloaded'[x] = mloaded[x] /\ msource'[x] = msource[x]
           /\ mmade'[x] = mmade[x] /\ mfooters'[x] = mfooters[x] /\ msender'[x] = msender[x]
           /\ mbimi'[x] = mbimi[x],
         MailsSound!(m)'
  PROVE  MInv'
<1> SUFFICES ASSUME NEW x \in Mails, x # m PROVE MailsSound!(x)'
  BY DEF MInv, MailsSound
<1>1. MailsSound!(x)
  BY DEF MInv, MailsSound
<1>2. HasMark(x, mmade[x])' <=> HasMark(x, mmade[x])
  BY DEF HasMark
<1> QED
  BY <1>1, <1>2 DEF Loaded, Made, Announced, Sha

\* A mail that is given up or done with.
LEMMA ForgetStep ==
  ASSUME MInv, NEW m \in Mails, Forgets(m), UNCHANGED <<scene, mcategory, compiled, seen, shown>>
  PROVE  MInv'
<1> USE DEF MailTypes, Forgets, MailGoes
<1>1. MailTypes' /\ CacheSound'
  BY DEF MInv, CacheSound
<1>2. MailsSound!(m)'
  BY TemplatesAssumption DEF MInv, Announced
<1> QED
  BY <1>1, <1>2, OneMailMoves DEF MInv

\* A mail is accepted: nothing is loaded for it yet.
LEMMA AcceptStep ==
  ASSUME scene \in Scenes, MInv, NEW m \in Mails, NEW t \in scene.picks, NEW c \in Categories,
         Accept(m, t, c)
  PROVE  MInv'
<1> USE DEF MailTypes
<1>1. t \in Templates \cup {None}
  BY SceneFacts
<1>2. /\ mpc[m] = "idle" /\ mpc' = [mpc EXCEPT ![m] = "sender"]
      /\ mtemplate' = [mtemplate EXCEPT ![m] = t] /\ mcategory' = [mcategory EXCEPT ![m] = c]
      /\ UNCHANGED <<scene, msender, mloaded, msource, mmade, mfooters, mbimi, compiled, seen, shown>>
  BY DEF Accept, MailGoes, Aside, domainVars
<1>3. MailTypes' /\ CacheSound'
  BY <1>1, <1>2 DEF MInv, CacheSound
<1>4. MailsSound!(m)'
  BY <1>2 DEF MInv, MailsSound, Announced
<1> QED
  BY <1>2, <1>3, <1>4, OneMailMoves DEF MInv

\* Its sender is found: a verified domain is one whose record was seen.
LEMMA SenderStep ==
  ASSUME DInv, MInv, NEW m \in Mails, FindSender(m)
  PROVE  MInv'
<1> USE DEF MailTypes
<1>1. /\ mpc[m] = "sender"
      /\ UNCHANGED <<scene, mtemplate, mcategory, mloaded, msource, mmade, mfooters, mbimi,
                     compiled, seen, shown>>
  BY DEF FindSender, Aside, domainVars
<1>2. \E k \in seen \cup {None, msender[m]}, s \in {"custom", "idle"} :
        /\ k # None => k \in Keys /\ k \in seen /\ OwnerOf[k] = Ours
        /\ mpc' = [mpc EXCEPT ![m] = s] /\ msender' = [msender EXCEPT ![m] = k]
  <2>1. ASSUME NEW i \in DOMAIN rows, Sends(rows[i])
        PROVE  rows[i] \in seen /\ rows[i] \in Keys /\ OwnerOf[rows[i]] = Ours
    BY <2>1 DEF DInv, DomainsTypeOK, Sends
  <2>2. msender' = msender => msender' = [msender EXCEPT ![m] = msender[m]]
    BY DEF MInv
  <2>3. msender[m] # None => msender[m] \in Keys /\ msender[m] \in seen /\ OwnerOf[msender[m]] = Ours
    BY DEF MInv, MailsSound
  <2>4. CASE \E i \in DOMAIN rows : /\ Sends(rows[i])
                                    /\ msender' = [msender EXCEPT ![m] = rows[i]]
                                    /\ MailGoes(m, "custom")
    <3>1. PICK i \in DOMAIN rows : /\ Sends(rows[i])
                                   /\ msender' = [msender EXCEPT ![m] = rows[i]]
                                   /\ MailGoes(m, "custom")
      BY <2>4
    <3> QED
      BY <2>1, <3>1 DEF MailGoes
  <2>5. CASE msender' = [msender EXCEPT ![m] = None] /\ MailGoes(m, "custom")
    BY <2>5 DEF MailGoes
  <2>6. CASE msender' = msender /\ MailGoes(m, "idle")
    BY <2>2, <2>3, <2>6 DEF MailGoes
  <2> QED
    BY <2>4, <2>5, <2>6 DEF FindSender
<1>3. MailTypes' /\ CacheSound'
  BY <1>1, <1>2 DEF MInv, CacheSound
<1>4. MailsSound!(m)'
  <2>1. mbimi[m] = None /\ mloaded[m] = None
    BY <1>1 DEF MInv, MailsSound, Announced
  <2> QED
    BY <1>1, <1>2, <2>1, TemplatesAssumption DEF MInv, Announced
<1> QED
  BY <1>1, <1>2, <1>3, <1>4, OneMailMoves DEF MInv

\* What is loaded is a template of the protocol as it is now, or a system one.
LEMMA LoadStep ==
  ASSUME WInv, MInv, NEW m \in Mails,
         \/ LoadCustomTemplate(m) \/ LoadProtocolDefaultTemplate(m) \/ LoadSystemTemplate(m)
  PROVE  MInv'
<1> USE DEF MailTypes
<1>1. /\ mpc[m] \in {"custom", "default", "system"} /\ mloaded[m] = None /\ mbimi[m] = None
      /\ UNCHANGED <<scene, mtemplate, mcategory, msender, mmade, mfooters, mbimi, compiled, seen,
                     shown>>
  BY DEF LoadCustomTemplate, LoadProtocolDefaultTemplate, LoadSystemTemplate, Aside, domainVars,
         MInv, MailsSound, Announced
<1>2. CacheSound'
  BY <1>1 DEF MInv, CacheSound
<1>3. msender[m] # None => OwnerOf[msender[m]] = Ours /\ msender[m] \in seen
  BY DEF MInv, MailsSound
<1>4. ASSUME NEW t \in Templates \cup {None}, Loadable(t), Loads(m, t)
      PROVE  MInv'
  <2>1. t \in Own /\ t \in Templates /\ html[t] \in Sources /\ Purified[html[t]] = html[t]
    BY <1>4, TemplatesAssumption DEF Loadable, WInv, TemplateTypes, TemplatesSound
  <2>2. None \notin Own
    BY TemplatesAssumption
  <2>3. /\ mloaded' = [mloaded EXCEPT ![m] = t] /\ msource' = [msource EXCEPT ![m] = html[t]]
        /\ mpc' = [mpc EXCEPT ![m] = "render"]
    BY <1>4 DEF Loads, MailGoes
  <2>4. MailTypes'
    BY <1>1, <2>1, <2>3 DEF MInv
  <2>5. MailsSound!(m)'
    BY <1>1, <1>3, <2>1, <2>2, <2>3, TemplatesAssumption DEF MInv, Loaded, Announced
  <2> QED
    BY <1>1, <1>2, <2>3, <2>4, <2>5, OneMailMoves DEF MInv
<1>5. ASSUME NEW s \in {"default", "system"}, MailGoes(m, s), UNCHANGED <<mloaded, msource>>
      PROVE  MInv'
  <2>1. MailTypes'
    BY <1>1, <1>5 DEF MInv, MailGoes
  <2>2. MailsSound!(m)'
    BY <1>1, <1>3, <1>5, TemplatesAssumption DEF MInv, MailGoes, Announced
  <2> QED
    BY <1>1, <1>2, <1>5, <2>1, <2>2, OneMailMoves DEF MInv, MailGoes
<1>6. CASE LoadCustomTemplate(m)
  BY <1>4, <1>5, <1>6 DEF LoadCustomTemplate, MInv
<1>7. CASE LoadProtocolDefaultTemplate(m)
  <2>1. \A t \in Defaults(mcategory[m]) : t \in Templates /\ Loadable(t)
    BY DEF Defaults, WInv, TemplateTypes
  <2> QED
    BY <1>4, <1>5, <1>7, <2>1 DEF LoadProtocolDefaultTemplate
<1>8. CASE LoadSystemTemplate(m)
  <2>1. PICK s \in {System, Minimal} :
          mpc' = [mpc EXCEPT ![m] = "render"] /\ msource' = [msource EXCEPT ![m] = s]
    BY <1>8 DEF LoadSystemTemplate, MailGoes
  <2>2. mloaded' = mloaded
    BY <1>8 DEF LoadSystemTemplate
  <2>3. MailTypes'
    BY <1>1, <2>1, <2>2 DEF MInv
  <2>4. MailsSound!(m)'
    BY <1>1, <1>3, <2>1, <2>2, TemplatesAssumption DEF MInv, Loaded, Announced
  <2> QED
    BY <1>1, <1>2, <2>1, <2>2, <2>3, <2>4, OneMailMoves DEF MInv
<1> QED
  BY <1>6, <1>7, <1>8

\* The cache answers with what was asked for or with what it holds under the
\* same key, whatever was compiled before.
LEMMA CacheAnswers ==
  ASSUME MailTypes, CacheSound, NEW s \in Sources \cup {System, Minimal},
         s \in Sources => Purified[s] = s
  PROVE  LET c == GetCompiledTemplate(s) IN
         /\ c \in Sources \cup {System, Minimal} /\ Sha(c) = Sha(s)
         /\ c \in Sources => Purified[c] = c
<1>1. CASE \E c \in compiled : Sha(c) = Sha(s)
  <2> DEFINE found == CHOOSE c \in compiled : Sha(c) = Sha(s)
  <2>1. found \in compiled /\ Sha(found) = Sha(s)
    BY <1>1
  <2>2. GetCompiledTemplate(s) = found
    BY <1>1 DEF GetCompiledTemplate
  <2> HIDE DEF found
  <2> QED
    BY <2>1, <2>2 DEF MailTypes, CacheSound
<1>2. CASE ~\E c \in compiled : Sha(c) = Sha(s)
  BY <1>2 DEF GetCompiledTemplate
<1> QED
  BY <1>1, <1>2

\* The footer: there are not two of them, and without one the mark was there or
\* none was wanted.
LEMMA Footers ==
  ASSUME NEW m \in Mails, Loaded(m), NEW s
  PROVE  LET f == InjectHeraldFooter(m, s, FooterKey(mloaded[m])) IN
         /\ f \in {0, 1}
         /\ f = 0 => msource[m] = Minimal \/ HasMark(m, s) \/ s # msource[m]
BY DEF InjectHeraldFooter, OwnFooters, FooterKey, Loaded, HasMark

\* The mail is made of what the cache answers.
LEMMA RenderStep ==
  ASSUME MInv, NEW m \in Mails, Render(m)
  PROVE  MInv'
<1> USE DEF MailTypes
<1> DEFINE s == GetCompiledTemplate(msource[m])
           f == InjectHeraldFooter(m, s, FooterKey(mloaded[m]))
<1>1. mpc[m] = "render" /\ Loaded(m) /\ mbimi[m] = None
  BY DEF Render, MInv, MailsSound, Announced
<1>2. /\ s \in Sources \cup {System, Minimal} /\ Sha(s) = Sha(msource[m])
      /\ s \in Sources => Purified[s] = s
  <2>1. /\ msource[m] \in Sources \cup {System, Minimal}
        /\ msource[m] \in Sources => Purified[msource[m]] = msource[m]
    BY <1>1, TemplatesAssumption DEF Loaded
  <2> QED
    BY <2>1, CacheAnswers DEF MInv
<1>3. /\ mpc' = [mpc EXCEPT ![m] = "send"] /\ compiled' = compiled \cup {s}
      /\ mmade' = [mmade EXCEPT ![m] = s] /\ mfooters' = [mfooters EXCEPT ![m] = f]
      /\ UNCHANGED <<scene, mtemplate, mcategory, msender, mloaded, msource, mbimi, seen, shown>>
  BY DEF Render, MailGoes, Aside, domainVars
<1>4. /\ f \in {0, 1}
      /\ f = 0 => msource[m] = Minimal \/ HasMark(m, s) \/ s # msource[m]
  BY <1>1, Footers
<1> HIDE DEF f, s
<1>5. MailTypes'
  BY <1>1, <1>2, <1>3, <1>4 DEF MInv, Loaded
<1>6. CacheSound'
  BY <1>2, <1>3 DEF MInv, CacheSound
<1>7. MailsSound!(m)'
  <2>1. /\ mpc'[m] = "send" /\ mmade'[m] = s /\ mfooters'[m] = f /\ msource'[m] = msource[m]
        /\ mloaded'[m] = mloaded[m] /\ msender'[m] = msender[m] /\ mbimi'[m] = None
    BY <1>1, <1>3 DEF MInv
  <2>2. Made(m)'
    <3>1. HasMark(m, s) => HasMark(m, mmade[m])'
      BY <1>3, <2>1 DEF HasMark
    <3> QED
      BY <1>2, <1>4, <2>1, <3>1 DEF Made, Sha
  <2>3. Loaded(m)' /\ Announced(m)'
    BY <1>1, <2>1, TemplatesAssumption DEF Loaded, Announced
  <2>4. msender'[m] # None => OwnerOf[msender'[m]] = Ours /\ msender'[m] \in seen'
    BY <1>3, <2>1 DEF MInv, MailsSound
  <2> QED
    BY <2>1, <2>2, <2>3, <2>4
<1> QED
  BY <1>3, <1>5, <1>6, <1>7, OneMailMoves DEF MInv

\* BIMI is announced by a record that passes for verified, and so was found
\* with a logo at some time.
LEMMA SendStep ==
  ASSUME DInv, MInv, NEW m \in Mails, SendMail(m)
  PROVE  MInv'
<1>1. mpc[m] = "send" /\ UNCHANGED <<scene, mcategory, compiled, seen, shown>>
  BY DEF SendMail, Aside, domainVars
<1>2. CASE Forgets(m)
  BY <1>1, <1>2, ForgetStep
<1>3. ASSUME NEW r \in Records \cup {None, Herald},
             r \in Records => /\ msender[m] # None /\ DomainOf[msender[m]] = r[2]
                              /\ \E l \in Logos : <<r[2], l>> \in shown,
             mpc' = [mpc EXCEPT ![m] = "sent"], mbimi' = [mbimi EXCEPT ![m] = r],
             UNCHANGED <<mtemplate, msender, mloaded, msource, mmade, mfooters>>
      PROVE  MInv'
  <2>1. MailTypes' /\ CacheSound'
    BY <1>1, <1>3 DEF MInv, MailTypes, CacheSound
  <2>2. mpc'[m] = "sent" /\ mbimi'[m] = r
    BY <1>3 DEF MInv, MailTypes
  <2>3. Loaded(m) /\ Made(m) /\ (msender[m] # None => OwnerOf[msender[m]] = Ours /\ msender[m] \in seen)
    BY <1>1 DEF MInv, MailsSound
  <2>4. MailsSound!(m)'
    <3>1. HasMark(m, mmade[m])' <=> HasMark(m, mmade[m])
      BY <1>1, <1>3 DEF HasMark
    <3>2. Loaded(m)' /\ Made(m)'
      BY <1>3, <2>3, <3>1 DEF Loaded, Made, Sha
    <3>3. Announced(m)'
      BY <1>1, <1>3, <2>2 DEF Announced
    <3> QED
      BY <1>1, <1>3, <2>2, <2>3, <3>2, <3>3
  <2>5. \A x \in Mails \ {m} : mpc'[x] = mpc[x] /\ mbimi'[x] = mbimi[x]
    BY <1>3 DEF MInv, MailTypes
  <2> QED
    BY <1>1, <1>3, <2>1, <2>4, <2>5, OneMailMoves
<1>4. CASE /\ \E r \in GetBimiConfig(msender[m]) : mbimi' = [mbimi EXCEPT ![m] = r]
           /\ mpc' = [mpc EXCEPT ![m] = "sent"]
           /\ UNCHANGED <<mtemplate, msender, mloaded, msource, mmade, mfooters>>
  <2>1. PICK r \in GetBimiConfig(msender[m]) : mbimi' = [mbimi EXCEPT ![m] = r]
    BY <1>4
  <2>2. \/ r \in {None, Herald}
        \/ /\ r \in Records /\ msender[m] # None /\ DomainOf[msender[m]] = r[2] /\ bimi[r].ok
    BY <2>1 DEF GetBimiConfig
  <2>3. {None, Herald} \cap Records = {}
    BY TemplatesAssumption
  <2>4. r \in Records => \E l \in Logos : <<r[2], l>> \in shown
    BY <2>2, <2>3 DEF DInv, BimiShown
  <2> QED
    BY <1>3, <1>4, <2>1, <2>2, <2>3, <2>4
<1>5. CASE /\ mpc' = [mpc EXCEPT ![m] = "sent"]
           /\ UNCHANGED <<mbimi, mtemplate, msender, mloaded, msource, mmade, mfooters>>
  <2>1. mbimi[m] = None /\ mbimi' = [mbimi EXCEPT ![m] = None]
    BY <1>1, <1>5 DEF MInv, MailTypes, MailsSound, Announced
  <2> QED
    BY <1>3, <1>5, <2>1, TemplatesAssumption
<1> QED
  BY <1>2, <1>4, <1>5 DEF SendMail, MailGoes

\* Every step of a mail keeps the invariant of mails and leaves the rest alone.
LEMMA MailsStep ==
  ASSUME scene \in Scenes, DInv, WInv, MInv, NEW m \in Mails, MailStep(m)
  PROVE  MInv' /\ Aside /\ faults' \in 0..MaxFaults
<1>1. faults \in 0..MaxFaults
  BY DEF DInv, DomainsTypeOK
<1>2. Fault => faults' \in 0..MaxFaults
  BY <1>1, LimitsAssumption DEF Fault
<1>3. CASE \E t \in scene.picks, c \in Categories : Accept(m, t, c)
  BY <1>1, <1>3, AcceptStep DEF Accept
<1>4. CASE FindSender(m)
  BY <1>1, <1>2, <1>4, SenderStep DEF FindSender
<1>5. CASE LoadCustomTemplate(m)
  BY <1>1, <1>2, <1>5, LoadStep DEF LoadCustomTemplate
<1>6. CASE LoadProtocolDefaultTemplate(m)
  BY <1>1, <1>2, <1>6, LoadStep DEF LoadProtocolDefaultTemplate
<1>7. CASE LoadSystemTemplate(m)
  BY <1>1, <1>2, <1>7, LoadStep DEF LoadSystemTemplate
<1>8. CASE Render(m)
  BY <1>1, <1>8, RenderStep DEF Render
<1>9. CASE SendMail(m)
  BY <1>1, <1>2, <1>9, SendStep DEF SendMail
<1>10. CASE NextMail(m)
  <2>1. /\ UNCHANGED <<scene, mcategory, compiled, seen, shown>>
        /\ Forgets(m) /\ Aside /\ faults' = faults
    BY <1>10 DEF NextMail, Aside, domainVars
  <2> QED
    BY <1>1, <2>1, ForgetStep
<1> QED
  BY <1>3, <1>4, <1>5, <1>6, <1>7, <1>8, <1>9, <1>10 DEF MailStep

\* A preview compiles into the cache mails are made from.
LEMMA PreviewStep ==
  ASSUME WInv, MInv, NEW t \in Templates, PreviewTemplate(t)
  PROVE  MInv'
<1> DEFINE s == GetCompiledTemplate(html[t])
<1>1. t \in born /\ html[t] \in Sources /\ Purified[html[t]] = html[t]
  BY DEF PreviewTemplate, WInv, TemplateTypes, TemplatesSound
<1>2. s \in Sources \cup {System, Minimal} /\ (s \in Sources => Purified[s] = s)
  BY <1>1, CacheAnswers DEF MInv
<1>3. compiled' = compiled \cup {s} /\ UNCHANGED <<scene, mailVars, seen, shown>>
  BY DEF PreviewTemplate, RenderPreview, Aside, domainVars
<1> HIDE DEF s
<1>4. MailTypes' /\ CacheSound'
  BY <1>2, <1>3 DEF MInv, MailTypes, CacheSound, mailVars
<1>5. MailsSound'
  BY <1>3 DEF MInv, MailsSound, Loaded, Made, Announced, HasMark, mailVars
<1> QED
  BY <1>4, <1>5 DEF MInv

\* The project starts with nothing but templates, each at its first version
\* and sanitised.
LEMMA Starts == Init => IInv
<1> SUFFICES ASSUME Init PROVE IInv
  OBVIOUS
<1>1. scene \in Scenes
  BY DEF Init
<1>2. DInv
  <2>1. DomainsTypeOK
    <3>1. <<>> \in Seq(Keys)
      OBVIOUS
    <3> QED
      BY <3>1, LimitsAssumption DEF Init, DomainsInit, DomainsTypeOK, NoBimi, Tasks, Syncing
  <2>2. SyncsSound
    BY DEF Init, DomainsInit, SyncsSound, Syncing
  <2>3. BimiShown
    BY DEF Init, DomainsInit, BimiShown, NoBimi
  <2>4. verified \subseteq seen
    BY DEF Init, DomainsInit
  <2> QED
    BY <2>1, <2>2, <2>3, <2>4 DEF DInv
<1>3. WInv
  <2> DEFINE pure == CHOOSE s \in Sources : Purified[s] = s
  <2>1. pure \in Sources /\ Purified[pure] = pure
    <3>1. \E s \in Sources : Purified[s] = s
      BY TemplatesAssumption
    <3> QED
      BY <3>1
  <2> HIDE DEF pure
  <2>2. /\ born = (Templates \ Own) \cup scene.born /\ active = born /\ approved = born \ Own
        /\ html = [t \in Templates |-> IF t \in born THEN pure ELSE None]
        /\ version = [t \in Templates |-> IF t \in born THEN 1 ELSE 0]
        /\ versions = [t \in Templates |-> {}]
        /\ wpc = [w \in Admins |-> "idle"] /\ wt = [w \in Admins |-> None]
        /\ wbody = [w \in Admins |-> NoBody] /\ wread = [w \in Admins |-> 0]
        /\ raced = {} /\ overtaken = {}
    BY DEF Init, pure
  <2>3. isDefault = IF Cardinality(scene.born) = 1 THEN born ELSE born \ Own
    BY DEF Init
  <2>4. /\ scene.born \subseteq Own /\ Own \subseteq Templates /\ IsFiniteSet(Templates)
        /\ MaxVersion \in Nat /\ MaxVersion >= 1 /\ NoBody \in Bodies
    BY <1>1, SceneFacts, TemplatesAssumption DEF NoBody, Bodies
  <2>5. TemplateTypes
    BY <2>1, <2>2, <2>3, <2>4 DEF TemplateTypes
  <2>6. TemplatesSound
    BY <2>1, <2>2, <2>4 DEF TemplatesSound
  <2>7. WritersSound
    <3>1. None \notin Own /\ None \notin born
      BY <2>2, <2>4, TemplatesAssumption
    <3>2. \A w \in Admins : wpc[w] = "idle" /\ wt[w] = None
      BY <2>2
    <3> QED
      BY <3>1, <3>2 DEF WritersSound
  <2>8. VersionsSound
    <3> SUFFICES ASSUME NEW t \in Own PROVE VersionsSound!(t)
      BY <2>2 DEF VersionsSound
    <3>1. t \in Templates /\ None \notin Own /\ versions[t] = {} /\ version[t] \in {0, 1}
      BY <2>2, <2>4, TemplatesAssumption
    <3>2. \A w \in Admins : wt[w] # t /\ ~Pending(w)
      BY <2>2, <3>1 DEF Pending
    <3> QED
      BY <3>1, <3>2
  <2>9. DefaultsSound
    <3>1. \A c \in Categories, w \in Admins : ~Claims(w, c)
      BY <2>2 DEF Claims
    <3>2. \A t, u \in Own \cap isDefault : t = u
      <4>1. CASE Cardinality(scene.born) = 1
        <5>1. IsFiniteSet(scene.born)
          BY <2>4, FS_Subset
        <5>2. PICK x : scene.born = {x}
          BY <4>1, <5>1, FS_Singleton
        <5> QED
          BY <2>2, <2>3, <4>1, <5>2
      <4>2. CASE Cardinality(scene.born) # 1
        BY <2>3, <4>2
      <4> QED
        BY <4>1, <4>2
    <3> QED
      BY <3>1, <3>2 DEF DefaultsSound, DefaultsOf
  <2> QED
    BY <2>5, <2>6, <2>7, <2>8, <2>9 DEF WInv
<1>4. MInv
  <2>1. MailTypes /\ CacheSound
    BY DEF Init, MailTypes, CacheSound, Categories
  <2>2. MailsSound
    BY TemplatesAssumption DEF Init, MailsSound, Announced
  <2> QED
    BY <2>1, <2>2 DEF MInv
<1> QED
  BY <1>1, <1>2, <1>3, <1>4 DEF IInv

\* Every step of domains, templates and mails together keeps the invariant.
LEMMA Inductive == IInv /\ [Next]_vars => IInv'
<1> SUFFICES ASSUME IInv, [Next]_vars PROVE IInv'
  OBVIOUS
<1> USE DEF IInv
<1>1. events \in 0..MaxEvents /\ faults \in 0..MaxFaults
  BY DEF DInv, DomainsTypeOK
<1>2. CASE /\ \/ scene.domains # {} /\ DnsChanges(scene.logos)
              \/ \E a \in scene.domains : DomainStep(a, scene.keys, scene.logos)
           /\ UNCHANGED <<scene, templateVars, writerVars, compiled, mailVars>>
  <2>1. DInv' /\ seen \subseteq seen' /\ shown \subseteq shown'
    BY <1>2, SceneFacts, DomainsStep
  <2> QED
    BY <1>2, <2>1, TemplatesStay, MailsStay
<1>3. ASSUME NEW w \in scene.writers, TemplateStep(w) PROVE IInv'
  <2>1. w \in Admins
    BY SceneFacts
  <2>2. WInv' /\ Still /\ events' \in 0..MaxEvents /\ faults' \in 0..MaxFaults
    BY <1>1, <1>3, <2>1, WriterStep
  <2>3. UNCHANGED <<seen, shown>>
    BY <2>2 DEF Still, domainVars
  <2> QED
    BY <2>2, <2>3, DomainsStay, MailsStay DEF Still
<1>4. ASSUME NEW t \in Templates, DeleteTemplate(t) \/ Approve(t) PROVE IInv'
  <2>1. Still /\ UNCHANGED <<events, faults>>
    BY <1>4 DEF DeleteTemplate, Approve
  <2>2. WInv'
    <3>1. active' \subseteq born /\ approved' \subseteq born
      BY <1>4 DEF DeleteTemplate, Approve, WInv, TemplateTypes
    <3>2. UNCHANGED <<born, isDefault, html, version, versions, raced, overtaken, writerVars>>
      BY <1>4 DEF DeleteTemplate, Approve
    <3> QED
      BY <3>1, <3>2, RestStep
  <2>3. UNCHANGED <<seen, shown>>
    BY <2>1 DEF Still, domainVars
  <2> QED
    BY <1>1, <2>1, <2>2, <2>3, DomainsStay, MailsStay DEF Still
<1>5. ASSUME NEW t \in Templates, PreviewTemplate(t) PROVE IInv'
  <2>1. Aside /\ UNCHANGED faults
    BY <1>5 DEF PreviewTemplate
  <2> QED
    BY <1>1, <1>5, <2>1, PreviewStep, DomainsStay, TemplatesStay DEF Aside
<1>6. ASSUME NEW m \in scene.mails, MailStep(m) PROVE IInv'
  <2>1. m \in Mails
    BY SceneFacts
  <2>2. MInv' /\ Aside /\ faults' \in 0..MaxFaults
    BY <1>6, <2>1, MailsStep
  <2> QED
    BY <1>1, <2>2, DomainsStay, TemplatesStay DEF Aside
<1>7. CASE UNCHANGED vars
  <2>1. UNCHANGED <<scene, domainVars, events, faults, templateVars, writerVars, compiled, mailVars>>
    BY <1>7 DEF vars
  <2>2. UNCHANGED <<seen, shown>>
    BY <2>1 DEF domainVars
  <2> QED
    BY <1>1, <2>1, <2>2, DomainsStay, TemplatesStay, MailsStay
<1> QED
  BY <1>2, <1>3, <1>4, <1>5, <1>6, <1>7 DEF Next

\* Whatever Branding and Domains do together, the invariant holds throughout.
LEMMA InvariantHolds == Spec => []IInv
BY Starts, Inductive, PTL DEF Spec

-----------------------------------------------------------------------------
\* Every variable keeps its type, the version of a template its bound included:
\* an update of HTML begins below it, and no other can raise the version the
\* update read.
THEOREM TypeCorrect == Spec => []TypeOK
<1>1. IInv => TypeOK
  BY DEF IInv, DInv, WInv, MInv, TemplateTypes, MailTypes, TypeOK
<1> QED
  BY <1>1, InvariantHolds, PTL

\* A mail that was sent is made of the template loaded for it, one of its own
\* protocol, or of one with the same key in the cache, as the sanitiser left it;
\* leaves from a domain of its protocol whose record was found; and lacks the one
\* footer only for a reason that is named: whatever is deleted, replaced,
\* previewed or verified while the worker composes it.
THEOREM MailsAreLawful == Spec => []MailLawful
<1>1. IInv => MailLawful
  <2> SUFFICES ASSUME IInv, NEW m \in Mails, mpc[m] = "sent" PROVE MailLawful!(m)!2
    BY DEF MailLawful
  <2>1. Loaded(m) /\ Made(m) /\ (msender[m] # None => OwnerOf[msender[m]] = Ours /\ msender[m] \in seen)
    BY DEF IInv, MInv, MailsSound
  <2> QED
    BY <2>1 DEF Loaded, Made
<1> QED
  BY <1>1, InvariantHolds, PTL

\* updateEmailTemplate: the version a template shows is on record, once and with
\* its HTML, whatever updates run at once and wherever the process dies.
THEOREM VersionsAlwaysAgree == Spec => []VersionsAgree
<1>1. IInv => VersionsAgree
  BY DEF IInv, WInv, VersionsSound, Recorded, VersionsAgree
<1> QED
  BY <1>1, InvariantHolds, PTL

\* unsetDefaultTemplates and the write that follows it leave one default, but
\* for two calls of one category that overlap.
THEOREM DefaultsAreExplained == Spec => []DefaultsExplained
<1>1. ASSUME IInv PROVE DefaultsExplained
  <2> SUFFICES ASSUME NEW c \in Categories \ raced
               PROVE  Cardinality({t \in Own \cap active \cap isDefault : CategoryOf[t] = c}) <= 1
    BY DEF DefaultsExplained
  <2> DEFINE D == {t \in Own \cap active \cap isDefault : CategoryOf[t] = c}
  <2>1. \A t, u \in D : t = u
    BY <1>1 DEF IInv, WInv, DefaultsSound, DefaultsOf
  <2> HIDE DEF D
  <2>2. CASE D = {}
    BY <2>2, FS_EmptySet DEF D
  <2>3. CASE D # {}
    <3>1. PICK d : D = {d}
      BY <2>1, <2>3
    <3>2. Cardinality(D) = 1
      BY <3>1, FS_Singleton
    <3> QED
      BY <3>2 DEF D
  <2> QED
    BY <2>2, <2>3
<1> QED
  BY <1>1, InvariantHolds, PTL

\* upsertBimi and syncBimiStatus: the logo of a record that passes for verified
\* was found in DNS after an enforced policy, unless it was replaced since; and
\* the record by which getBimiConfig announced BIMI for a mail, of whatever
\* protocol, is one of its sender's domain, of which a logo was found that way.
THEOREM BimiIsExplained == Spec => []BimiExplained
<1>1. IInv => BimiExplained
  BY DEF IInv, DInv, MInv, BimiShown, MailsSound, Announced, BimiExplained
<1> QED
  BY <1>1, InvariantHolds, PTL
=============================================================================
