------------------------------ MODULE Branding -------------------------------
(***************************************************************************)
(* What a mail looks like: the custom templates of a protocol, their       *)
(* versions and defaults, and the mails composed from them and from the    *)
(* sender domains of Domains.  A template is chosen when a notification is *)
(* accepted and read when its mail is composed; what it compiles to is     *)
(* kept in memory, for all protocols, under a hash of its source.          *)
(***************************************************************************)
EXTENDS Domains

CONSTANTS
  Ours,            \* the protocol whose templates and mails these are
  Templates,       \* email templates
  Own,             \* those of the protocol; the others are another protocol's
  CategoryOf,      \* category of a template
  Sources,         \* HTML a template may have
  Branded,         \* sources with the mark of a Herald footer in them
  Purified,        \* what DOMPurify leaves of a source
  Provider,        \* MAIL_PROVIDER: "ses", "resend" or "smtp"
  Herald,          \* the BIMI selector of Herald's own domains
  HashOf,          \* the key a source is cached under
  Mails,           \* mails being composed
  Kept,            \* versions kept
  MaxVersion,      \* bound on the version of a template
  Scenes           \* who is at work, on which templates, and what is asked for

Invalid == "invalid"    \* HTML that does not compile
Keep    == "keep"       \* isDefault is not in the request
Minimal == "minimal"    \* getMinimalFallbackTemplate
System  == "system"     \* a template of the file system

Categories == {"defi", "governance"}

\* What a create or update asks for.
Bodies == [html : Sources \cup {Invalid, None}, dflt : {"yes", "no", Keep}]
NoBody == [html |-> None, dflt |-> Keep]

\* getTemplateName
TemplateName(c) == IF c = "defi" THEN "defi-alert" ELSE c

ASSUME TemplatesAssumption ==
  /\ IsFiniteSet(Templates) /\ Own \subseteq Templates
  /\ Sources # {} /\ Branded \subseteq Sources
  /\ CategoryOf \in [Templates -> Categories]
  /\ {None, Invalid, Minimal, System} \cap Sources = {} /\ None \notin Templates
  /\ {None, Herald} \cap Records = {}
  /\ Kept \in Nat \ {0, 1} /\ MaxVersion \in Nat /\ Provider \in {"ses", "resend", "smtp"}
  /\ Purified \in [Sources -> Sources]
  /\ \A s \in Sources : Purified[Purified[s]] = Purified[s]
ASSUME ScenesAssumption ==
  \A z \in Scenes : /\ z.domains \subseteq Admins /\ z.writers \subseteq Admins
                    /\ z.keys \subseteq Keys /\ z.told \subseteq Mails
                    /\ z.mails \subseteq Mails /\ z.born \subseteq Own
                    /\ z.asked \subseteq Bodies /\ z.versions \in 1..MaxVersion
                    /\ z.logos \subseteq Logos /\ z.picks \subseteq Templates \cup {None}

VARIABLES
  scene,
  born, active, isDefault, approved, html, version,   \* notification_templates
  versions,                                           \* notification_template_versions
  wpc, wt, wbody, wread,                              \* create and update calls
  compiled,                                           \* templateCache
  mpc, mtemplate, mcategory, msender, mloaded, msource, mmade, mfooters, mbimi,   \* mails
  \* History: categories two calls set a default for at once; templates an
  \* update was overtaken by so many others that its version was free again.
  raced, overtaken

templateVars == <<born, active, isDefault, approved, html, version, versions, raced, overtaken>>
writerVars   == <<wpc, wt, wbody, wread>>
mailVars     == <<mpc, mtemplate, mcategory, msender, mloaded, msource, mmade, mfooters, mbimi>>
vars == <<scene, domainVars, events, faults, templateVars, writerVars, compiled, mailVars>>

TypeOK ==
  /\ DomainsTypeOK /\ scene \in Scenes
  /\ active \subseteq born /\ born \subseteq Templates
  /\ isDefault \subseteq born /\ approved \subseteq born
  /\ html \in [Templates -> Sources \cup {None}] /\ version \in [Templates -> 0..MaxVersion]
  /\ versions \in [Templates -> SUBSET ((1..MaxVersion) \X Sources)]
  /\ wpc \in [Admins -> {"idle", "unset", "create", "version", "prune", "update"}]
  /\ wt \in [Admins -> Templates \cup {None}]
  /\ wbody \in [Admins -> Bodies] /\ wread \in [Admins -> 0..MaxVersion]
  /\ compiled \subseteq (Sources \cup {System, Minimal})
  /\ mpc \in [Mails -> {"idle", "sender", "custom", "default", "system", "render", "send", "sent"}]
  /\ mtemplate \in [Mails -> Templates \cup {None}] /\ mcategory \in [Mails -> Categories]
  /\ msender \in [Mails -> Keys \cup {None}]
  /\ mloaded \in [Mails -> Templates \cup {None}]
  /\ msource \in [Mails -> Sources \cup {System, Minimal, None}]
  /\ mmade \in [Mails -> Sources \cup {System, Minimal, None}]
  /\ mfooters \in [Mails -> Nat] /\ mbimi \in [Mails -> Records \cup {None, Herald}]
  /\ raced \subseteq Categories /\ overtaken \subseteq Templates

\* The other protocol's templates exist, and those of the protocol a scene starts
\* with: a single one is the default.
Init ==
  /\ DomainsInit /\ scene \in Scenes
  /\ born = (Templates \ Own) \cup scene.born
  /\ active = born /\ approved = born \ Own
  /\ isDefault = IF Cardinality(scene.born) = 1 THEN born ELSE born \ Own
  /\ html = [t \in Templates |-> IF t \in born THEN CHOOSE s \in Sources : Purified[s] = s ELSE None]
  /\ version = [t \in Templates |-> IF t \in born THEN 1 ELSE 0]
  /\ versions = [t \in Templates |-> {}]
  /\ wpc = [w \in Admins |-> "idle"] /\ wt = [w \in Admins |-> None]
  /\ wbody = [w \in Admins |-> NoBody] /\ wread = [w \in Admins |-> 0]
  /\ compiled = {}
  /\ mpc = [m \in Mails |-> "idle"] /\ mtemplate = [m \in Mails |-> None]
  /\ mcategory = [m \in Mails |-> "defi"] /\ msender = [m \in Mails |-> None]
  /\ mloaded = [m \in Mails |-> None] /\ msource = [m \in Mails |-> None]
  /\ mmade = [m \in Mails |-> None] /\ mfooters = [m \in Mails |-> 0]
  /\ mbimi = [m \in Mails |-> None]
  /\ raced = {} /\ overtaken = {}

-----------------------------------------------------------------------------
(* Templates. *)

Still == UNCHANGED <<scene, domainVars, compiled, mailVars>>

WriterGoes(w, s) == wpc' = [wpc EXCEPT ![w] = s] /\ UNCHANGED <<wt, wbody, wread>>
WriterBegins(w, s, t, body, n) ==
  /\ wpc[w] = "idle" /\ wpc' = [wpc EXCEPT ![w] = s] /\ wt' = [wt EXCEPT ![w] = t]
  /\ wbody' = [wbody EXCEPT ![w] = body] /\ wread' = [wread EXCEPT ![w] = n]
WriterEnds(w) ==
  /\ wpc' = [wpc EXCEPT ![w] = "idle"] /\ wt' = [wt EXCEPT ![w] = None]
  /\ wbody' = [wbody EXCEPT ![w] = NoBody] /\ wread' = [wread EXCEPT ![w] = 0]

SanitizeHtml(s) == Purified[s]

\* HTML that does not compile is refused, what is dangerous in it taken out.
ValidateCustomTemplate(s) == IF s = Invalid THEN None ELSE SanitizeHtml(s)

\* createEmailTemplate: HTML that does not validate is refused at once.
StartCreate(w, t) ==
  /\ t \in Own \ born /\ \A v \in Admins : wt[v] # t
  /\ \E body \in scene.asked :
       /\ body.html \in Sources /\ body.dflt # Keep
       /\ WriterBegins(w, IF body.dflt = "yes" THEN "unset" ELSE "create", t,
                       [body EXCEPT !.html = ValidateCustomTemplate(@)], 0)
  /\ UNCHANGED <<events, faults, templateVars>> /\ Still

CreateTemplate(w) ==
  LET t == wt[w] IN
  /\ wpc[w] = "create" /\ WriterEnds(w)
  /\ \/ /\ born' = born \cup {t} /\ active' = active \cup {t}
        /\ isDefault' = IF wbody[w].dflt = "yes" THEN isDefault \cup {t} ELSE isDefault
        /\ html' = [html EXCEPT ![t] = wbody[w].html]
        /\ version' = [version EXCEPT ![t] = 1] /\ UNCHANGED faults
     \/ Fault /\ UNCHANGED <<born, active, isDefault, html, version>>
  /\ UNCHANGED <<events, approved, versions, raced, overtaken>> /\ Still

\* updateEmailTemplate reads the template, and acts on the version it read.
StartUpdate(w, t) ==
  /\ t \in active \cap Own
  /\ \E body \in scene.asked :
       /\ body.html \in Sources => version[t] < scene.versions
       /\ WriterBegins(w, IF body.dflt = "yes" THEN "unset"
                          ELSE IF body.html # None THEN "version" ELSE "update",
                       t, body, version[t])
  /\ UNCHANGED <<events, faults, templateVars>> /\ Still

\* Mutant of UnsetDefaults: the other templates keep their mark.
UnsetDefaultsNone(w) ==
  /\ wpc[w] = "unset"
  /\ WriterGoes(w, IF wt[w] \notin born THEN "create"
                   ELSE IF wbody[w].html # None THEN "version" ELSE "update")
  /\ UNCHANGED <<events, faults, templateVars>> /\ Still

\* The other defaults of the category go first, before the HTML of an update
\* is even looked at.
UnsetDefaults(w) ==
  LET c == CategoryOf[wt[w]] IN
  /\ wpc[w] = "unset"
  /\ isDefault' = isDefault \ {t \in Own : CategoryOf[t] = c}
  /\ raced' = IF \E v \in Admins \ {w} : /\ wpc[v] \notin {"idle", "unset"}
                                         /\ wbody[v].dflt = "yes" /\ CategoryOf[wt[v]] = c
              THEN raced \cup {c} ELSE raced
  /\ WriterGoes(w, IF wt[w] \notin born THEN "create"
                   ELSE IF wbody[w].html # None THEN "version" ELSE "update")
  /\ UNCHANGED <<events, faults, born, active, approved, html, version, versions, overtaken>>
  /\ Still

\* Mutant of VersionFree: template and version are not unique together.
VersionFreeAlways(t, n) == TRUE

VersionFree(t, n) == \A r \in versions[t] : r[1] # n

\* The HTML is validated and the new version recorded.
AddVersion(w) ==
  LET t == wt[w]
      n == wread[w] + 1
      s == ValidateCustomTemplate(wbody[w].html) IN
  /\ wpc[w] = "version"
  /\ \/ /\ s # None /\ VersionFree(t, n)
        /\ versions' = [versions EXCEPT ![t] = @ \cup {<<n, s>>}]
        /\ overtaken' = IF n < version[t] THEN overtaken \cup {t} ELSE overtaken
        /\ WriterGoes(w, "prune") /\ UNCHANGED faults
     \/ /\ (s = None \/ ~VersionFree(t, n)) /\ WriterEnds(w)
        /\ UNCHANGED <<versions, overtaken, faults>>
     \/ Fault /\ WriterEnds(w) /\ UNCHANGED <<versions, overtaken>>
  /\ UNCHANGED <<events, born, active, isDefault, approved, html, version, raced>> /\ Still

\* Of more than Kept versions the oldest go.
Oldest(t) ==
  {r \in versions[t] : Cardinality({q \in versions[t] : q[1] > r[1]}) >= Kept}

PruneVersions(w) ==
  LET t == wt[w] IN
  /\ wpc[w] = "prune" /\ WriterGoes(w, "update")
  /\ versions' = [versions EXCEPT ![t] = @ \ Oldest(t)]
  /\ UNCHANGED <<events, faults, born, active, isDefault, approved, html, version, raced,
                 overtaken>> /\ Still

\* The status is left alone: what was approved stays approved.
UpdateRow(w) ==
  LET t == wt[w]
      b == wbody[w] IN
  /\ wpc[w] = "update" /\ WriterEnds(w)
  /\ isDefault' = CASE b.dflt = "yes" -> isDefault \cup {t}
                    [] b.dflt = "no" -> isDefault \ {t}
                    [] OTHER -> isDefault
  /\ html' = IF b.html = None THEN html ELSE [html EXCEPT ![t] = ValidateCustomTemplate(b.html)]
  /\ version' = IF b.html = None THEN version ELSE [version EXCEPT ![t] = wread[w] + 1]
  /\ UNCHANGED <<events, faults, born, active, approved, versions, raced, overtaken>> /\ Still

DeleteTemplate(t) ==
  /\ scene.writers # {} /\ t \in active \cap Own /\ active' = active \ {t}
  /\ UNCHANGED <<events, faults, born, isDefault, approved, html, version, versions, writerVars,
                 raced, overtaken>> /\ Still

\* External: a reviewer approves a template (which only mails ask about).
Approve(t) ==
  /\ t \in scene.picks /\ t \in born \ approved /\ approved' = approved \cup {t}
  /\ UNCHANGED <<events, faults, born, active, isDefault, html, version, versions, writerVars,
                 raced, overtaken>> /\ Still

\* The process dies with a call.
WriterDies(w) ==
  /\ wpc[w] # "idle" /\ Event /\ WriterEnds(w)
  /\ UNCHANGED <<faults, templateVars>> /\ Still

-----------------------------------------------------------------------------
(* Mails. *)

Aside == UNCHANGED <<scene, domainVars, events, templateVars, writerVars>>

MailGoes(m, s) == mpc' = [mpc EXCEPT ![m] = s]

Forgets(m) ==
  /\ MailGoes(m, "idle") /\ mbimi' = [mbimi EXCEPT ![m] = None]
  /\ mtemplate' = [mtemplate EXCEPT ![m] = None] /\ msender' = [msender EXCEPT ![m] = None]
  /\ mloaded' = [mloaded EXCEPT ![m] = None] /\ msource' = [msource EXCEPT ![m] = None]
  /\ mmade' = [mmade EXCEPT ![m] = None] /\ mfooters' = [mfooters EXCEPT ![m] = 0]

\* queueNotification: a template of the protocol must be approved.  One it
\* does not find passes, and is not found again.
Accept(m, t, c) ==
  /\ mpc[m] = "idle"
  /\ t \in born \cap Own => t \in approved
  /\ MailGoes(m, "sender")
  /\ mtemplate' = [mtemplate EXCEPT ![m] = t] /\ mcategory' = [mcategory EXCEPT ![m] = c]
  /\ UNCHANGED <<msender, mloaded, msource, mmade, mfooters, mbimi, compiled, faults>> /\ Aside

Sends(k) == OwnerOf[k] = Ours /\ k \in verified

\* deliverEmail: the oldest domain of the protocol with a verified record; a
\* query that fails fails the channel.
FindSender(m) ==
  /\ mpc[m] = "sender"
  /\ \/ /\ MailGoes(m, "custom") /\ UNCHANGED faults
        /\ \/ \E i \in DOMAIN rows :
                /\ Sends(rows[i]) /\ \A j \in 1..i - 1 : ~Sends(rows[j])
                /\ msender' = [msender EXCEPT ![m] = rows[i]]
           \/ (\A k \in Held : ~Sends(k)) /\ msender' = [msender EXCEPT ![m] = None]
     \/ Fault /\ MailGoes(m, "idle") /\ UNCHANGED msender
  /\ UNCHANGED <<mtemplate, mcategory, mloaded, msource, mmade, mfooters, mbimi, compiled>> /\ Aside

Loads(m, t) ==
  /\ mloaded' = [mloaded EXCEPT ![m] = t] /\ msource' = [msource EXCEPT ![m] = html[t]]
  /\ MailGoes(m, "render")

Loadable(t) == t \in active /\ t \in Own

\* loadCustomTemplate: not found and failed are the same.
LoadCustomTemplate(m) ==
  LET t == mtemplate[m] IN
  /\ mpc[m] = "custom"
  /\ \/ t # None /\ Loadable(t) /\ Loads(m, t) /\ UNCHANGED faults
     \/ /\ IF t # None /\ Loadable(t) THEN Fault ELSE UNCHANGED faults
        /\ MailGoes(m, "default") /\ UNCHANGED <<mloaded, msource>>
  /\ UNCHANGED <<mtemplate, mcategory, msender, mmade, mfooters, mbimi, compiled>> /\ Aside

\* The default is looked up under the name of the system template.
Defaults(c) == {t \in isDefault : Loadable(t) /\ CategoryOf[t] = TemplateName(c)}

LoadProtocolDefaultTemplate(m) ==
  LET found == Defaults(mcategory[m]) IN
  /\ mpc[m] = "default"
  /\ \/ (\E t \in found : Loads(m, t)) /\ UNCHANGED faults
     \/ /\ IF found # {} THEN Fault ELSE UNCHANGED faults
        /\ MailGoes(m, "system") /\ UNCHANGED <<mloaded, msource>>
  /\ UNCHANGED <<mtemplate, mcategory, msender, mmade, mfooters, mbimi, compiled>> /\ Aside

\* The file of the category, that of defi-alert, or the minimal template.
LoadSystemTemplate(m) ==
  /\ mpc[m] = "system" /\ MailGoes(m, "render")
  /\ \/ msource' = [msource EXCEPT ![m] = System] /\ UNCHANGED faults
     \/ Fault /\ \E s \in {System, Minimal} : msource' = [msource EXCEPT ![m] = s]
  /\ UNCHANGED <<mtemplate, mcategory, msender, mloaded, mmade, mfooters, mbimi, compiled>> /\ Aside

\* Custom templates get a footer, by tier; system templates have their own.
FooterKey(t) == t # None

Sha(s) == HashOf[s]

\* Mutant of GetCompiledTemplate: the first source cached serves all.
GetCompiledTemplateFirst(s) == IF compiled = {} THEN s ELSE CHOOSE c \in compiled : TRUE

GetCompiledTemplate(s) ==
  IF \E c \in compiled : Sha(c) = Sha(s) THEN CHOOSE c \in compiled : Sha(c) = Sha(s) ELSE s

OwnFooters(s) == IF s = System THEN 1 ELSE 0

\* class="footer-brand" or data-hrl-footer="1" in the rendered HTML, from the
\* template or from a text of the message that it prints unescaped: a mark
\* is all that is looked for.
HasMark(m, s) == s \in Branded \cup {System} \/ m \in scene.told

\* injectHeraldFooter: not into what has the mark.
InjectHeraldFooter(m, s, wanted) ==
  IF wanted /\ ~HasMark(m, s) THEN OwnFooters(s) + 1 ELSE OwnFooters(s)

Render(m) ==
  LET s == GetCompiledTemplate(msource[m]) IN
  /\ mpc[m] = "render" /\ MailGoes(m, "send")
  /\ compiled' = compiled \cup {s}
  /\ mmade' = [mmade EXCEPT ![m] = s]
  /\ mfooters' = [mfooters EXCEPT ![m] = InjectHeraldFooter(m, s, FooterKey(mloaded[m]))]
  /\ UNCHANGED <<mtemplate, mcategory, msender, mloaded, msource, mbimi, faults>> /\ Aside

\* SesProvider alone announces BIMI: by a verified record of the sender's
\* domain, of whatever protocol (deliverEmail does not say which), and for
\* Herald's own domain.  What it announces is one of these.
GetBimiConfig(k) ==
  LET found == {r \in Records : k # None /\ r[2] = DomainOf[k] /\ bimi[r].ok} IN
  IF Provider # "ses" THEN {None}
  ELSE IF k = None THEN {Herald}
  ELSE IF found = {} THEN {None} ELSE found

\* A failed look-up of the record announces nothing; a failed send fails the
\* channel.
SendMail(m) ==
  /\ mpc[m] = "send"
  /\ \/ /\ \E r \in GetBimiConfig(msender[m]) : mbimi' = [mbimi EXCEPT ![m] = r]
        /\ MailGoes(m, "sent") /\ UNCHANGED faults
        /\ UNCHANGED <<mtemplate, msender, mloaded, msource, mmade, mfooters>>
     \/ /\ Fault /\ MailGoes(m, "sent")
        /\ UNCHANGED <<mbimi, mtemplate, msender, mloaded, msource, mmade, mfooters>>
     \/ Fault /\ Forgets(m)
  /\ UNCHANGED <<mcategory, compiled>> /\ Aside

\* renderPreview compiles as render does; so do the previews and the mails of
\* other protocols.
RenderPreview(s) == compiled' = compiled \cup {GetCompiledTemplate(s)}

PreviewTemplate(t) ==
  /\ t \in scene.picks /\ t \in active /\ RenderPreview(html[t])
  /\ UNCHANGED <<faults, mailVars>> /\ Aside

\* A worker is done with a mail and takes the next.
NextMail(m) ==
  mpc[m] = "sent" /\ Forgets(m) /\ UNCHANGED <<mcategory, compiled, faults>> /\ Aside

-----------------------------------------------------------------------------
TemplateStep(w) ==
  \/ \E t \in Templates : StartCreate(w, t) \/ StartUpdate(w, t)
  \/ UnsetDefaults(w) \/ CreateTemplate(w) \/ AddVersion(w) \/ PruneVersions(w)
  \/ UpdateRow(w) \/ WriterDies(w)

MailStep(m) ==
  \/ \E t \in scene.picks, c \in Categories : Accept(m, t, c)
  \/ FindSender(m) \/ LoadCustomTemplate(m) \/ LoadProtocolDefaultTemplate(m)
  \/ LoadSystemTemplate(m) \/ Render(m) \/ SendMail(m) \/ NextMail(m)

Next ==
  \/ /\ (scene.domains # {} /\ DnsChanges(scene.logos))
        \/ \E a \in scene.domains : DomainStep(a, scene.keys, scene.logos)
     /\ UNCHANGED <<scene, templateVars, writerVars, compiled, mailVars>>
  \/ \E w \in scene.writers : TemplateStep(w)
  \/ \E t \in Templates : DeleteTemplate(t) \/ Approve(t) \/ PreviewTemplate(t)
  \/ \E m \in scene.mails : MailStep(m)

Spec == Init /\ [][Next]_vars

-----------------------------------------------------------------------------
(* Properties. *)

\* Whatever is deleted, replaced, verified or compiled while a mail is composed,
\* it loads a template of its own protocol only, and is made of that, or of one
\* whose 32-bit key in the cache is the same (that one may be any protocol's);
\* what it shows went through the sanitiser; it leaves from a domain of its own
\* only if a look-up found a DKIM record of it; it has no two Herald footers, and
\* none only if the files could not be read, the mark of one was in the template
\* or the message, or the cache gave it another template.
MailLawful ==
  \A m \in Mails : mpc[m] = "sent" =>
    /\ Sha(mmade[m]) = Sha(msource[m])
    /\ mloaded[m] # None => mloaded[m] \in Own
    /\ mmade[m] \in Sources => Purified[mmade[m]] = mmade[m]
    /\ msender[m] # None => OwnerOf[msender[m]] = Ours /\ msender[m] \in seen
    /\ mfooters[m] <= 1
    /\ mfooters[m] = 0 => \/ msource[m] = Minimal \/ HasMark(m, mmade[m])
                          \/ mmade[m] # msource[m]

\* The version a template shows is on record once, with the HTML it shows:
\* updates that read the same version, and crashes between record and row,
\* do not break that (only being overtaken by more updates than are kept can).
VersionsAgree ==
  \A t \in Own : (version[t] > 1 /\ t \notin overtaken) =>
    {r \in versions[t] : r[1] = version[t]} = {<<version[t], html[t]>>}

\* A category has at most one default, unless two calls that each make one
\* overlapped: unsetting the others and setting the one are separate writes.
DefaultsExplained ==
  \A c \in Categories \ raced :
    Cardinality({t \in Own \cap active \cap isDefault : CategoryOf[t] = c}) <= 1

\* A record that passes for BIMI-verified shows a logo some sync found in DNS,
\* after it found an enforced DMARC policy, unless the logo was replaced since: a
\* new logo keeps the verdict of the old one, and a sync that was under way
\* judges the logo it read.  And a mail that announces BIMI does so by a record
\* of its sender's domain, of whatever protocol, and a logo found that way.
BimiExplained ==
  /\ \A r \in Records : (bimi[r].ok /\ r \notin swapped) => <<r[2], bimi[r].logo>> \in shown
  /\ \A m \in Mails : mbimi[m] \in Records =>
       /\ msender[m] # None /\ DomainOf[msender[m]] = mbimi[m][2]
       /\ \E l \in Logos : <<mbimi[m][2], l>> \in shown

=============================================================================
