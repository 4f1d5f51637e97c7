---------------------------- MODULE Certificates ----------------------------
(***************************************************************************)
(* modules/letsencrypt: certificates of domains and the copies that apps   *)
(* keep of them, with the part of modules/names that adds and removes      *)
(* domains.                                                                *)
(*                                                                         *)
(* A certificate is issued by certbot, on request or on its own.  An event *)
(* then makes every app copy the new files, in a thread of the event, and  *)
(* the time of the certificate is recorded as seen.  A renewal reaches the *)
(* service through a D-Bus call, which is lost when the service is not     *)
(* there: at the next start certificates newer than what was seen are      *)
(* handled again.                                                          *)
(***************************************************************************)
EXTENDS Naturals, Sequences, FiniteSets

CONSTANTS
    Domains,    \* domain names
    Active,     \* the domains that requests and certbot act upon; the others
                \* have a certificate that stays as it is
    Comps,      \* the LetsEncrypt components that copy certificates, in order
    Interest,   \* Interest[c]: the domains that c wants copies for
    Late,       \* components of apps that are set up later
    Pool,       \* threads for certificate events
    Main,       \* the thread that runs the check at start
    NoDomain,   \* a value that is no domain
    MaxWork     \* how many certificates are issued, requests and setups
                \* made, hooks fail and stops occur, altogether

ASSUME CertificatesAssumption ==
    /\ Comps \in Seq(DOMAIN Interest) /\ Comps # << >>
    /\ \A c \in DOMAIN Interest : Interest[c] \subseteq Domains
    /\ Late \subseteq {Comps[i] : i \in DOMAIN Comps}
    /\ Active \subseteq Domains
    /\ Main \notin Pool
    /\ NoDomain \notin Domains
    /\ MaxWork \in Nat

VARIABLES
    domains,    \* the domains in the store, which names registers at start
    cert,       \* modification time of live/<domain>/cert.pem, 0: no such file
    valid,      \* certbot calls the certificate valid, not revoked
    copy,       \* copy[c][d]: the certificate that c has, 0: self-signed
    setupOf,    \* setup of the app of a component: needed, copied, done
    seen,       \* last_seen_modified_time in the store, 0: no entry
    thread,     \* the threads that handle events
    check,      \* _certificate_handle_modified
    up,         \* the service runs ...
    bus,        \* ... and has its name on D-Bus
    hooks,      \* domains whose deploy hook certbot is about to call
    op,         \* the request under way
    clock,      \* certificates issued
    ops,        \* requests and setups begun
    failures    \* failures and stops

\* History: what may be wrong with the copy of a component, and why.
VARIABLES
    overtaken,  \* domains issued again while an older event was handled
    excused,    \* copies that nothing will bring up to date: see MayBeStale
    kept        \* copies of revoked certificates that nothing will remove

\* The state of the service, of certbot and of the bounds.
serviceVars == <<check, up, bus>>
certbotVars == <<cert, valid, clock, hooks>>
boundVars == <<ops, failures>>
historyVars == <<overtaken, excused, kept>>

vars == <<domains, copy, setupOf, seen, thread, op, serviceVars, certbotVars,
          boundVars, historyVars>>

Components == {Comps[i] : i \in DOMAIN Comps}
Pairs(d) == Components \X {d}

Free == [at |-> "none", ev |-> "", d |-> NoDomain, idx |-> 0, mt |-> 0,
         info |-> [d \in Domains |-> 0]]
NoCheck == [at |-> "none", todo |-> {}]
NoOp == [at |-> "idle", ev |-> "", d |-> NoDomain]

\* Events that bring a certificate, and those that take it away.
Bringing == {"obtained", "renewed"}
Taking == {"revoked", "deleted"}

\* The service is not running.  Some domains have a certificate, of time 1,
\* which the apps have if it was seen; a domain that was removed may have one.
Init ==
    /\ domains \in {D \in SUBSET Domains : Domains \ Active \subseteq D}
    /\ cert \in [Domains -> {0, 1}]
    /\ \A d \in Domains \ Active : cert[d] = 1
    /\ valid = [d \in Domains |-> cert[d] = 1]
    /\ seen \in [Domains -> {0, 1}]
    /\ \A d \in Domains : seen[d] <= cert[d]
    /\ setupOf = [c \in Components |-> IF c \in Late THEN "needed" ELSE "done"]
    /\ copy = [c \in Components |-> [d \in Domains |->
                  IF c \notin Late /\ d \in domains \cap Interest[c] THEN seen[d] ELSE 0]]
    /\ thread = [t \in Pool \cup {Main} |-> Free]
    /\ check = NoCheck
    /\ up = FALSE
    /\ bus = FALSE
    /\ hooks = {}
    /\ op = NoOp
    /\ clock = 1
    /\ ops = 0
    /\ failures = 0
    /\ overtaken = {}
    /\ excused = Components \X (Domains \ domains)
    /\ kept = {}

\* The bound on what happens to the service.
Affordable == clock + ops + failures < MaxWork

-----------------------------------------------------------------------------
(* certbot: certificates are issued with increasing times.                 *)

\* A thread has begun to hand out the certificate of d.
BeingCopied(d) ==
    \E t \in DOMAIN thread :
        thread[t].at # "none" /\ thread[t].d = d /\ thread[t].ev \in Bringing

Issue(d) ==
    /\ Affordable
    /\ clock' = clock + 1
    /\ cert' = [cert EXCEPT ![d] = clock + 1]
    /\ valid' = [valid EXCEPT ![d] = TRUE]
    /\ overtaken' = IF BeingCopied(d) THEN overtaken \cup {d} ELSE overtaken
    /\ UNCHANGED <<excused, kept>>

\* The timer of certbot renews a certificate and calls the deploy hook.
Renew(d) ==
    /\ cert[d] > 0
    /\ Issue(d)
    /\ hooks' = hooks \cup {d}
    /\ UNCHANGED <<domains, copy, setupOf, seen, thread, op, serviceVars, boundVars>>

-----------------------------------------------------------------------------
(* on_certificate_event: a thread per event.                               *)

StartEvent(t, ev, d) ==
    /\ thread[t].at = "none"
    /\ thread' = [thread EXCEPT ![t] = [Free EXCEPT !.at = "hooks", !.ev = ev,
                                                    !.d = d, !.idx = 1]]

\* Nobody may come back to d when the event of its new certificate is lost,
\* since the older event will record the new certificate as seen.
Missed(d) == IF d \in overtaken THEN Pairs(d) ELSE {}

\* dbus.py _on_deploy_hook, or a D-Bus call that finds nobody.
DeliverHook(d) ==
    /\ d \in hooks
    /\ hooks' = hooks \ {d}
    /\ \/ /\ bus
          /\ \E t \in Pool : StartEvent(t, "renewed", d)
          /\ UNCHANGED historyVars
       \/ /\ ~bus
          /\ excused' = excused \cup Missed(d)
          /\ UNCHANGED <<thread, overtaken, kept>>
    /\ UNCHANGED <<domains, copy, setupOf, seen, op, serviceVars, cert, valid,
                   clock, boundVars>>

-----------------------------------------------------------------------------
(* on_certificate_event_sync in the thread t.                              *)

\* Mutant: the time is recorded after every event.
HookNextRecords(t) ==
    thread' = [thread EXCEPT ![t] =
        IF thread[t].idx < Len(Comps) THEN [thread[t] EXCEPT !.idx = @ + 1]
        ELSE [thread[t] EXCEPT !.at = "mtime"]]

\* After the i-th component: the next one, or certificate_set_last_seen.
HookNext(t) ==
    LET th == thread[t]
        last == th.idx = Len(Comps)
    IN
    thread' = [thread EXCEPT ![t] =
        IF ~last THEN [th EXCEPT !.idx = @ + 1]
        ELSE IF th.ev \in Bringing THEN [th EXCEPT !.at = "mtime"]
        ELSE Free]

\* A component is left out when its app needs setup or it is not interested.
\* A setup that has already copied what there was does not look again.
HookSkips(t) ==
    LET th == thread[t]
        c == Comps[th.idx]
    IN
    /\ th.at = "hooks"
    /\ setupOf[c] # "done" \/ th.d \notin Interest[c]
    /\ HookNext(t)
    /\ excused' = IF setupOf[c] = "copied" THEN excused \cup {<<c, th.d>>} ELSE excused
    /\ kept' = IF setupOf[c] = "copied" THEN kept \cup {<<c, th.d>>} ELSE kept
    /\ UNCHANGED <<domains, copy, setupOf, seen, op, serviceVars, certbotVars,
                   boundVars, overtaken>>

\* on_certificate_obtained, on_certificate_renewed: the files that are there
\* now are copied.
HookCopies(t) ==
    LET th == thread[t]
        c == Comps[th.idx]
        d == th.d
    IN
    /\ th.at = "hooks"
    /\ th.ev \in Bringing
    /\ setupOf[c] = "done" /\ d \in Interest[c]
    /\ cert[d] > 0
    /\ copy' = [copy EXCEPT ![c][d] = cert[d]]
    /\ HookNext(t)
    /\ excused' = excused \ {<<c, d>>}
    /\ kept' = IF valid[d] THEN kept \ {<<c, d>>} ELSE kept \cup {<<c, d>>}
    /\ UNCHANGED <<domains, setupOf, seen, op, serviceVars, certbotVars,
                   boundVars, overtaken>>

\* on_certificate_revoked, on_certificate_deleted: a self-signed certificate
\* takes the place, also when a certificate is there (again).
HookSelfSigns(t) ==
    LET th == thread[t]
        c == Comps[th.idx]
        d == th.d
    IN
    /\ th.at = "hooks"
    /\ th.ev \in Taking
    /\ setupOf[c] = "done" /\ d \in Interest[c]
    /\ copy' = [copy EXCEPT ![c][d] = 0]
    /\ HookNext(t)
    /\ excused' = IF cert[d] > 0 THEN excused \cup {<<c, d>>} ELSE excused
    /\ kept' = kept \ {<<c, d>>}
    /\ UNCHANGED <<domains, setupOf, seen, op, serviceVars, certbotVars,
                   boundVars, overtaken>>

\* A hook raises: the files are gone, or cannot be copied.  The exception is
\* logged and the loop goes on.
HookFails(t) ==
    LET th == thread[t]
        c == Comps[th.idx]
        d == th.d
    IN
    /\ th.at = "hooks"
    /\ setupOf[c] = "done" /\ d \in Interest[c]
    /\ \/ th.ev \in Bringing /\ cert[d] = 0 /\ UNCHANGED failures
       \/ Affordable /\ failures' = failures + 1
    /\ HookNext(t)
    /\ IF th.ev \in Bringing
       THEN excused' = excused \cup {<<c, d>>} /\ UNCHANGED kept
       ELSE kept' = kept \cup {<<c, d>>} /\ UNCHANGED excused
    /\ UNCHANGED <<domains, copy, setupOf, seen, op, serviceVars, certbotVars,
                   ops, overtaken>>

\* certificate_set_last_seen_modified_time asks for the time and reads the
\* record of all domains; without a certificate it raises, which ends the
\* thread, or the check.
SeenRead(t) ==
    LET th == thread[t] IN
    /\ th.at = "mtime"
    /\ \/ /\ cert[th.d] > 0
          /\ thread' = [thread EXCEPT ![t].at = "write", ![t].mt = cert[th.d],
                                      ![t].info = seen]
          /\ UNCHANGED check
       \/ /\ cert[th.d] = 0
          /\ thread' = [thread EXCEPT ![t] = Free]
          /\ check' = IF t = Main THEN [NoCheck EXCEPT !.at = "raised"] ELSE check
    /\ UNCHANGED <<domains, copy, setupOf, seen, op, up, bus, certbotVars,
                   boundVars, historyVars>>

\* Mutant: the times of all certificates are recorded, not that of the one
\* that was handled.
SeenWriteAll(t) ==
    LET th == thread[t] IN
    /\ th.at = "write"
    /\ seen' = [d \in Domains |-> cert[d]]
    /\ thread' = [thread EXCEPT ![t] = Free]
    /\ UNCHANGED <<domains, copy, setupOf, op, serviceVars, certbotVars,
                   boundVars, historyVars>>

\* The whole record is written, and with it what was read for other domains.
SeenWrite(t) ==
    LET th == thread[t] IN
    /\ th.at = "write"
    /\ seen' = [th.info EXCEPT ![th.d] = th.mt]
    /\ thread' = [thread EXCEPT ![t] = Free]
    /\ UNCHANGED <<domains, copy, setupOf, op, serviceVars, certbotVars,
                   boundVars, historyVars>>

EventStep(t) ==
    \/ HookSkips(t)
    \/ HookCopies(t)
    \/ HookSelfSigns(t)
    \/ HookFails(t)
    \/ SeenRead(t)
    \/ SeenWrite(t)

-----------------------------------------------------------------------------
(* LetsEncrypt.setup_certificates, when the app of a component is set up.  *)

\* Files are copied for the domains of now, whether certbot calls the
\* certificate valid or not.  The code copies one domain after another; each
\* property is about a component and a domain, and for each of them the copy is
\* made at one moment, as here.
SetupCopies(c) ==
    /\ up
    /\ Affordable
    /\ ops' = ops + 1
    /\ setupOf[c] = "needed"
    /\ setupOf' = [setupOf EXCEPT ![c] = "copied"]
    /\ copy' = [copy EXCEPT ![c] =
                   [d \in Domains |-> IF d \in domains \cap Interest[c]
                                      THEN cert[d] ELSE copy[c][d]]]
    /\ excused' = (excused \ ({c} \X domains)) \cup ({c} \X (Domains \ domains))
    /\ kept' = kept \cup ({c} \X {d \in Domains : ~valid[d]})
    /\ UNCHANGED <<domains, seen, thread, op, serviceVars, certbotVars,
                   failures, overtaken>>

\* The setup version is stored: from now on the app takes part in events.
SetupRecords(c) ==
    /\ up
    /\ setupOf[c] = "copied"
    /\ setupOf' = [setupOf EXCEPT ![c] = "done"]
    /\ UNCHANGED <<domains, copy, seen, thread, op, serviceVars, certbotVars,
                   boundVars, historyVars>>

-----------------------------------------------------------------------------
(* Requests.  A request changes domains or certificates and then sends an  *)
(* event; op is what it still has to do.                                   *)

BeginOp == up /\ op = NoOp /\ Affordable /\ ops' = ops + 1 /\ UNCHANGED failures

Then(ev, d) == op' = [at |-> "event", ev |-> ev, d |-> d]

\* names/views.py _domain_add: the domain is stored, then the signal is sent.
AddDomain(d) ==
    /\ BeginOp
    /\ d \notin domains
    /\ domains' = domains \cup {d}
    /\ op' = [at |-> "added", ev |-> "", d |-> d]
    /\ UNCHANGED <<copy, setupOf, seen, thread, serviceVars, certbotVars, historyVars>>

\* on_domain_added: with a valid certificate it returns early; otherwise a
\* certificate is obtained, which fails when no certificate is issued.
OnDomainAdded ==
    LET d == op.d IN
    /\ op.at = "added"
    /\ \/ /\ cert[d] > 0 /\ valid[d]
          /\ op' = NoOp
          /\ UNCHANGED <<certbotVars, historyVars>>
       \/ /\ ~(cert[d] > 0 /\ valid[d])
          /\ Issue(d)
          /\ Then("obtained", d)
          /\ hooks' = IF cert[d] > 0 THEN hooks \cup {d} ELSE hooks
       \/ /\ ~(cert[d] > 0 /\ valid[d])
          /\ op' = NoOp
          /\ UNCHANGED <<certbotVars, historyVars>>
    /\ UNCHANGED <<domains, copy, setupOf, seen, thread, serviceVars, boundVars>>

\* names/views.py _domain_delete and on_domain_removed: the event is that of
\* a revoked certificate, but the certificate is kept.
RemoveDomain(d) ==
    /\ BeginOp
    /\ d \in domains
    /\ domains' = domains \ {d}
    /\ Then("revoked", d)
    /\ UNCHANGED <<copy, setupOf, seen, thread, serviceVars, certbotVars, historyVars>>

\* certificate_obtain, from the page of the app.
Obtain(d) ==
    /\ BeginOp
    /\ d \in domains /\ cert[d] = 0
    /\ Issue(d)
    /\ Then("obtained", d)
    /\ UNCHANGED <<domains, copy, setupOf, seen, thread, serviceVars, hooks>>

\* certificate_reobtain: the deploy hook of certbot is all that follows.
Reobtain(d) ==
    /\ BeginOp
    /\ d \in domains /\ cert[d] > 0
    /\ Issue(d)
    /\ hooks' = hooks \cup {d}
    /\ UNCHANGED <<domains, copy, setupOf, seen, thread, op, serviceVars>>

\* Mutant: a certificate is revoked and no event is sent.
RevokeQuietly(d) ==
    /\ BeginOp
    /\ cert[d] > 0 /\ valid[d]
    /\ valid' = [valid EXCEPT ![d] = FALSE]
    /\ UNCHANGED <<domains, copy, setupOf, seen, thread, op, serviceVars, cert,
                   clock, hooks, historyVars>>

\* certificate_revoke with really_revoke.  certbot may leave the files.
Revoke(d) ==
    /\ BeginOp
    /\ cert[d] > 0 /\ valid[d]
    /\ valid' = [valid EXCEPT ![d] = FALSE]
    /\ cert' \in {cert, [cert EXCEPT ![d] = 0]}
    /\ Then("revoked", d)
    /\ UNCHANGED <<domains, copy, setupOf, seen, thread, serviceVars, clock,
                   hooks, historyVars>>

\* certificate_delete.
Delete(d) ==
    /\ BeginOp
    /\ cert[d] > 0
    /\ cert' = [cert EXCEPT ![d] = 0]
    /\ valid' = [valid EXCEPT ![d] = FALSE]
    /\ Then("deleted", d)
    /\ UNCHANGED <<domains, copy, setupOf, seen, thread, serviceVars, clock,
                   hooks, historyVars>>

\* on_certificate_event.
SendEvent ==
    /\ op.at = "event"
    /\ \E t \in Pool : StartEvent(t, op.ev, op.d)
    /\ op' = NoOp
    /\ UNCHANGED <<domains, copy, setupOf, seen, serviceVars, certbotVars,
                   boundVars, historyVars>>

Request ==
    \E d \in Active : \/ AddDomain(d) \/ RemoveDomain(d) \/ Obtain(d)
                       \/ Reobtain(d) \/ Revoke(d) \/ Delete(d)

-----------------------------------------------------------------------------
(* The service stops, at any time, and starts again.                       *)

Handled(d, events) ==
    \/ op.at = "event" /\ op.ev \in events /\ op.d = d
    \/ \E t \in DOMAIN thread :
          thread[t].at # "none" /\ thread[t].ev \in events /\ thread[t].d = d

Stop ==
    /\ up
    /\ Affordable
    /\ failures' = failures + 1
    /\ up' = FALSE
    /\ bus' = FALSE
    /\ thread' = [t \in DOMAIN thread |-> Free]
    /\ check' = NoCheck
    /\ op' = NoOp
    /\ setupOf' = [c \in Components |->
                      IF setupOf[c] = "copied" THEN "needed" ELSE setupOf[c]]
    /\ excused' = excused \cup UNION {Missed(d) : d \in Domains}
    /\ kept' = kept \cup UNION {Pairs(d) : d \in {e \in Domains : Handled(e, Taking)}}
    /\ UNCHANGED <<domains, copy, seen, certbotVars, ops, overtaken>>

Start ==
    /\ ~up
    /\ up' = TRUE
    /\ check' = [NoCheck EXCEPT !.at = "start"]
    /\ UNCHANGED <<domains, copy, setupOf, seen, thread, bus, op, certbotVars,
                   boundVars, historyVars>>

\* The main loop acquires the name on D-Bus, at the pace of another thread.
BusConnect ==
    /\ up /\ ~bus
    /\ bus' = TRUE
    /\ UNCHANGED <<domains, copy, setupOf, seen, thread, check, up, op,
                   certbotVars, boundVars, historyVars>>

\* _certificate_handle_modified: one look at all certificates ...
CheckBegins ==
    /\ check.at = "start"
    /\ check' = [at |-> "loop",
                 todo |-> {<<d, cert[d]>> : d \in {e \in Domains : cert[e] > 0}}]
    /\ UNCHANGED <<domains, copy, setupOf, seen, thread, up, bus, op, certbotVars,
                   boundVars, historyVars>>

\* Mutant: a certificate without an entry in the record is left alone.
UnseenKnown(p) == 0 < seen[p[1]] /\ seen[p[1]] < p[2]

\* Is the certificate newer than what was seen?
Unseen(p) == seen[p[1]] < p[2]

\* ... then one certificate after another, in this thread.
CheckNext ==
    /\ check.at = "loop"
    /\ thread[Main].at = "none"
    /\ \E p \in check.todo :
          /\ check' = [check EXCEPT !.todo = @ \ {p}]
          /\ IF Unseen(p) THEN StartEvent(Main, "renewed", p[1])
             ELSE UNCHANGED thread
    /\ UNCHANGED <<domains, copy, setupOf, seen, up, bus, op, certbotVars,
                   boundVars, historyVars>>

CheckEnds ==
    /\ check.at = "loop"
    /\ check.todo = {}
    /\ thread[Main].at = "none"
    /\ check' = [check EXCEPT !.at = "done"]
    /\ UNCHANGED <<domains, copy, setupOf, seen, thread, up, bus, op, certbotVars,
                   boundVars, historyVars>>

CheckStep == CheckBegins \/ CheckNext \/ CheckEnds

Next ==
    \/ \E d \in Active : Renew(d) \/ DeliverHook(d)
    \/ \E t \in Pool \cup {Main} : EventStep(t)
    \/ \E c \in Late : SetupCopies(c) \/ SetupRecords(c)
    \/ Request \/ OnDomainAdded \/ SendEvent
    \/ Stop \/ Start \/ BusConnect \/ CheckStep

Spec == Init /\ [][Next]_vars

\* The check and its thread go on, and so do the threads of events; certbot
\* does call its deploy hook.
FairSpec ==
    /\ Spec
    /\ \A d \in Active : WF_vars(DeliverHook(d))
    /\ WF_vars(CheckStep)
    /\ \A t \in Pool \cup {Main} : WF_vars(EventStep(t))

-----------------------------------------------------------------------------
(* Properties.                                                             *)

TypeOK ==
    /\ domains \subseteq Domains
    /\ cert \in [Domains -> 0..clock]
    /\ valid \in [Domains -> BOOLEAN]
    /\ \A d \in Domains : valid[d] => cert[d] > 0
    /\ copy \in [Components -> [Domains -> 0..clock]]
    /\ setupOf \in [Components -> {"needed", "copied", "done"}]
    /\ seen \in [Domains -> 0..clock]
    /\ \A t \in Pool \cup {Main} :
          /\ thread[t].at \in {"none", "hooks", "mtime", "write"}
          /\ thread[t].at # "none" => thread[t].ev \in Bringing \cup Taking
          /\ thread[t].at \in {"mtime", "write"} => thread[t].ev \in Bringing
    /\ check.at \in {"none", "start", "loop", "done", "raised"}
    /\ up \in BOOLEAN /\ bus \in BOOLEAN /\ (bus => up)
    /\ op.at \in {"idle", "added", "event"}
    /\ hooks \subseteq Domains
    /\ clock + ops + failures <= MaxWork + 1
    /\ excused \subseteq Components \X Domains
    /\ kept \subseteq Components \X Domains

\* An event that will still come to the i-th component.
Reaches(i, d, events) ==
    \/ op.at = "event" /\ op.ev \in events /\ op.d = d
    \/ \E t \in Pool \cup {Main} :
          /\ thread[t].at = "hooks" /\ thread[t].ev \in events
          /\ thread[t].d = d /\ thread[t].idx <= i

\* An app that is set up has a copy other than the valid certificate.
Stale(i, d) ==
    /\ d \in domains \cap Interest[Comps[i]]
    /\ setupOf[Comps[i]] = "done"
    /\ cert[d] > 0 /\ valid[d]
    /\ copy[Comps[i]][d] # cert[d]

\* No renewal is missed, whatever events overlap or are cut off: when an app
\* has an old copy an event is still on its way to it, or the certificate does
\* not count as seen, so that the check at the next start handles it again.
\* The exceptions, which excused collects, are a hook that failed; an event of
\* removal that came when there was a certificate; an app whose setup copied
\* before the event or while the domain was removed; and a certificate
\* issued during the event of an older one whose own event was then lost.
NoMissedRenewal ==
    \A i \in DOMAIN Comps : \A d \in Domains :
        Stale(i, d) => \/ seen[d] < cert[d]
                       \/ d \in hooks
                       \/ Reaches(i, d, Bringing)
                       \/ <<Comps[i], d>> \in excused

\* A certificate that was revoked or deleted is withdrawn from every app: one
\* that still has it is about to receive the event, or its hook failed, the
\* service stopped in between, or the files were still there and a late event
\* or a setup copied them.
RevokedWithdrawn ==
    \A i \in DOMAIN Comps : \A d \in Domains :
        (~valid[d] /\ copy[Comps[i]][d] > 0 /\ d \in Interest[Comps[i]]
             /\ setupOf[Comps[i]] = "done")
            => Reaches(i, d, Taking) \/ <<Comps[i], d>> \in kept

\* The check at start heals what was missed while the service was away: a
\* certificate that is not seen when the check begins reaches every app that
\* is set up, unless a hook fails, the service stops or a certificate is taken
\* away meanwhile, which ends the check.
CheckHeals ==
    \A d \in Domains : \A k \in 1..MaxWork :
        (check.at = "start" /\ cert[d] = k /\ seen[d] < k)
            ~> (\/ \A i \in DOMAIN Comps :
                      \/ copy[Comps[i]][d] >= k
                      \/ d \notin Interest[Comps[i]]
                      \/ setupOf[Comps[i]] # "done"
                      \/ <<Comps[i], d>> \in excused
                \/ cert[d] = 0
                \/ ~up
                \/ check.at = "raised")

=============================================================================
