------------------------- MODULE CertificatesProofs -------------------------
(***************************************************************************)
(* Proofs about Certificates, for any domains, components and number of    *)
(* event threads, renewals, requests, failures and stops.                  *)
(***************************************************************************)
EXTENDS Certificates, TLAPS

Threads == Pool \cup {Main}
Events == Bringing \cup Taking
Times == 0..clock

-----------------------------------------------------------------------------
(* The invariants.                                                         *)

Event == [at : {"none", "hooks", "mtime", "write"}, ev : Events \cup {""},
          d : Domains \cup {NoDomain}, idx : Nat, mt : Nat, info : [Domains -> Nat]]

WorkOK ==
    /\ clock \in Nat /\ ops \in Nat /\ failures \in Nat
    /\ clock + ops + failures <= MaxWork + 1

CertOK ==
    /\ cert \in [Domains -> Nat]
    /\ \A d \in Domains : cert[d] <= clock
    /\ valid \in [Domains -> BOOLEAN]
    /\ \A d \in Domains : valid[d] => cert[d] > 0
    /\ hooks \subseteq Domains

AppsOK ==
    /\ domains \subseteq Domains
    /\ copy \in [Components -> [Domains -> Nat]]
    /\ \A c \in Components : \A d \in Domains : copy[c][d] <= clock
    /\ setupOf \in [Components -> {"needed", "copied", "done"}]
    /\ excused \subseteq Components \X Domains
    /\ kept \subseteq Components \X Domains

\* What was seen, and what threads are about to record, is not from the future.
SeenOK ==
    /\ seen \in [Domains -> Nat]
    /\ \A d \in Domains : seen[d] <= clock
    /\ \A t \in Threads : \A d \in Domains :
          /\ thread[t].info[d] <= clock
          /\ thread[t].mt <= clock

ThreadsOK ==
    /\ thread \in [Threads -> Event]
    /\ \A t \in Threads :
          /\ thread[t].at # "none" => thread[t].ev \in Events /\ thread[t].d \in Domains
          /\ thread[t].at \in {"mtime", "write"} => thread[t].ev \in Bringing
          /\ thread[t].at = "hooks" => thread[t].idx \in DOMAIN Comps

ServiceOK ==
    /\ check \in [at : {"none", "start", "loop", "done", "raised"},
                  todo : SUBSET (Domains \X Nat)]
    /\ op \in [at : {"idle", "added", "event"}, ev : Events \cup {""},
               d : Domains \cup {NoDomain}]
    /\ op.at # "idle" => op.d \in Domains
    /\ op.at = "event" => op.ev \in Events
    /\ up \in BOOLEAN /\ bus \in BOOLEAN /\ (bus => up)

Typed == WorkOK /\ CertOK /\ AppsOK /\ SeenOK /\ ThreadsOK /\ ServiceOK

\* The i-th component takes part in events, or has copied and soon will.
SetUp(i) == setupOf[Comps[i]] # "needed"

\* The thread t has an event of a new certificate of d, has been through the
\* i-th component with it, and does not know yet what it will record.
Passed(t, i, d) ==
    /\ thread[t].ev \in Bringing /\ thread[t].d = d
    /\ \/ thread[t].at = "mtime"
       \/ thread[t].at = "hooks" /\ thread[t].idx > i

\* What the thread t will record for d is older than the certificate.
RecordsOlder(t, d) ==
    thread[t].at = "write" =>
        IF thread[t].d = d THEN thread[t].mt < cert[d] ELSE thread[t].info[d] < cert[d]

Old(i, d) ==
    /\ SetUp(i) /\ d \in Interest[Comps[i]]
    /\ cert[d] > 0 /\ valid[d]
    /\ copy[Comps[i]][d] # cert[d]
    /\ <<Comps[i], d>> \notin excused

\* Nothing counts the certificate as seen, now or soon.
Untold(i, d) ==
    /\ seen[d] < cert[d]
    /\ \A t \in Threads : ~Passed(t, i, d) /\ RecordsOlder(t, d)

\* A certificate issued in the middle of an event has no such safety, but an
\* event of its own.
Cared(i, d) ==
    IF d \in overtaken THEN d \in hooks \/ Reaches(i, d, Bringing) ELSE Untold(i, d)

RenewalInv == \A i \in DOMAIN Comps : \A d \in Domains : Old(i, d) => Cared(i, d)

\* An app has a copy of a certificate that was revoked or deleted.
Revoked(i, d) ==
    ~valid[d] /\ copy[Comps[i]][d] > 0 /\ d \in Interest[Comps[i]] /\ SetUp(i)

Withdrawn(i, d) == Reaches(i, d, Taking) \/ <<Comps[i], d>> \in kept

\* As RevokedWithdrawn, from the moment on at which a setup has copied.
RevokedInv == \A i \in DOMAIN Comps : \A d \in Domains : Revoked(i, d) => Withdrawn(i, d)

-----------------------------------------------------------------------------
(* Types.                                                                  *)

LEMMA Assumed ==
    /\ Comps \in Seq(Components) /\ Len(Comps) \in Nat \ {0}
    /\ DOMAIN Comps = 1..Len(Comps)
    /\ Active \subseteq Domains /\ MaxWork \in Nat /\ NoDomain \notin Domains
    /\ Main \notin Pool /\ Late \subseteq Components
  BY CertificatesAssumption DEF Components

LEMMA WorkStep == WorkOK /\ [Next]_vars => WorkOK'
<1> SUFFICES ASSUME WorkOK, [Next]_vars PROVE WorkOK'
  OBVIOUS
<1> USE Assumed DEF WorkOK, Affordable, boundVars, certbotVars
<1>1. ASSUME NEW d \in Active, Renew(d) PROVE WorkOK'
  BY <1>1 DEF Renew, Issue
<1>2. ASSUME NEW d \in Active, DeliverHook(d) PROVE WorkOK'
  BY <1>2 DEF DeliverHook
<1>3. ASSUME NEW t \in Threads, HookSkips(t) PROVE WorkOK'
  BY <1>3 DEF HookSkips
<1>4. ASSUME NEW t \in Threads, HookCopies(t) PROVE WorkOK'
  BY <1>4 DEF HookCopies
<1>5. ASSUME NEW t \in Threads, HookSelfSigns(t) PROVE WorkOK'
  BY <1>5 DEF HookSelfSigns
<1>6. ASSUME NEW t \in Threads, HookFails(t) PROVE WorkOK'
  BY <1>6 DEF HookFails
<1>7. ASSUME NEW t \in Threads, SeenRead(t) PROVE WorkOK'
  BY <1>7 DEF SeenRead
<1>8. ASSUME NEW t \in Threads, SeenWrite(t) PROVE WorkOK'
  BY <1>8 DEF SeenWrite
<1>9. ASSUME NEW c \in Late, SetupCopies(c) PROVE WorkOK'
  BY <1>9 DEF SetupCopies
<1>10. ASSUME NEW c \in Late, SetupRecords(c) PROVE WorkOK'
  BY <1>10 DEF SetupRecords
<1>11. ASSUME NEW d \in Active, AddDomain(d) PROVE WorkOK'
  <2>1. UNCHANGED <<clock, failures>> /\ ops' = ops + 1 /\ Affordable
    BY <1>11, Zenon DEF AddDomain, BeginOp
  <2> QED
    BY <2>1
<1>12. ASSUME NEW d \in Active, RemoveDomain(d) PROVE WorkOK'
  BY <1>12 DEF RemoveDomain, BeginOp
<1>13. ASSUME NEW d \in Active, Obtain(d) PROVE WorkOK'
  BY <1>13 DEF Obtain, BeginOp, Issue
<1>14. ASSUME NEW d \in Active, Reobtain(d) PROVE WorkOK'
  BY <1>14 DEF Reobtain, BeginOp, Issue
<1>15. ASSUME NEW d \in Active, Revoke(d) PROVE WorkOK'
  BY <1>15 DEF Revoke, BeginOp
<1>16. ASSUME NEW d \in Active, Delete(d) PROVE WorkOK'
  BY <1>16 DEF Delete, BeginOp
<1>17. ASSUME OnDomainAdded PROVE WorkOK'
  BY <1>17 DEF OnDomainAdded, Issue
<1>18. ASSUME SendEvent PROVE WorkOK'
  BY <1>18 DEF SendEvent
<1>19. ASSUME Stop PROVE WorkOK'
  BY <1>19 DEF Stop
<1>20. ASSUME Start PROVE WorkOK'
  BY <1>20 DEF Start
<1>21. ASSUME BusConnect PROVE WorkOK'
  BY <1>21 DEF BusConnect
<1>22. ASSUME CheckBegins PROVE WorkOK'
  BY <1>22 DEF CheckBegins
<1>23. ASSUME CheckNext PROVE WorkOK'
  BY <1>23 DEF CheckNext
<1>24. ASSUME CheckEnds PROVE WorkOK'
  BY <1>24 DEF CheckEnds
<1>25. CASE UNCHANGED vars
  BY <1>25 DEF vars
<1> QED
  <2> HIDE DEF WorkOK, Affordable, boundVars, certbotVars
  <2> QED
    BY <1>1, <1>2, <1>3, <1>4, <1>5, <1>6, <1>7, <1>8, <1>9, <1>10, <1>11,
     <1>12, <1>13, <1>14, <1>15, <1>16, <1>17, <1>18, <1>19, <1>20,
     <1>21, <1>22, <1>23, <1>24, <1>25
     DEF Next, EventStep, Request, CheckStep, Threads

LEMMA CertStep == CertOK /\ ServiceOK /\ WorkOK /\ [Next]_vars => CertOK'
<1> SUFFICES ASSUME CertOK, ServiceOK, WorkOK, [Next]_vars PROVE CertOK'
  OBVIOUS
<1> USE Assumed DEF CertOK, certbotVars, boundVars, WorkOK
<1>1. ASSUME NEW d \in Active, Renew(d) PROVE CertOK'
  BY <1>1 DEF Renew, Issue
<1>2. ASSUME NEW d \in Active, DeliverHook(d) PROVE CertOK'
  BY <1>2 DEF DeliverHook
<1>3. ASSUME NEW t \in Threads, HookSkips(t) PROVE CertOK'
  BY <1>3 DEF HookSkips
<1>4. ASSUME NEW t \in Threads, HookCopies(t) PROVE CertOK'
  BY <1>4 DEF HookCopies
<1>5. ASSUME NEW t \in Threads, HookSelfSigns(t) PROVE CertOK'
  BY <1>5 DEF HookSelfSigns
<1>6. ASSUME NEW t \in Threads, HookFails(t) PROVE CertOK'
  BY <1>6 DEF HookFails
<1>7. ASSUME NEW t \in Threads, SeenRead(t) PROVE CertOK'
  BY <1>7 DEF SeenRead
<1>8. ASSUME NEW t \in Threads, SeenWrite(t) PROVE CertOK'
  BY <1>8 DEF SeenWrite
<1>9. ASSUME NEW c \in Late, SetupCopies(c) PROVE CertOK'
  BY <1>9 DEF SetupCopies
<1>10. ASSUME NEW c \in Late, SetupRecords(c) PROVE CertOK'
  BY <1>10 DEF SetupRecords
<1>11. ASSUME NEW d \in Active, AddDomain(d) PROVE CertOK'
  BY <1>11 DEF AddDomain, BeginOp
<1>12. ASSUME NEW d \in Active, RemoveDomain(d) PROVE CertOK'
  BY <1>12 DEF RemoveDomain, BeginOp
<1>13. ASSUME NEW d \in Active, Obtain(d) PROVE CertOK'
  BY <1>13 DEF Obtain, BeginOp, Issue
<1>14. ASSUME NEW d \in Active, Reobtain(d) PROVE CertOK'
  BY <1>14 DEF Reobtain, BeginOp, Issue
<1>15. ASSUME NEW d \in Active, Revoke(d) PROVE CertOK'
  BY <1>15 DEF Revoke, BeginOp
<1>16. ASSUME NEW d \in Active, Delete(d) PROVE CertOK'
  BY <1>16 DEF Delete, BeginOp
<1>17. ASSUME OnDomainAdded PROVE CertOK'
  <2>1. op.d \in Domains
    BY <1>17 DEF OnDomainAdded, ServiceOK
  <2>2. CASE UNCHANGED certbotVars
    BY <2>2
  <2>3. CASE Issue(op.d) /\ hooks' \in {hooks, hooks \cup {op.d}}
    BY <2>1, <2>3 DEF Issue
  <2> QED
    BY <1>17, <2>2, <2>3 DEF OnDomainAdded
<1>18. ASSUME SendEvent PROVE CertOK'
  BY <1>18 DEF SendEvent
<1>19. ASSUME Stop PROVE CertOK'
  BY <1>19 DEF Stop
<1>20. ASSUME Start PROVE CertOK'
  BY <1>20 DEF Start
<1>21. ASSUME BusConnect PROVE CertOK'
  BY <1>21 DEF BusConnect
<1>22. ASSUME CheckBegins PROVE CertOK'
  BY <1>22 DEF CheckBegins
<1>23. ASSUME CheckNext PROVE CertOK'
  BY <1>23 DEF CheckNext
<1>24. ASSUME CheckEnds PROVE CertOK'
  BY <1>24 DEF CheckEnds
<1>25. CASE UNCHANGED vars
  BY <1>25 DEF vars
<1> QED
  <2> HIDE DEF CertOK, certbotVars, boundVars, WorkOK
  <2> QED
    BY <1>1, <1>2, <1>3, <1>4, <1>5, <1>6, <1>7, <1>8, <1>9, <1>10, <1>11,
     <1>12, <1>13, <1>14, <1>15, <1>16, <1>17, <1>18, <1>19, <1>20,
     <1>21, <1>22, <1>23, <1>24, <1>25
     DEF Next, EventStep, Request, CheckStep, Threads

LEMMA IndexSet ==
    ASSUME NEW e \in Event, NEW n \in Nat, NEW f, f = [e EXCEPT !.idx = n]
    PROVE  f \in Event /\ f.at = e.at /\ f.idx = n /\ f.ev = e.ev /\ f.d = e.d
           /\ f.mt = e.mt /\ f.info = e.info
  BY DEF Event

LEMMA StageSet ==
    ASSUME NEW e \in Event, NEW f, f = [e EXCEPT !.at = "mtime"]
    PROVE  f \in Event /\ f.at = "mtime" /\ f.idx = e.idx /\ f.ev = e.ev /\ f.d = e.d
           /\ f.mt = e.mt /\ f.info = e.info
  BY DEF Event

LEMMA FreeEvent ==
    Free \in Event /\ Free.at = "none" /\ Free.mt = 0
    /\ \A d \in Domains : Free.info[d] = 0
  BY DEF Event, Free

(* A thread that is done with a component (operation of on_certificate_event_sync). *)
LEMMA Advance ==
    ASSUME ThreadsOK, NEW t \in Threads, thread[t].at = "hooks", HookNext(t)
    PROVE  /\ thread' = [thread EXCEPT ![t] = thread'[t]]
           /\ thread'[t] \in Event
           /\ thread'[t].mt \in {thread[t].mt, 0}
           /\ \A d \in Domains : thread'[t].info[d] \in {thread[t].info[d], 0}
           /\ \/ /\ thread'[t].at = "hooks"
                 /\ thread[t].idx < Len(Comps) /\ thread'[t].idx = thread[t].idx + 1
                 /\ thread'[t].ev = thread[t].ev /\ thread'[t].d = thread[t].d
              \/ /\ thread'[t].at = "mtime" /\ thread[t].ev \in Bringing
                 /\ thread[t].idx = Len(Comps)
                 /\ thread'[t].ev = thread[t].ev /\ thread'[t].d = thread[t].d
              \/ /\ thread'[t].at = "none" /\ thread[t].ev \notin Bringing
                 /\ thread[t].idx = Len(Comps)
<1> DEFINE th == thread[t]
           new == IF ~(th.idx = Len(Comps)) THEN [th EXCEPT !.idx = @ + 1]
                  ELSE IF th.ev \in Bringing THEN [th EXCEPT !.at = "mtime"] ELSE Free
<1>1. thread' = [thread EXCEPT ![t] = new]
  BY DEF HookNext
<1>2. th \in Event /\ th.idx \in 1..Len(Comps)
  BY Assumed DEF ThreadsOK
<1>4. thread'[t] = new /\ t \in DOMAIN thread
  BY <1>1 DEF ThreadsOK
<1>5. thread' = [thread EXCEPT ![t] = thread'[t]]
  BY <1>1, <1>4, Zenon
<1>6. CASE th.idx # Len(Comps)
  <2>1. thread'[t] = [th EXCEPT !.idx = th.idx + 1] /\ th.idx + 1 \in Nat
    BY <1>2, <1>4, <1>6, Assumed
  <2> QED
    BY <1>2, <1>5, <1>6, <2>1, IndexSet, Assumed
<1>7. CASE th.idx = Len(Comps) /\ th.ev \in Bringing
  <2>1. thread'[t] = [th EXCEPT !.at = "mtime"]
    BY <1>4, <1>7
  <2> QED
    BY <1>2, <1>5, <1>7, <2>1, StageSet
<1>8. CASE th.idx = Len(Comps) /\ th.ev \notin Bringing
  <2>1. thread'[t] = Free
    BY <1>4, <1>8
  <2> QED
    BY <1>5, <1>8, <2>1, FreeEvent
<1> QED
  BY <1>6, <1>7, <1>8

LEMMA Begins ==
    ASSUME ThreadsOK, NEW t \in Threads, NEW ev \in Events, NEW d \in Domains,
           StartEvent(t, ev, d)
    PROVE  /\ thread[t].at = "none"
           /\ thread' = [thread EXCEPT ![t] = thread'[t]]
           /\ thread'[t] \in Event
           /\ thread'[t].mt = 0 /\ \A e \in Domains : thread'[t].info[e] = 0
           /\ thread'[t].at = "hooks" /\ thread'[t].ev = ev
           /\ thread'[t].d = d /\ thread'[t].idx = 1
<1> DEFINE new == [Free EXCEPT !.at = "hooks", !.ev = ev, !.d = d, !.idx = 1]
<1>1. thread' = [thread EXCEPT ![t] = new] /\ thread[t].at = "none"
  BY Zenon DEF StartEvent
<1>2. new \in Event /\ new.at = "hooks" /\ new.ev = ev /\ new.d = d /\ new.idx = 1
  BY DEF Event, Free
<1>3. new.mt = 0 /\ \A e \in Domains : new.info[e] = 0
  BY DEF Free
<1>4. thread'[t] = new
  BY <1>1 DEF ThreadsOK
<1> QED
  BY <1>1, <1>2, <1>3, <1>4, Zenon

LEMMA AdvanceKeeps ==
    ASSUME ThreadsOK, NEW t \in Threads, thread[t].at = "hooks", HookNext(t)
    PROVE  ThreadsOK'
<1>1. thread' \in [Threads -> Event] /\ \A s \in Threads : s # t => thread'[s] = thread[s]
  BY Advance DEF ThreadsOK
<1>2. /\ thread'[t].at # "none" => thread'[t].ev \in Events /\ thread'[t].d \in Domains
      /\ thread'[t].at \in {"mtime", "write"} => thread'[t].ev \in Bringing
      /\ thread'[t].at = "hooks" => thread'[t].idx \in DOMAIN Comps
  BY Advance, Assumed DEF ThreadsOK
<1> QED
  BY <1>1, <1>2 DEF ThreadsOK

LEMMA BeginsKeeps ==
    ASSUME ThreadsOK, NEW t \in Threads, NEW ev \in Events, NEW d \in Domains,
           StartEvent(t, ev, d)
    PROVE  ThreadsOK'
<1>1. thread' \in [Threads -> Event] /\ \A s \in Threads : s # t => thread'[s] = thread[s]
  BY Begins DEF ThreadsOK
<1>2. /\ thread'[t].at = "hooks" /\ thread'[t].ev \in Events /\ thread'[t].d \in Domains
      /\ thread'[t].idx \in DOMAIN Comps
  BY Begins, Assumed
<1> QED
  BY <1>1, <1>2 DEF ThreadsOK

LEMMA ThreadsStep == ThreadsOK /\ ServiceOK /\ CertOK /\ SeenOK /\ [Next]_vars => ThreadsOK'
<1> SUFFICES ASSUME ThreadsOK, ServiceOK, CertOK, SeenOK, [Next]_vars PROVE ThreadsOK'
  OBVIOUS
<1>1. ASSUME NEW d \in Active, Renew(d) PROVE ThreadsOK'
  BY <1>1 DEF Renew, Issue, ThreadsOK
<1>2. ASSUME NEW d \in Active, DeliverHook(d) PROVE ThreadsOK'
  <2>1. CASE \E t \in Pool : StartEvent(t, "renewed", d)
    BY <2>1, Assumed, BeginsKeeps DEF Threads, Events, Bringing
  <2>2. CASE UNCHANGED thread
    BY <2>2 DEF ThreadsOK
  <2> QED
    BY <1>2, <2>1, <2>2 DEF DeliverHook
<1>3. ASSUME NEW t \in Threads, HookSkips(t) PROVE ThreadsOK'
  BY <1>3, AdvanceKeeps DEF HookSkips
<1>4. ASSUME NEW t \in Threads, HookCopies(t) PROVE ThreadsOK'
  BY <1>4, AdvanceKeeps DEF HookCopies
<1>5. ASSUME NEW t \in Threads, HookSelfSigns(t) PROVE ThreadsOK'
  BY <1>5, AdvanceKeeps DEF HookSelfSigns
<1>6. ASSUME NEW t \in Threads, HookFails(t) PROVE ThreadsOK'
  BY <1>6, AdvanceKeeps DEF HookFails
<1>7. ASSUME NEW t \in Threads, SeenRead(t) PROVE ThreadsOK'
  <2>1. CASE thread' = [thread EXCEPT ![t] = Free]
    BY <2>1, FreeEvent DEF ThreadsOK
  <2>2. CASE thread' = [thread EXCEPT ![t].at = "write", ![t].mt = cert[thread[t].d],
                                      ![t].info = seen]
    <3>1. thread[t] \in Event /\ thread[t].ev \in Bringing /\ thread[t].d \in Domains
      BY <1>7 DEF SeenRead, ThreadsOK
    <3>2. cert[thread[t].d] \in Nat /\ seen \in [Domains -> Nat]
      BY <3>1 DEF CertOK, SeenOK
    <3>3. thread'[t] = [thread[t] EXCEPT !.at = "write", !.mt = cert[thread[t].d],
                                         !.info = seen]
      BY <2>2 DEF ThreadsOK
    <3>4. /\ thread'[t] \in Event /\ thread'[t].at = "write"
          /\ thread'[t].ev = thread[t].ev /\ thread'[t].d = thread[t].d
      BY <3>1, <3>2, <3>3 DEF Event
    <3>5. \A s \in Threads : s # t => thread'[s] = thread[s]
      BY <2>2 DEF ThreadsOK
    <3>6. thread' \in [Threads -> Event]
      BY <2>2, <3>4, <3>5 DEF ThreadsOK
    <3>7. ASSUME NEW s \in Threads
          PROVE  /\ thread'[s].at # "none" => thread'[s].ev \in Events /\ thread'[s].d \in Domains
                 /\ thread'[s].at \in {"mtime", "write"} => thread'[s].ev \in Bringing
                 /\ thread'[s].at = "hooks" => thread'[s].idx \in DOMAIN Comps
      <4>1. CASE s = t
        BY <3>1, <3>4, <4>1 DEF Events
      <4>2. CASE s # t
        BY <3>5, <4>2 DEF ThreadsOK
      <4> QED
        BY <4>1, <4>2
    <3> QED
      BY <3>6, <3>7 DEF ThreadsOK
  <2> QED
    BY <1>7, <2>1, <2>2 DEF SeenRead
<1>8. ASSUME NEW t \in Threads, SeenWrite(t) PROVE ThreadsOK'
  <2>1. thread' = [thread EXCEPT ![t] = Free]
    BY <1>8 DEF SeenWrite
  <2> QED
    BY <2>1, FreeEvent DEF ThreadsOK
<1>9. ASSUME NEW c \in Late, SetupCopies(c) PROVE ThreadsOK'
  BY <1>9 DEF SetupCopies, ThreadsOK
<1>10. ASSUME NEW c \in Late, SetupRecords(c) PROVE ThreadsOK'
  BY <1>10 DEF SetupRecords, ThreadsOK
<1>11. ASSUME NEW d \in Active, AddDomain(d) PROVE ThreadsOK'
  BY <1>11 DEF AddDomain, BeginOp, ThreadsOK
<1>12. ASSUME NEW d \in Active, RemoveDomain(d) PROVE ThreadsOK'
  BY <1>12 DEF RemoveDomain, BeginOp, ThreadsOK
<1>13. ASSUME NEW d \in Active, Obtain(d) PROVE ThreadsOK'
  BY <1>13 DEF Obtain, BeginOp, Issue, ThreadsOK
<1>14. ASSUME NEW d \in Active, Reobtain(d) PROVE ThreadsOK'
  BY <1>14 DEF Reobtain, BeginOp, Issue, ThreadsOK
<1>15. ASSUME NEW d \in Active, Revoke(d) PROVE ThreadsOK'
  BY <1>15 DEF Revoke, BeginOp, ThreadsOK
<1>16. ASSUME NEW d \in Active, Delete(d) PROVE ThreadsOK'
  BY <1>16 DEF Delete, BeginOp, ThreadsOK
<1>17. ASSUME OnDomainAdded PROVE ThreadsOK'
  BY <1>17 DEF OnDomainAdded, Issue, ThreadsOK
<1>18. ASSUME SendEvent PROVE ThreadsOK'
  <2>1. op.ev \in Events /\ op.d \in Domains
    BY <1>18 DEF SendEvent, ServiceOK
  <2> QED
    BY <1>18, <2>1, BeginsKeeps DEF SendEvent, Threads
<1>19. ASSUME Stop PROVE ThreadsOK'
  <2>1. thread' = [t \in Threads |-> Free]
    BY <1>19 DEF Stop, ThreadsOK
  <2> QED
    BY <2>1, FreeEvent DEF ThreadsOK
<1>20. ASSUME Start PROVE ThreadsOK'
  BY <1>20 DEF Start, ThreadsOK
<1>21. ASSUME BusConnect PROVE ThreadsOK'
  BY <1>21 DEF BusConnect, ThreadsOK
<1>22. ASSUME CheckBegins PROVE ThreadsOK'
  BY <1>22 DEF CheckBegins, ThreadsOK
<1>23. ASSUME CheckNext PROVE ThreadsOK'
  <2>1. PICK p \in check.todo : IF Unseen(p) THEN StartEvent(Main, "renewed", p[1])
                                ELSE UNCHANGED thread
    BY <1>23 DEF CheckNext
  <2>2. p[1] \in Domains
    BY DEF ServiceOK
  <2>3. CASE Unseen(p)
    BY <2>1, <2>2, <2>3, BeginsKeeps DEF Threads, Events, Bringing
  <2>4. CASE UNCHANGED thread
    BY <2>4 DEF ThreadsOK
  <2> QED
    BY <2>1, <2>3, <2>4
<1>24. ASSUME CheckEnds PROVE ThreadsOK'
  BY <1>24 DEF CheckEnds, ThreadsOK
<1>25. CASE UNCHANGED vars
  BY <1>25 DEF vars, ThreadsOK
<1> QED
  BY <1>1, <1>2, <1>3, <1>4, <1>5, <1>6, <1>7, <1>8, <1>9, <1>10, <1>11,
     <1>12, <1>13, <1>14, <1>15, <1>16, <1>17, <1>18, <1>19, <1>20,
     <1>21, <1>22, <1>23, <1>24, <1>25
     DEF Next, EventStep, Request, CheckStep, Threads

LEMMA ServiceStep == ServiceOK /\ CertOK /\ [Next]_vars => ServiceOK'
<1> SUFFICES ASSUME ServiceOK, CertOK, [Next]_vars PROVE ServiceOK'
  OBVIOUS
<1> USE Assumed DEF ServiceOK, serviceVars, NoOp, NoCheck
<1>1. ASSUME NEW d \in Active, Renew(d) PROVE ServiceOK'
  BY <1>1 DEF Renew, Issue
<1>2. ASSUME NEW d \in Active, DeliverHook(d) PROVE ServiceOK'
  BY <1>2 DEF DeliverHook
<1>3. ASSUME NEW t \in Threads, HookSkips(t) PROVE ServiceOK'
  BY <1>3 DEF HookSkips
<1>4. ASSUME NEW t \in Threads, HookCopies(t) PROVE ServiceOK'
  BY <1>4 DEF HookCopies
<1>5. ASSUME NEW t \in Threads, HookSelfSigns(t) PROVE ServiceOK'
  BY <1>5 DEF HookSelfSigns
<1>6. ASSUME NEW t \in Threads, HookFails(t) PROVE ServiceOK'
  BY <1>6 DEF HookFails
<1>7. ASSUME NEW t \in Threads, SeenRead(t) PROVE ServiceOK'
  BY <1>7 DEF SeenRead
<1>8. ASSUME NEW t \in Threads, SeenWrite(t) PROVE ServiceOK'
  BY <1>8 DEF SeenWrite
<1>9. ASSUME NEW c \in Late, SetupCopies(c) PROVE ServiceOK'
  BY <1>9 DEF SetupCopies
<1>10. ASSUME NEW c \in Late, SetupRecords(c) PROVE ServiceOK'
  BY <1>10 DEF SetupRecords
<1>11. ASSUME NEW d \in Active, AddDomain(d) PROVE ServiceOK'
  BY <1>11 DEF AddDomain, BeginOp
<1>12. ASSUME NEW d \in Active, RemoveDomain(d) PROVE ServiceOK'
  BY <1>12 DEF RemoveDomain, BeginOp, Then, Events, Taking
<1>13. ASSUME NEW d \in Active, Obtain(d) PROVE ServiceOK'
  BY <1>13 DEF Obtain, BeginOp, Issue, Then, Events, Bringing
<1>14. ASSUME NEW d \in Active, Reobtain(d) PROVE ServiceOK'
  BY <1>14 DEF Reobtain, BeginOp, Issue
<1>15. ASSUME NEW d \in Active, Revoke(d) PROVE ServiceOK'
  BY <1>15 DEF Revoke, BeginOp, Then, Events, Taking
<1>16. ASSUME NEW d \in Active, Delete(d) PROVE ServiceOK'
  BY <1>16 DEF Delete, BeginOp, Then, Events, Taking
<1>17. ASSUME OnDomainAdded PROVE ServiceOK'
  <2>1. op.d \in Domains
    BY <1>17 DEF OnDomainAdded
  <2>2. op' = NoOp \/ op' = [at |-> "event", ev |-> "obtained", d |-> op.d]
    BY <1>17 DEF OnDomainAdded, Then
  <2>3. UNCHANGED serviceVars
    BY <1>17 DEF OnDomainAdded
  <2>4. CASE op' = NoOp
    BY <2>3, <2>4
  <2>5. CASE op' = [at |-> "event", ev |-> "obtained", d |-> op.d]
    BY <2>1, <2>3, <2>5 DEF Events, Bringing
  <2> QED
    BY <2>2, <2>4, <2>5
<1>18. ASSUME SendEvent PROVE ServiceOK'
  BY <1>18 DEF SendEvent
<1>19. ASSUME Stop PROVE ServiceOK'
  BY <1>19 DEF Stop
<1>20. ASSUME Start PROVE ServiceOK'
  BY <1>20 DEF Start
<1>21. ASSUME BusConnect PROVE ServiceOK'
  BY <1>21 DEF BusConnect
<1>22. ASSUME CheckBegins PROVE ServiceOK'
  <2>1. {<<d, cert[d]>> : d \in {e \in Domains : cert[e] > 0}} \subseteq Domains \X Nat
    <3>1. ASSUME NEW p \in {<<d, cert[d]>> : d \in {e \in Domains : cert[e] > 0}}
          PROVE  p \in Domains \X Nat
      <4>1. PICK d \in Domains : p = <<d, cert[d]>>
        OBVIOUS
      <4> QED
        BY <4>1 DEF CertOK
    <3> QED
      BY <3>1
  <2> QED
    BY <1>22, <2>1 DEF CheckBegins
<1>23. ASSUME CheckNext PROVE ServiceOK'
  <2>1. PICK p \in check.todo : check' = [check EXCEPT !.todo = check.todo \ {p}]
    BY <1>23 DEF CheckNext
  <2>2. check' \in [at : {"none", "start", "loop", "done", "raised"},
                   todo : SUBSET (Domains \X Nat)]
    BY <2>1
  <2>3. UNCHANGED <<op, up, bus>>
    BY <1>23 DEF CheckNext
  <2> QED
    BY <2>2, <2>3
<1>24. ASSUME CheckEnds PROVE ServiceOK'
  BY <1>24 DEF CheckEnds
<1>25. CASE UNCHANGED vars
  BY <1>25 DEF vars
<1> QED
  <2> HIDE DEF ServiceOK, serviceVars, NoOp, NoCheck
  <2> QED
    BY <1>1, <1>2, <1>3, <1>4, <1>5, <1>6, <1>7, <1>8, <1>9, <1>10, <1>11,
     <1>12, <1>13, <1>14, <1>15, <1>16, <1>17, <1>18, <1>19, <1>20,
     <1>21, <1>22, <1>23, <1>24, <1>25
     DEF Next, EventStep, Request, CheckStep, Threads

LEMMA ClockStep == WorkOK /\ [Next]_vars => (clock' >= clock /\ clock \in Nat /\ clock' \in Nat)
<1> SUFFICES ASSUME WorkOK, [Next]_vars PROVE (clock' >= clock /\ clock \in Nat /\ clock' \in Nat)
  OBVIOUS
<1> USE DEF WorkOK, boundVars, certbotVars
<1>1. ASSUME NEW d \in Active, Renew(d) PROVE (clock' >= clock /\ clock \in Nat /\ clock' \in Nat)
  BY <1>1 DEF Renew, Issue
<1>2. ASSUME NEW d \in Active, DeliverHook(d) PROVE (clock' >= clock /\ clock \in Nat /\ clock' \in Nat)
  BY <1>2 DEF DeliverHook
<1>3. ASSUME NEW t \in Threads, HookSkips(t) PROVE (clock' >= clock /\ clock \in Nat /\ clock' \in Nat)
  BY <1>3 DEF HookSkips
<1>4. ASSUME NEW t \in Threads, HookCopies(t) PROVE (clock' >= clock /\ clock \in Nat /\ clock' \in Nat)
  BY <1>4 DEF HookCopies
<1>5. ASSUME NEW t \in Threads, HookSelfSigns(t) PROVE (clock' >= clock /\ clock \in Nat /\ clock' \in Nat)
  BY <1>5 DEF HookSelfSigns
<1>6. ASSUME NEW t \in Threads, HookFails(t) PROVE (clock' >= clock /\ clock \in Nat /\ clock' \in Nat)
  BY <1>6 DEF HookFails
<1>7. ASSUME NEW t \in Threads, SeenRead(t) PROVE (clock' >= clock /\ clock \in Nat /\ clock' \in Nat)
  BY <1>7 DEF SeenRead
<1>8. ASSUME NEW t \in Threads, SeenWrite(t) PROVE (clock' >= clock /\ clock \in Nat /\ clock' \in Nat)
  BY <1>8 DEF SeenWrite
<1>9. ASSUME NEW c \in Late, SetupCopies(c) PROVE (clock' >= clock /\ clock \in Nat /\ clock' \in Nat)
  BY <1>9 DEF SetupCopies
<1>10. ASSUME NEW c \in Late, SetupRecords(c) PROVE (clock' >= clock /\ clock \in Nat /\ clock' \in Nat)
  BY <1>10 DEF SetupRecords
<1>11. ASSUME NEW d \in Active, AddDomain(d) PROVE (clock' >= clock /\ clock \in Nat /\ clock' \in Nat)
  <2>1. UNCHANGED clock
    BY <1>11, Zenon DEF AddDomain
  <2> QED
    BY <2>1
<1>12. ASSUME NEW d \in Active, RemoveDomain(d) PROVE (clock' >= clock /\ clock \in Nat /\ clock' \in Nat)
  BY <1>12 DEF RemoveDomain, BeginOp
<1>13. ASSUME NEW d \in Active, Obtain(d) PROVE (clock' >= clock /\ clock \in Nat /\ clock' \in Nat)
  BY <1>13 DEF Obtain, BeginOp, Issue
<1>14. ASSUME NEW d \in Active, Reobtain(d) PROVE (clock' >= clock /\ clock \in Nat /\ clock' \in Nat)
  BY <1>14 DEF Reobtain, BeginOp, Issue
<1>15. ASSUME NEW d \in Active, Revoke(d) PROVE (clock' >= clock /\ clock \in Nat /\ clock' \in Nat)
  BY <1>15 DEF Revoke, BeginOp
<1>16. ASSUME NEW d \in Active, Delete(d) PROVE (clock' >= clock /\ clock \in Nat /\ clock' \in Nat)
  BY <1>16 DEF Delete, BeginOp
<1>17. ASSUME OnDomainAdded PROVE (clock' >= clock /\ clock \in Nat /\ clock' \in Nat)
  BY <1>17 DEF OnDomainAdded, Issue
<1>18. ASSUME SendEvent PROVE (clock' >= clock /\ clock \in Nat /\ clock' \in Nat)
  BY <1>18 DEF SendEvent
<1>19. ASSUME Stop PROVE (clock' >= clock /\ clock \in Nat /\ clock' \in Nat)
  BY <1>19 DEF Stop
<1>20. ASSUME Start PROVE (clock' >= clock /\ clock \in Nat /\ clock' \in Nat)
  BY <1>20 DEF Start
<1>21. ASSUME BusConnect PROVE (clock' >= clock /\ clock \in Nat /\ clock' \in Nat)
  BY <1>21 DEF BusConnect
<1>22. ASSUME CheckBegins PROVE (clock' >= clock /\ clock \in Nat /\ clock' \in Nat)
  BY <1>22 DEF CheckBegins
<1>23. ASSUME CheckNext PROVE (clock' >= clock /\ clock \in Nat /\ clock' \in Nat)
  BY <1>23 DEF CheckNext
<1>24. ASSUME CheckEnds PROVE (clock' >= clock /\ clock \in Nat /\ clock' \in Nat)
  BY <1>24 DEF CheckEnds
<1>25. CASE UNCHANGED vars
  BY <1>25 DEF vars
<1> QED
  <2> HIDE DEF WorkOK, boundVars, certbotVars
  <2> QED
    BY <1>1, <1>2, <1>3, <1>4, <1>5, <1>6, <1>7, <1>8, <1>9, <1>10, <1>11,
     <1>12, <1>13, <1>14, <1>15, <1>16, <1>17, <1>18, <1>19, <1>20,
     <1>21, <1>22, <1>23, <1>24, <1>25
     DEF Next, EventStep, Request, CheckStep, Threads

LEMMA SeenStep == SeenOK /\ WorkOK /\ CertOK /\ ThreadsOK /\ ServiceOK /\ [Next]_vars => SeenOK'
<1> SUFFICES ASSUME SeenOK, WorkOK, CertOK, ThreadsOK, ServiceOK, [Next]_vars PROVE SeenOK'
  OBVIOUS
<1>0. clock' >= clock /\ clock \in Nat /\ clock' \in Nat
  BY ClockStep
<1>t. thread \in [Threads -> Event] /\ seen \in [Domains -> Nat]
  BY DEF ThreadsOK, SeenOK
<1>u. \A t \in Threads : thread[t].mt \in Nat /\ thread[t].info \in [Domains -> Nat]
  BY DEF ThreadsOK, Event
<1>a. ASSUME UNCHANGED <<seen, thread>> PROVE SeenOK'
  BY <1>0, <1>a, <1>t, <1>u DEF SeenOK
<1>c. ASSUME seen' \in [Domains -> Nat], \A d \in Domains : seen'[d] <= clock,
             NEW t \in Threads, \A s \in Threads : s # t => thread'[s] = thread[s],
             thread'[t].mt \in Nat, thread'[t].mt <= clock,
             \A d \in Domains : thread'[t].info[d] \in Nat /\ thread'[t].info[d] <= clock
      PROVE  SeenOK'
  <2>1. \A d \in Domains : seen'[d] <= clock'
    BY <1>0, <1>c
  <2>2. \A s \in Threads : \A d \in Domains :
            thread'[s].info[d] <= clock' /\ thread'[s].mt <= clock'
    BY <1>0, <1>c, <1>u DEF SeenOK
  <2> QED
    BY <1>c, <2>1, <2>2 DEF SeenOK
<1>b. ASSUME UNCHANGED seen, NEW t \in Threads,
             \A s \in Threads : s # t => thread'[s] = thread[s],
             thread'[t].mt \in {thread[t].mt, 0},
             \A d \in Domains : thread'[t].info[d] \in {thread[t].info[d], 0}
      PROVE  SeenOK'
  BY <1>0, <1>b, <1>c, <1>t, <1>u DEF SeenOK
<1>1. ASSUME NEW d \in Active, Renew(d) PROVE SeenOK'
  BY <1>1, <1>a DEF Renew, Issue, boundVars, certbotVars, historyVars
<1>2. ASSUME NEW d \in Active, DeliverHook(d) PROVE SeenOK'
  <2>1. CASE \E t \in Pool : StartEvent(t, "renewed", d)
    <3>1. PICK t \in Threads : StartEvent(t, "renewed", d)
      BY <2>1 DEF Threads
    <3>2. "renewed" \in Events /\ d \in Domains /\ UNCHANGED seen
      BY <1>2, Assumed DEF Events, Bringing, DeliverHook
    <3> QED
      BY <1>b, <3>1, <3>2, Begins DEF ThreadsOK
  <2>2. CASE UNCHANGED thread
    BY <1>2, <1>a, <2>2 DEF DeliverHook
  <2> QED
    BY <1>2, <2>1, <2>2 DEF DeliverHook
<1>3. ASSUME NEW t \in Threads, HookSkips(t) PROVE SeenOK'
  <2>1. HookNext(t) /\ thread[t].at = "hooks" /\ UNCHANGED seen
    BY <1>3 DEF HookSkips
  <2> QED
    BY <1>b, <2>1, Advance DEF ThreadsOK
<1>4. ASSUME NEW t \in Threads, HookCopies(t) PROVE SeenOK'
  <2>1. HookNext(t) /\ thread[t].at = "hooks" /\ UNCHANGED seen
    BY <1>4 DEF HookCopies
  <2> QED
    BY <1>b, <2>1, Advance DEF ThreadsOK
<1>5. ASSUME NEW t \in Threads, HookSelfSigns(t) PROVE SeenOK'
  <2>1. HookNext(t) /\ thread[t].at = "hooks" /\ UNCHANGED seen
    BY <1>5 DEF HookSelfSigns
  <2> QED
    BY <1>b, <2>1, Advance DEF ThreadsOK
<1>6. ASSUME NEW t \in Threads, HookFails(t) PROVE SeenOK'
  <2>1. HookNext(t) /\ thread[t].at = "hooks" /\ UNCHANGED seen
    BY <1>6 DEF HookFails
  <2> QED
    BY <1>b, <2>1, Advance DEF ThreadsOK
<1>7. ASSUME NEW t \in Threads, SeenRead(t) PROVE SeenOK'
  <2>1. thread[t] \in Event /\ thread[t].d \in Domains /\ UNCHANGED seen
    BY <1>7 DEF SeenRead, ThreadsOK
  <2>2. CASE thread' = [thread EXCEPT ![t] = Free]
    BY <1>b, <2>1, <2>2, FreeEvent DEF ThreadsOK
  <2>3. CASE thread' = [thread EXCEPT ![t].at = "write", ![t].mt = cert[thread[t].d],
                                      ![t].info = seen]
    <3>1. thread'[t].mt = cert[thread[t].d] /\ thread'[t].info = seen
      BY <2>1, <2>3 DEF ThreadsOK, Event
    <3>2. \A s \in Threads : s # t => thread'[s] = thread[s]
      BY <2>3 DEF ThreadsOK
    <3> QED
      BY <1>c, <2>1, <3>1, <3>2 DEF SeenOK, CertOK
  <2> QED
    BY <1>7, <2>2, <2>3 DEF SeenRead
<1>8. ASSUME NEW t \in Threads, SeenWrite(t) PROVE SeenOK'
  <2>1. /\ thread' = [thread EXCEPT ![t] = Free]
        /\ seen' = [thread[t].info EXCEPT ![thread[t].d] = thread[t].mt]
    BY <1>8 DEF SeenWrite
  <2>2. thread[t].info \in [Domains -> Nat] /\ thread[t].mt \in Nat
    BY DEF ThreadsOK, Event
  <2>3. seen' \in [Domains -> Nat] /\ \A d \in Domains : seen'[d] <= clock
    BY <2>1, <2>2 DEF SeenOK
  <2>4. \A s \in Threads : s # t => thread'[s] = thread[s]
    BY <2>1 DEF ThreadsOK
  <2>5. thread'[t] = Free
    BY <2>1 DEF ThreadsOK
  <2> QED
    BY <1>c, <2>3, <2>4, <2>5, FreeEvent, ClockStep
<1>9. ASSUME NEW c \in Late, SetupCopies(c) PROVE SeenOK'
  BY <1>9, <1>a DEF SetupCopies, boundVars, certbotVars, historyVars
<1>10. ASSUME NEW c \in Late, SetupRecords(c) PROVE SeenOK'
  BY <1>10, <1>a DEF SetupRecords, boundVars, certbotVars, historyVars
<1>11. ASSUME NEW d \in Active, AddDomain(d) PROVE SeenOK'
  BY <1>11, <1>a DEF AddDomain, BeginOp, boundVars, certbotVars, historyVars
<1>12. ASSUME NEW d \in Active, RemoveDomain(d) PROVE SeenOK'
  BY <1>12, <1>a DEF RemoveDomain, BeginOp, boundVars, certbotVars, historyVars
<1>13. ASSUME NEW d \in Active, Obtain(d) PROVE SeenOK'
  BY <1>13, <1>a DEF Obtain, BeginOp, Issue, boundVars, certbotVars, historyVars
<1>14. ASSUME NEW d \in Active, Reobtain(d) PROVE SeenOK'
  BY <1>14, <1>a DEF Reobtain, BeginOp, Issue, boundVars, certbotVars, historyVars
<1>15. ASSUME NEW d \in Active, Revoke(d) PROVE SeenOK'
  BY <1>15, <1>a DEF Revoke, BeginOp, boundVars, certbotVars, historyVars
<1>16. ASSUME NEW d \in Active, Delete(d) PROVE SeenOK'
  BY <1>16, <1>a DEF Delete, BeginOp, boundVars, certbotVars, historyVars
<1>17. ASSUME OnDomainAdded PROVE SeenOK'
  BY <1>17, <1>a DEF OnDomainAdded, Issue, boundVars, certbotVars, historyVars
<1>18. ASSUME SendEvent PROVE SeenOK'
  <2>1. op.ev \in Events /\ op.d \in Domains /\ UNCHANGED seen
    BY <1>18 DEF SendEvent, ServiceOK
  <2>2. PICK t \in Threads : StartEvent(t, op.ev, op.d)
    BY <1>18 DEF SendEvent, Threads
  <2> QED
    BY <1>b, <2>1, <2>2, Begins DEF ThreadsOK
<1>19. ASSUME Stop PROVE SeenOK'
  <2>1. thread' = [s \in Threads |-> Free] /\ UNCHANGED seen
    BY <1>19 DEF Stop, ThreadsOK
  <2>2. \A s \in Threads : thread'[s] = Free
    BY <2>1
  <2> QED
    BY <1>0, <2>1, <2>2, FreeEvent DEF SeenOK
<1>20. ASSUME Start PROVE SeenOK'
  BY <1>20, <1>a DEF Start, boundVars, certbotVars, historyVars
<1>21. ASSUME BusConnect PROVE SeenOK'
  BY <1>21, <1>a DEF BusConnect, boundVars, certbotVars, historyVars
<1>22. ASSUME CheckBegins PROVE SeenOK'
  BY <1>22, <1>a DEF CheckBegins, boundVars, certbotVars, historyVars
<1>23. ASSUME CheckNext PROVE SeenOK'
  <2>1. PICK p \in check.todo : IF Unseen(p) THEN StartEvent(Main, "renewed", p[1])
                                ELSE UNCHANGED thread
    BY <1>23 DEF CheckNext
  <2>2. p[1] \in Domains /\ UNCHANGED seen /\ "renewed" \in Events /\ Main \in Threads
    BY <1>23 DEF ServiceOK, CheckNext, Events, Bringing, Threads
  <2>3. CASE Unseen(p)
    BY <1>b, <2>1, <2>2, <2>3, Begins DEF ThreadsOK
  <2>4. CASE UNCHANGED thread
    BY <1>a, <2>2, <2>4
  <2> QED
    BY <2>1, <2>3, <2>4
<1>24. ASSUME CheckEnds PROVE SeenOK'
  BY <1>24, <1>a DEF CheckEnds, boundVars, certbotVars, historyVars
<1>25. CASE UNCHANGED vars
  BY <1>25, <1>a DEF vars
<1> QED
  BY <1>1, <1>2, <1>3, <1>4, <1>5, <1>6, <1>7, <1>8, <1>9, <1>10, <1>11,
     <1>12, <1>13, <1>14, <1>15, <1>16, <1>17, <1>18, <1>19, <1>20,
     <1>21, <1>22, <1>23, <1>24, <1>25
     DEF Next, EventStep, Request, CheckStep, Threads

LEMMA AppsStep == AppsOK /\ WorkOK /\ CertOK /\ ThreadsOK /\ [Next]_vars => AppsOK'
<1> SUFFICES ASSUME AppsOK, WorkOK, CertOK, ThreadsOK, [Next]_vars PROVE AppsOK'
  OBVIOUS
<1>0. clock' >= clock /\ clock \in Nat /\ clock' \in Nat
  BY ClockStep
<1>a. ASSUME UNCHANGED <<domains, copy, setupOf, excused, kept>> PROVE AppsOK'
  BY <1>0, <1>a DEF AppsOK
<1>b. ASSUME UNCHANGED <<domains, copy, setupOf>>,
             excused' \subseteq Components \X Domains,
             kept' \subseteq Components \X Domains
      PROVE  AppsOK'
  BY <1>0, <1>b DEF AppsOK
<1>m. \A d \in Domains : Missed(d) \subseteq Components \X Domains
  BY DEF Missed, Pairs
<1>h. ASSUME NEW t \in Threads, thread[t].at = "hooks"
      PROVE  Comps[thread[t].idx] \in Components /\ thread[t].d \in Domains
  BY <1>h DEF ThreadsOK, Components
<1>1. ASSUME NEW d \in Active, Renew(d) PROVE AppsOK'
  BY <1>1, <1>a DEF Renew, Issue, boundVars
<1>2. ASSUME NEW d \in Active, DeliverHook(d) PROVE AppsOK'
  BY <1>2, <1>b, <1>m, Assumed DEF AppsOK, DeliverHook, historyVars
<1>3. ASSUME NEW t \in Threads, HookSkips(t) PROVE AppsOK'
  <2>1. Comps[thread[t].idx] \in Components /\ thread[t].d \in Domains
    BY <1>3, <1>h DEF HookSkips
  <2> QED
    BY <1>3, <1>b, <2>1 DEF HookSkips, AppsOK
<1>4. ASSUME NEW t \in Threads, HookCopies(t) PROVE AppsOK'
  <2>1. Comps[thread[t].idx] \in Components /\ thread[t].d \in Domains
    BY <1>4, <1>h DEF HookCopies
  <2>2. /\ UNCHANGED <<domains, setupOf>>
        /\ copy' = [copy EXCEPT ![Comps[thread[t].idx]][thread[t].d] = cert[thread[t].d]]
    BY <1>4 DEF HookCopies
  <2>3. /\ excused' \subseteq Components \X Domains
        /\ kept' \subseteq Components \X Domains
    BY <1>4, <2>1 DEF HookCopies, AppsOK
  <2> QED
    BY <1>0, <2>1, <2>2, <2>3 DEF AppsOK, CertOK
<1>5. ASSUME NEW t \in Threads, HookSelfSigns(t) PROVE AppsOK'
  <2>1. Comps[thread[t].idx] \in Components /\ thread[t].d \in Domains
    BY <1>5, <1>h DEF HookSelfSigns
  <2>2. /\ UNCHANGED <<domains, setupOf>>
        /\ copy' = [copy EXCEPT ![Comps[thread[t].idx]][thread[t].d] = 0]
    BY <1>5 DEF HookSelfSigns
  <2>3. /\ excused' \subseteq Components \X Domains
        /\ kept' \subseteq Components \X Domains
    BY <1>5, <2>1 DEF HookSelfSigns, AppsOK
  <2> QED
    BY <1>0, <2>1, <2>2, <2>3 DEF AppsOK, CertOK
<1>6. ASSUME NEW t \in Threads, HookFails(t) PROVE AppsOK'
  <2>1. Comps[thread[t].idx] \in Components /\ thread[t].d \in Domains
    BY <1>6, <1>h DEF HookFails
  <2>2. /\ excused' \subseteq Components \X Domains
        /\ kept' \subseteq Components \X Domains
    BY <1>6, <2>1 DEF HookFails, AppsOK
  <2>3. UNCHANGED <<domains, copy, setupOf>>
    BY <1>6 DEF HookFails
  <2> QED
    BY <1>b, <2>2, <2>3
<1>7. ASSUME NEW t \in Threads, SeenRead(t) PROVE AppsOK'
  BY <1>7, <1>a DEF SeenRead, boundVars, certbotVars, historyVars
<1>8. ASSUME NEW t \in Threads, SeenWrite(t) PROVE AppsOK'
  BY <1>8, <1>a DEF SeenWrite, boundVars, certbotVars, historyVars
<1>9. ASSUME NEW c \in Late, SetupCopies(c) PROVE AppsOK'
  <2>1. c \in Components
    BY Assumed
  <2>2. copy'[c] \in [Domains -> Nat] /\ \A d \in Domains : copy'[c][d] <= clock
    BY <1>9, <2>1 DEF SetupCopies, AppsOK, CertOK
  <2>3. copy' \in [Components -> [Domains -> Nat]]
    BY <1>9, <2>1, <2>2 DEF SetupCopies, AppsOK
  <2>4. \A b \in Components : b # c => copy'[b] = copy[b]
    BY <1>9 DEF SetupCopies, AppsOK
  <2>5. /\ excused' \subseteq Components \X Domains
        /\ kept' \subseteq Components \X Domains
    BY <1>9, <2>1 DEF SetupCopies, AppsOK
  <2>6. UNCHANGED <<domains, clock>>
        /\ setupOf' \in [Components -> {"needed", "copied", "done"}]
    BY <1>9 DEF SetupCopies, AppsOK, certbotVars
  <2> QED
    BY <2>2, <2>3, <2>4, <2>5, <2>6 DEF AppsOK
<1>10. ASSUME NEW c \in Late, SetupRecords(c) PROVE AppsOK'
  <2>1. UNCHANGED <<domains, copy, excused, kept>>
    BY <1>10 DEF SetupRecords, historyVars
  <2>2. setupOf' \in [Components -> {"needed", "copied", "done"}]
    BY <1>10 DEF SetupRecords, AppsOK
  <2> QED
    BY <1>0, <2>1, <2>2 DEF AppsOK
<1>11. ASSUME NEW d \in Active, AddDomain(d) PROVE AppsOK'
  <2>1. UNCHANGED <<copy, setupOf, excused, kept>>
    BY <1>11 DEF AddDomain, historyVars
  <2>2. domains' \subseteq Domains
    BY <1>11, Assumed DEF AddDomain, AppsOK
  <2> QED
    BY <1>0, <2>1, <2>2 DEF AppsOK
<1>12. ASSUME NEW d \in Active, RemoveDomain(d) PROVE AppsOK'
  <2>1. UNCHANGED <<copy, setupOf, excused, kept>>
    BY <1>12 DEF RemoveDomain, historyVars
  <2>2. domains' \subseteq Domains
    BY <1>12, Assumed DEF RemoveDomain, AppsOK
  <2> QED
    BY <1>0, <2>1, <2>2 DEF AppsOK
<1>13. ASSUME NEW d \in Active, Obtain(d) PROVE AppsOK'
  BY <1>13, <1>a DEF Obtain, BeginOp, Issue, boundVars
<1>14. ASSUME NEW d \in Active, Reobtain(d) PROVE AppsOK'
  BY <1>14, <1>a DEF Reobtain, BeginOp, Issue, boundVars
<1>15. ASSUME NEW d \in Active, Revoke(d) PROVE AppsOK'
  BY <1>15, <1>a DEF Revoke, BeginOp, boundVars, certbotVars, historyVars
<1>16. ASSUME NEW d \in Active, Delete(d) PROVE AppsOK'
  BY <1>16, <1>a DEF Delete, BeginOp, boundVars, certbotVars, historyVars
<1>17. ASSUME OnDomainAdded PROVE AppsOK'
  BY <1>17, <1>a DEF OnDomainAdded, Issue, boundVars, historyVars
<1>18. ASSUME SendEvent PROVE AppsOK'
  BY <1>18, <1>a DEF SendEvent, boundVars, certbotVars, historyVars
<1>19. ASSUME Stop PROVE AppsOK'
  <2>1. /\ UNCHANGED <<domains, copy>>
        /\ setupOf' \in [Components -> {"needed", "copied", "done"}]
    BY <1>19 DEF Stop, AppsOK
  <2>2. excused' \subseteq Components \X Domains
    BY <1>19, <1>m DEF Stop, AppsOK
  <2>3. kept' \subseteq Components \X Domains
    BY <1>19 DEF Stop, AppsOK, Pairs
  <2> QED
    BY <1>0, <2>1, <2>2, <2>3 DEF AppsOK
<1>20. ASSUME Start PROVE AppsOK'
  BY <1>20, <1>a DEF Start, boundVars, certbotVars, historyVars
<1>21. ASSUME BusConnect PROVE AppsOK'
  BY <1>21, <1>a DEF BusConnect, boundVars, certbotVars, historyVars
<1>22. ASSUME CheckBegins PROVE AppsOK'
  BY <1>22, <1>a DEF CheckBegins, boundVars, certbotVars, historyVars
<1>23. ASSUME CheckNext PROVE AppsOK'
  BY <1>23, <1>a DEF CheckNext, boundVars, certbotVars, historyVars
<1>24. ASSUME CheckEnds PROVE AppsOK'
  BY <1>24, <1>a DEF CheckEnds, boundVars, certbotVars, historyVars
<1>25. CASE UNCHANGED vars
  BY <1>25, <1>a DEF vars, historyVars
<1> QED
  BY <1>1, <1>2, <1>3, <1>4, <1>5, <1>6, <1>7, <1>8, <1>9, <1>10, <1>11,
     <1>12, <1>13, <1>14, <1>15, <1>16, <1>17, <1>18, <1>19, <1>20,
     <1>21, <1>22, <1>23, <1>24, <1>25
     DEF Next, EventStep, Request, CheckStep, Threads

LEMMA TypedInit == Init => Typed
<1> SUFFICES ASSUME Init PROVE Typed
  OBVIOUS
<1>1. WorkOK
  BY Assumed DEF Init, WorkOK
<1>2. CertOK
  <2>1. cert \in [Domains -> {0, 1}] /\ clock = 1 /\ hooks = {}
    BY DEF Init
  <2>2. valid = [d \in Domains |-> cert[d] = 1]
    BY DEF Init
  <2>3. \A d \in Domains : valid[d] = (cert[d] = 1)
    BY <2>2
  <2>4. valid \in [Domains -> BOOLEAN]
    BY <2>2
  <2>5. \A d \in Domains : valid[d] => cert[d] > 0
    <3>1. \A d \in Domains : valid[d] => cert[d] = 1
      BY <2>3, Zenon
    <3> QED
      BY <3>1
  <2>6. cert \in [Domains -> Nat] /\ \A d \in Domains : cert[d] <= clock
    BY <2>1
  <2> QED
    BY <2>1, <2>4, <2>5, <2>6 DEF CertOK
<1>3. SeenOK
  <2>1. seen \in [Domains -> {0, 1}] /\ clock = 1 /\ thread = [t \in Threads |-> Free]
    BY DEF Init, Threads
  <2> QED
    BY <2>1, FreeEvent DEF SeenOK
<1>4. ThreadsOK
  <2>1. thread = [t \in Threads |-> Free]
    BY DEF Init, Threads
  <2> QED
    BY <2>1, FreeEvent DEF ThreadsOK
<1>5. AppsOK
  <2>1. /\ domains \subseteq Domains /\ kept = {} /\ clock = 1
        /\ excused \subseteq Components \X Domains
        /\ setupOf \in [Components -> {"needed", "copied", "done"}]
    BY DEF Init
  <2>2. seen \in [Domains -> {0, 1}]
    BY DEF Init
  <2>3. copy = [c \in Components |-> [d \in Domains |->
                  IF c \notin Late /\ d \in domains \cap Interest[c] THEN seen[d] ELSE 0]]
    BY DEF Init
  <2>4. \A c \in Components : \A d \in Domains : copy[c][d] \in {0, 1}
    BY <2>2, <2>3
  <2>5. copy \in [Components -> [Domains -> Nat]]
    BY <2>2, <2>3
  <2> QED
    BY <2>1, <2>4, <2>5 DEF AppsOK
<1>6. ServiceOK
  BY DEF Init, ServiceOK, NoCheck, NoOp
<1> QED
  BY <1>1, <1>2, <1>3, <1>4, <1>5, <1>6 DEF Typed

LEMMA TypedStep == Typed /\ [Next]_vars => Typed'
  BY WorkStep, CertStep, AppsStep, SeenStep, ThreadsStep, ServiceStep DEF Typed

(* Every variable keeps its type; a certificate called valid has its files, *)
(* a thread that records is one of a new certificate, and the service has   *)
(* its name on D-Bus only while it runs (letsencrypt/__init__.py).          *)
THEOREM TypeCorrect == Spec => []TypeOK
<1>1. Typed => TypeOK
  <2> SUFFICES ASSUME Typed PROVE TypeOK
    OBVIOUS
  <2>1. cert \in [Domains -> 0..clock] /\ seen \in [Domains -> 0..clock]
    BY DEF Typed, WorkOK, CertOK, SeenOK
  <2>2. copy \in [Components -> [Domains -> 0..clock]]
    BY DEF Typed, WorkOK, AppsOK
  <2>3. \A t \in Pool \cup {Main} :
          /\ thread[t].at \in {"none", "hooks", "mtime", "write"}
          /\ thread[t].at # "none" => thread[t].ev \in Bringing \cup Taking
          /\ thread[t].at \in {"mtime", "write"} => thread[t].ev \in Bringing
    BY DEF Typed, ThreadsOK, Threads, Event, Events
  <2>4. /\ check.at \in {"none", "start", "loop", "done", "raised"}
        /\ op.at \in {"idle", "added", "event"}
    BY DEF Typed, ServiceOK
  <2>5. up \in BOOLEAN /\ bus \in BOOLEAN /\ (bus => up)
    BY Zenon DEF Typed, ServiceOK
  <2> QED
    BY <2>1, <2>2, <2>3, <2>4, <2>5, Zenon DEF TypeOK, Typed, WorkOK, CertOK, AppsOK
<1> QED
  BY <1>1, TypedInit, TypedStep, PTL DEF Spec

-----------------------------------------------------------------------------
(* Events on their way.                                                    *)

(* A thread that advances only leaves its own component behind.            *)
LEMMA ReachesAdvance ==
    ASSUME ThreadsOK, NEW t \in Threads, thread[t].at = "hooks", HookNext(t), op' = op,
           NEW i \in DOMAIN Comps, NEW d \in Domains, NEW events, Reaches(i, d, events)
    PROVE  \/ Reaches(i, d, events)'
           \/ thread[t].idx = i /\ thread[t].d = d /\ thread[t].ev \in events
<1>1. CASE op.at = "event" /\ op.ev \in events /\ op.d = d
  BY <1>1 DEF Reaches
<1>2. ASSUME NEW s \in Threads, thread[s].at = "hooks", thread[s].ev \in events,
             thread[s].d = d, thread[s].idx <= i
      PROVE  \/ Reaches(i, d, events)'
             \/ thread[t].idx = i /\ thread[t].d = d /\ thread[t].ev \in events
  <2>1. CASE s # t
    <3>1. thread'[s] = thread[s]
      BY <2>1, Advance DEF ThreadsOK
    <3> QED
      BY <1>2, <3>1 DEF Reaches, Threads
  <2>2. CASE s = t /\ thread[t].idx # i
    <3>1. thread[t].idx < i /\ thread[t].idx # Len(Comps)
      BY <1>2, <2>2, Assumed DEF ThreadsOK
    <3>2. /\ thread'[t].at = "hooks" /\ thread'[t].idx = thread[t].idx + 1
          /\ thread'[t].ev = thread[t].ev /\ thread'[t].d = thread[t].d
      BY <3>1, Advance
    <3>3. thread'[t].idx <= i
      BY <3>1, <3>2, Assumed DEF ThreadsOK
    <3> QED
      BY <1>2, <2>2, <3>2, <3>3 DEF Reaches, Threads
  <2> QED
    BY <1>2, <2>1, <2>2
<1> QED
  BY <1>1, <1>2 DEF Reaches, Threads

(* The start of an event, by a request whose event it is or by another.    *)
LEMMA ReachesBegins ==
    ASSUME ThreadsOK, NEW t \in Threads, NEW ev \in Events, NEW e \in Domains,
           StartEvent(t, ev, e),
           op' = op \/ (op.ev = ev /\ op.d = e),
           NEW i \in DOMAIN Comps, NEW d \in Domains, NEW events, Reaches(i, d, events)
    PROVE  Reaches(i, d, events)'
<1>1. /\ thread'[t].at = "hooks" /\ thread'[t].ev = ev /\ thread'[t].d = e
      /\ thread'[t].idx <= i /\ thread[t].at = "none"
  BY Begins, Assumed
<1>2. \A s \in Threads : s # t => thread'[s] = thread[s]
  BY Begins DEF ThreadsOK
<1>3. CASE op.at = "event" /\ op.ev \in events /\ op.d = d
  BY <1>1, <1>3 DEF Reaches, Threads
<1>4. ASSUME NEW s \in Threads, thread[s].at = "hooks", thread[s].ev \in events,
             thread[s].d = d, thread[s].idx <= i
      PROVE  Reaches(i, d, events)'
  <2>1. thread'[s] = thread[s]
    BY <1>1, <1>2, <1>4
  <2> QED
    BY <1>4, <2>1 DEF Reaches, Threads
<1> QED
  BY <1>3, <1>4 DEF Reaches, Threads

(* Steps that are not in the middle of an event.                           *)
LEMMA ReachesStays ==
    ASSUME NEW i \in DOMAIN Comps, NEW d \in Domains, NEW events, Reaches(i, d, events),
           op' = op \/ op.at # "event",
           \A s \in Threads : thread[s].at = "hooks" => thread'[s] = thread[s]
    PROVE  Reaches(i, d, events)'
<1>1. CASE op.at = "event" /\ op.ev \in events /\ op.d = d
  BY <1>1 DEF Reaches
<1>2. ASSUME NEW s \in Threads, thread[s].at = "hooks", thread[s].ev \in events,
             thread[s].d = d, thread[s].idx <= i
      PROVE  Reaches(i, d, events)'
  BY <1>2 DEF Reaches, Threads
<1> QED
  BY <1>1, <1>2 DEF Reaches, Threads

(* The thread of an event records and ends.                                *)
LEMMA Recording ==
    ASSUME ThreadsOK, NEW t \in Threads, SeenRead(t) \/ SeenWrite(t)
    PROVE  \A s \in Threads : thread[s].at = "hooks" => thread'[s] = thread[s]
  BY DEF ThreadsOK, SeenRead, SeenWrite

-----------------------------------------------------------------------------
(* Revoked certificates.                                                   *)

LEMMA RevokedInvStep == Typed /\ RevokedInv /\ [Next]_vars => RevokedInv'
<1> SUFFICES ASSUME Typed, RevokedInv, [Next]_vars,
                    NEW i \in DOMAIN Comps, NEW e \in Domains, Revoked(i, e)'
             PROVE  Withdrawn(i, e)'
  BY DEF RevokedInv
<1>u. /\ Comps[i] \in Components
      /\ copy \in [Components -> [Domains -> Nat]]
      /\ valid \in [Domains -> BOOLEAN]
      /\ setupOf \in [Components -> {"needed", "copied", "done"}]
  BY DEF Components, Typed, AppsOK, CertOK
<1>v. ~valid'[e]
  BY DEF Revoked
<1>w. Revoked(i, e) => Withdrawn(i, e)
  BY DEF RevokedInv
<1>s. ASSUME op' = op \/ op.at # "event",
             \A s \in Threads : thread[s].at = "hooks" => thread'[s] = thread[s],
             Reaches(i, e, Taking)
      PROVE  Reaches(i, e, Taking)'
  BY <1>s, ReachesStays
<1>a. ASSUME UNCHANGED <<valid, copy, setupOf>>, kept \subseteq kept',
             op' = op \/ op.at # "event",
             \A s \in Threads : thread[s].at = "hooks" => thread'[s] = thread[s]
      PROVE  Withdrawn(i, e)'
  <2>1. Revoked(i, e)
    BY <1>a DEF Revoked, SetUp
  <2> QED
    BY <1>a, <1>s, <1>w, <2>1 DEF Withdrawn
<1>1. ASSUME NEW d \in Active, Renew(d) PROVE Withdrawn(i, e)'
  <2>1. /\ valid' = [valid EXCEPT ![d] = TRUE]
        /\ UNCHANGED <<copy, setupOf, thread, kept>>
        /\ op' = op \/ op.at # "event"
    BY <1>1 DEF Renew, Issue, historyVars, NoOp
  <2>2. e # d /\ Revoked(i, e)
    BY <2>1, <1>v, <1>u DEF Revoked, SetUp
  <2> QED
    BY <1>w, <1>s, <2>1, <2>2 DEF Withdrawn
<1>2. ASSUME NEW d \in Active, DeliverHook(d) PROVE Withdrawn(i, e)'
  <2>1. UNCHANGED <<valid, copy, setupOf, op, kept>>
    BY <1>2 DEF DeliverHook, historyVars
  <2>2. CASE \E t \in Pool : StartEvent(t, "renewed", d)
    <3>1. PICK t \in Threads : StartEvent(t, "renewed", d)
      BY <2>2 DEF Threads
    <3>2. "renewed" \in Events /\ d \in Domains
      BY Assumed DEF Events, Bringing
    <3>3. Revoked(i, e)
      BY <2>1 DEF Revoked, SetUp
    <3> QED
      BY <1>w, <2>1, <3>1, <3>2, <3>3, ReachesBegins DEF Typed, Withdrawn
  <2>3. CASE UNCHANGED thread
    BY <1>a, <2>1, <2>3
  <2> QED
    BY <1>2, <2>2, <2>3 DEF DeliverHook
<1>3. ASSUME NEW t \in Threads, HookSkips(t) PROVE Withdrawn(i, e)'
  <2>1. /\ UNCHANGED <<valid, copy, setupOf, op>> /\ kept \subseteq kept'
        /\ thread[t].at = "hooks" /\ HookNext(t)
    BY <1>3 DEF HookSkips, certbotVars
  <2>2. Revoked(i, e)
    BY <2>1 DEF Revoked, SetUp
  <2>3. CASE thread[t].idx = i /\ thread[t].d = e
    <3>1. setupOf[Comps[i]] = "copied"
      BY <1>3, <1>u, <2>2, <2>3 DEF HookSkips, Revoked, SetUp
    <3> QED
      BY <1>3, <2>3, <3>1 DEF HookSkips, Withdrawn
  <2>4. CASE ~(thread[t].idx = i /\ thread[t].d = e)
    BY <1>w, <2>1, <2>2, <2>4, ReachesAdvance DEF Typed, Withdrawn
  <2> QED
    BY <2>3, <2>4
<1>4. ASSUME NEW t \in Threads, HookCopies(t) PROVE Withdrawn(i, e)'
  <2> DEFINE c == Comps[thread[t].idx]
  <2>1. /\ UNCHANGED <<valid, setupOf, op>> /\ thread[t].at = "hooks" /\ HookNext(t)
        /\ copy' = [copy EXCEPT ![c][thread[t].d] = cert[thread[t].d]]
        /\ kept' = IF valid[thread[t].d] THEN kept \ {<<c, thread[t].d>>}
                   ELSE kept \cup {<<c, thread[t].d>>}
        /\ thread[t].ev \in Bringing
    BY <1>4 DEF HookCopies, certbotVars
  <2>2. CASE Comps[i] = c /\ e = thread[t].d
    BY <2>1, <2>2 DEF Revoked, Withdrawn
  <2>3. CASE ~(Comps[i] = c /\ e = thread[t].d)
    <3>1. Revoked(i, e)
      BY <2>1, <2>3, <1>u DEF Revoked, SetUp
    <3>2. <<Comps[i], e>> \in kept => <<Comps[i], e>> \in kept'
      BY <2>1, <2>3
    <3>3. thread[t].ev \notin Taking
      BY <2>1 DEF Bringing, Taking
    <3> QED
      BY <1>w, <2>1, <3>1, <3>2, <3>3, ReachesAdvance DEF Typed, Withdrawn
  <2> QED
    BY <2>2, <2>3
<1>5. ASSUME NEW t \in Threads, HookSelfSigns(t) PROVE Withdrawn(i, e)'
  <2> DEFINE c == Comps[thread[t].idx]
  <2>1. /\ UNCHANGED <<valid, setupOf, op>> /\ thread[t].at = "hooks" /\ HookNext(t)
        /\ copy' = [copy EXCEPT ![c][thread[t].d] = 0]
        /\ kept' = kept \ {<<c, thread[t].d>>}
    BY <1>5 DEF HookSelfSigns, certbotVars
  <2>2. ~(Comps[i] = c /\ e = thread[t].d)
    BY <2>1, <1>u DEF Revoked
  <2>3. Revoked(i, e)
    BY <2>1, <2>2, <1>u DEF Revoked, SetUp
  <2>4. <<Comps[i], e>> \in kept => <<Comps[i], e>> \in kept'
    BY <2>1, <2>2
  <2> QED
    BY <1>w, <2>1, <2>2, <2>3, <2>4, ReachesAdvance DEF Typed, Withdrawn
<1>6. ASSUME NEW t \in Threads, HookFails(t) PROVE Withdrawn(i, e)'
  <2>1. /\ UNCHANGED <<valid, copy, setupOf, op>> /\ kept \subseteq kept'
        /\ thread[t].at = "hooks" /\ HookNext(t)
    BY <1>6 DEF HookFails, certbotVars
  <2>2. Revoked(i, e)
    BY <2>1 DEF Revoked, SetUp
  <2>3. CASE thread[t].idx = i /\ thread[t].d = e /\ thread[t].ev \in Taking
    <3>1. thread[t].ev \notin Bringing
      BY <2>3 DEF Bringing, Taking
    <3> QED
      BY <1>6, <2>3, <3>1 DEF HookFails, Withdrawn
  <2>4. CASE ~(thread[t].idx = i /\ thread[t].d = e /\ thread[t].ev \in Taking)
    BY <1>w, <2>1, <2>2, <2>4, ReachesAdvance DEF Typed, Withdrawn
  <2> QED
    BY <2>3, <2>4
<1>7. ASSUME NEW t \in Threads, SeenRead(t) PROVE Withdrawn(i, e)'
  <2>1. UNCHANGED <<valid, copy, setupOf, op, kept>>
    BY <1>7 DEF SeenRead, certbotVars, historyVars
  <2> QED
    BY <1>7, <1>a, <2>1, Recording DEF Typed
<1>8. ASSUME NEW t \in Threads, SeenWrite(t) PROVE Withdrawn(i, e)'
  <2>1. UNCHANGED <<valid, copy, setupOf, op, kept>>
    BY <1>8 DEF SeenWrite, certbotVars, historyVars
  <2> QED
    BY <1>8, <1>a, <2>1, Recording DEF Typed
<1>9. ASSUME NEW c \in Late, SetupCopies(c) PROVE Withdrawn(i, e)'
  <2>1. UNCHANGED <<valid, thread, op>> /\ kept \subseteq kept'
    BY <1>9 DEF SetupCopies, certbotVars
  <2>2. CASE Comps[i] = c
    BY <1>9, <2>1, <2>2 DEF SetupCopies, Revoked, Withdrawn
  <2>3. CASE Comps[i] # c
    <3>1. Revoked(i, e)
      BY <1>9, <1>u, <2>1, <2>3 DEF SetupCopies, Revoked, SetUp
    <3> QED
      BY <1>w, <1>s, <2>1, <3>1 DEF Withdrawn
  <2> QED
    BY <2>2, <2>3
<1>10. ASSUME NEW c \in Late, SetupRecords(c) PROVE Withdrawn(i, e)'
  <2>1. UNCHANGED <<valid, copy, thread, op, kept>>
    BY <1>10 DEF SetupRecords, certbotVars, historyVars
  <2>2. Revoked(i, e)
    BY <1>10, <1>u, <2>1 DEF SetupRecords, Revoked, SetUp
  <2> QED
    BY <1>w, <1>s, <2>1, <2>2 DEF Withdrawn
<1>11. ASSUME NEW d \in Active, AddDomain(d) PROVE Withdrawn(i, e)'
  <2>1. UNCHANGED <<valid, copy, setupOf, thread, kept>> /\ op.at # "event"
    BY <1>11 DEF AddDomain, BeginOp, NoOp, certbotVars, historyVars
  <2> QED
    BY <1>a, <2>1
<1>12. ASSUME NEW d \in Active, RemoveDomain(d) PROVE Withdrawn(i, e)'
  <2>1. /\ UNCHANGED <<copy, setupOf, thread, kept>> /\ op.at # "event"
        /\ valid' = valid \/ valid' = [valid EXCEPT ![d] = FALSE]
        /\ op'.at = "event" /\ op'.ev \in Taking /\ op'.d = d
    BY <1>12 DEF RemoveDomain, BeginOp, Then, Taking, NoOp, historyVars, certbotVars
  <2>2. CASE e = d
    BY <2>1, <2>2 DEF Withdrawn, Reaches
  <2>3. CASE e # d
    <3>1. Revoked(i, e)
      BY <2>1, <2>3, <1>u DEF Revoked, SetUp
    <3> QED
      BY <1>w, <1>s, <2>1, <3>1 DEF Withdrawn
  <2> QED
    BY <2>2, <2>3
<1>13. ASSUME NEW d \in Active, Obtain(d) PROVE Withdrawn(i, e)'
  <2>1. /\ valid' = [valid EXCEPT ![d] = TRUE]
        /\ UNCHANGED <<copy, setupOf, thread, kept>>
        /\ op' = op \/ op.at # "event"
    BY <1>13 DEF Obtain, BeginOp, Issue, historyVars, NoOp
  <2>2. e # d /\ Revoked(i, e)
    BY <2>1, <1>v, <1>u DEF Revoked, SetUp
  <2> QED
    BY <1>w, <1>s, <2>1, <2>2 DEF Withdrawn
<1>14. ASSUME NEW d \in Active, Reobtain(d) PROVE Withdrawn(i, e)'
  <2>1. /\ valid' = [valid EXCEPT ![d] = TRUE]
        /\ UNCHANGED <<copy, setupOf, thread, kept>>
        /\ op' = op \/ op.at # "event"
    BY <1>14 DEF Reobtain, BeginOp, Issue, historyVars, NoOp
  <2>2. e # d /\ Revoked(i, e)
    BY <2>1, <1>v, <1>u DEF Revoked, SetUp
  <2> QED
    BY <1>w, <1>s, <2>1, <2>2 DEF Withdrawn
<1>15. ASSUME NEW d \in Active, Revoke(d) PROVE Withdrawn(i, e)'
  <2>1. /\ UNCHANGED <<copy, setupOf, thread, kept>> /\ op.at # "event"
        /\ valid' = valid \/ valid' = [valid EXCEPT ![d] = FALSE]
        /\ op'.at = "event" /\ op'.ev \in Taking /\ op'.d = d
    BY <1>15 DEF Revoke, BeginOp, Then, Taking, NoOp, historyVars, certbotVars
  <2>2. CASE e = d
    BY <2>1, <2>2 DEF Withdrawn, Reaches
  <2>3. CASE e # d
    <3>1. Revoked(i, e)
      BY <2>1, <2>3, <1>u DEF Revoked, SetUp
    <3> QED
      BY <1>w, <1>s, <2>1, <3>1 DEF Withdrawn
  <2> QED
    BY <2>2, <2>3
<1>16. ASSUME NEW d \in Active, Delete(d) PROVE Withdrawn(i, e)'
  <2>1. /\ UNCHANGED <<copy, setupOf, thread, kept>> /\ op.at # "event"
        /\ valid' = valid \/ valid' = [valid EXCEPT ![d] = FALSE]
        /\ op'.at = "event" /\ op'.ev \in Taking /\ op'.d = d
    BY <1>16 DEF Delete, BeginOp, Then, Taking, NoOp, historyVars, certbotVars
  <2>2. CASE e = d
    BY <2>1, <2>2 DEF Withdrawn, Reaches
  <2>3. CASE e # d
    <3>1. Revoked(i, e)
      BY <2>1, <2>3, <1>u DEF Revoked, SetUp
    <3> QED
      BY <1>w, <1>s, <2>1, <3>1 DEF Withdrawn
  <2> QED
    BY <2>2, <2>3
<1>17. ASSUME OnDomainAdded PROVE Withdrawn(i, e)'
  <2>1. CASE Issue(op.d)
    <3>1. /\ valid' = [valid EXCEPT ![op.d] = TRUE]
          /\ UNCHANGED <<copy, setupOf, thread, kept>> /\ op.at # "event"
      BY <1>17, <2>1 DEF OnDomainAdded, Issue
    <3>2. e # op.d /\ Revoked(i, e)
      BY <3>1, <1>v, <1>u DEF Revoked, SetUp
    <3> QED
      BY <1>w, <1>s, <3>1, <3>2 DEF Withdrawn
  <2>2. CASE UNCHANGED <<certbotVars, historyVars>>
    BY <1>17, <1>a, <2>2 DEF OnDomainAdded, certbotVars, historyVars
  <2> QED
    BY <1>17, <2>1, <2>2 DEF OnDomainAdded
<1>18. ASSUME SendEvent PROVE Withdrawn(i, e)'
  <2>1. op.ev \in Events /\ op.d \in Domains
    BY <1>18 DEF SendEvent, Typed, ServiceOK
  <2>2. PICK t \in Threads : StartEvent(t, op.ev, op.d)
    BY <1>18 DEF SendEvent, Threads
  <2>3. UNCHANGED <<valid, copy, setupOf, kept>>
    BY <1>18 DEF SendEvent, certbotVars, historyVars
  <2>4. Revoked(i, e)
    BY <2>3 DEF Revoked, SetUp
  <2> QED
    BY <1>w, <2>1, <2>2, <2>3, <2>4, ReachesBegins DEF Typed, Withdrawn
<1>19. ASSUME Stop PROVE Withdrawn(i, e)'
  <2>1. UNCHANGED <<valid, copy>> /\ kept \subseteq kept'
    BY <1>19 DEF Stop, certbotVars
  <2>2. setupOf[Comps[i]] # "needed"
    BY <1>19, <1>u DEF Stop, Revoked, SetUp
  <2>3. Revoked(i, e)
    BY <2>1, <2>2 DEF Revoked, SetUp
  <2>4. CASE Reaches(i, e, Taking)
    <3>1. Handled(e, Taking)
      BY <2>4 DEF Reaches, Handled, Typed, ThreadsOK, Threads
    <3>2. <<Comps[i], e>> \in Pairs(e)
      BY <1>u DEF Pairs
    <3> QED
      BY <1>19, <3>1, <3>2 DEF Stop, Withdrawn
  <2> QED
    BY <1>w, <2>1, <2>3, <2>4 DEF Withdrawn
<1>20. ASSUME Start PROVE Withdrawn(i, e)'
  BY <1>20, <1>a DEF Start, serviceVars, certbotVars, boundVars, historyVars
<1>21. ASSUME BusConnect PROVE Withdrawn(i, e)'
  BY <1>21, <1>a DEF BusConnect, serviceVars, certbotVars, boundVars, historyVars
<1>22. ASSUME CheckBegins PROVE Withdrawn(i, e)'
  BY <1>22, <1>a DEF CheckBegins, serviceVars, certbotVars, boundVars, historyVars
<1>23. ASSUME CheckNext PROVE Withdrawn(i, e)'
  <2>1. PICK p \in check.todo : IF Unseen(p) THEN StartEvent(Main, "renewed", p[1])
                                ELSE UNCHANGED thread
    BY <1>23 DEF CheckNext
  <2>2. p[1] \in Domains /\ "renewed" \in Events /\ Main \in Threads
    BY DEF Typed, ServiceOK, Events, Bringing, Threads
  <2>3. UNCHANGED <<valid, copy, setupOf, op, kept>>
    BY <1>23 DEF CheckNext, certbotVars, historyVars
  <2>4. CASE Unseen(p)
    <3>1. Revoked(i, e)
      BY <2>3 DEF Revoked, SetUp
    <3> QED
      BY <1>w, <2>1, <2>2, <2>3, <2>4, <3>1, ReachesBegins DEF Typed, Withdrawn
  <2>5. CASE UNCHANGED thread
    BY <1>a, <2>3, <2>5
  <2> QED
    BY <2>1, <2>4, <2>5
<1>24. ASSUME CheckEnds PROVE Withdrawn(i, e)'
  BY <1>24, <1>a DEF CheckEnds, serviceVars, certbotVars, boundVars, historyVars
<1>25. CASE UNCHANGED vars
  BY <1>25, <1>a DEF vars, serviceVars, certbotVars, boundVars, historyVars
<1> QED
  BY <1>1, <1>2, <1>3, <1>4, <1>5, <1>6, <1>7, <1>8, <1>9, <1>10, <1>11,
     <1>12, <1>13, <1>14, <1>15, <1>16, <1>17, <1>18, <1>19, <1>20,
     <1>21, <1>22, <1>23, <1>24, <1>25
     DEF Next, EventStep, Request, CheckStep, Threads

-----------------------------------------------------------------------------
(* Renewals.                                                               *)

LEMMA UntoldAdvance ==
    ASSUME ThreadsOK, NEW t \in Threads, thread[t].at = "hooks", HookNext(t),
           NEW i \in DOMAIN Comps, NEW d \in Domains, Untold(i, d), UNCHANGED <<seen, cert>>,
           ~(thread[t].idx = i /\ thread[t].d = d /\ thread[t].ev \in Bringing)
    PROVE  Untold(i, d)'
<1>1. \A s \in Threads : s # t => thread'[s] = thread[s]
  BY Advance DEF ThreadsOK
<1>2. thread[t].idx \in 1..Len(Comps) /\ i \in 1..Len(Comps) /\ Len(Comps) \in Nat
  BY Assumed DEF ThreadsOK
<1>3. ~Passed(t, i, d)'
  <2>1. CASE thread'[t].at = "hooks"
    BY <1>2, <2>1, Advance DEF Passed, Untold
  <2>2. CASE thread'[t].at = "mtime"
    BY <1>2, <2>2, Advance DEF Passed, Untold
  <2>3. CASE thread'[t].at = "none"
    BY <2>3 DEF Passed
  <2> QED
    BY <2>1, <2>2, <2>3, Advance
<1>4. RecordsOlder(t, d)'
  BY Advance DEF RecordsOlder
<1>5. ASSUME NEW s \in Threads, s # t PROVE (~Passed(s, i, d) /\ RecordsOlder(s, d))'
  BY <1>1, <1>5 DEF Passed, RecordsOlder, Untold
<1> QED
  BY <1>3, <1>4, <1>5 DEF Untold

LEMMA UntoldBegins ==
    ASSUME ThreadsOK, NEW t \in Threads, NEW ev \in Events, NEW e \in Domains,
           StartEvent(t, ev, e),
           NEW i \in DOMAIN Comps, NEW d \in Domains, Untold(i, d), UNCHANGED <<seen, cert>>
    PROVE  Untold(i, d)'
<1>1. \A s \in Threads : s # t => thread'[s] = thread[s]
  BY Begins DEF ThreadsOK
<1>2. ~Passed(t, i, d)' /\ RecordsOlder(t, d)'
  BY Begins, Assumed DEF Passed, RecordsOlder
<1>3. ASSUME NEW s \in Threads, s # t PROVE (~Passed(s, i, d) /\ RecordsOlder(s, d))'
  BY <1>1, <1>3 DEF Passed, RecordsOlder, Untold
<1> QED
  BY <1>2, <1>3 DEF Untold

LEMMA UntoldStays ==
    ASSUME NEW i \in DOMAIN Comps, NEW d \in Domains, Untold(i, d),
           seen' = seen, cert'[d] = cert[d], thread' = thread
    PROVE  Untold(i, d)'
  BY DEF Untold, Passed, RecordsOlder

(* A new certificate: either no event of the domain is under way, or the   *)
(* domain counts as overtaken and another event follows.                   *)
LEMMA Issued ==
    ASSUME Typed, NEW d \in Domains, Issue(d), UNCHANGED <<seen, thread>>,
           NEW i \in DOMAIN Comps, d \in hooks' \/ Reaches(i, d, Bringing)'
    PROVE  Cared(i, d)'
<1>1. CASE d \in overtaken'
  BY <1>1 DEF Cared
<1>2. CASE d \notin overtaken'
  <2>1. ~BeingCopied(d)
    BY <1>2 DEF Issue
  <2>2. cert'[d] = clock + 1 /\ clock \in Nat /\ seen[d] \in Nat /\ seen[d] <= clock
    BY DEF Issue, Typed, CertOK, WorkOK, SeenOK
  <2>3. ASSUME NEW t \in Threads PROVE ~Passed(t, i, d)' /\ RecordsOlder(t, d)'
    <3>1. t \in DOMAIN thread /\ thread[t].info[d] <= clock /\ thread[t].info[d] \in Nat
      BY DEF Typed, ThreadsOK, SeenOK, Event
    <3>2. thread[t].at = "none" \/ thread[t].d # d \/ thread[t].ev \notin Bringing
      BY <2>1, <3>1 DEF BeingCopied
    <3>3. thread[t].at = "write" => thread[t].ev \in Bringing
      BY DEF Typed, ThreadsOK
    <3>4. ~Passed(t, i, d)'
      BY <3>2 DEF Passed
    <3>5. RecordsOlder(t, d)'
      BY <2>2, <3>1, <3>2, <3>3 DEF RecordsOlder
    <3> QED
      BY <3>4, <3>5
  <2>4. seen'[d] < cert'[d]
    BY <2>2
  <2>5. Untold(i, d)'
    BY <2>3, <2>4 DEF Untold
  <2> QED
    BY <1>2, <2>5 DEF Cared
<1> QED
  BY <1>1, <1>2

LEMMA RenewalInvStep == Typed /\ RenewalInv /\ [Next]_vars => RenewalInv'
<1> SUFFICES ASSUME Typed, RenewalInv, [Next]_vars,
                    NEW i \in DOMAIN Comps, NEW e \in Domains, Old(i, e)'
             PROVE  Cared(i, e)'
  BY DEF RenewalInv
<1>u. /\ Comps[i] \in Components
      /\ copy \in [Components -> [Domains -> Nat]]
      /\ cert \in [Domains -> Nat]
      /\ valid \in [Domains -> BOOLEAN]
      /\ setupOf \in [Components -> {"needed", "copied", "done"}]
  BY DEF Components, Typed, AppsOK, CertOK
<1>w. Old(i, e) => Cared(i, e)
  BY DEF RenewalInv
<1>s. ASSUME op' = op \/ op.at # "event",
             \A s \in Threads : thread[s].at = "hooks" => thread'[s] = thread[s],
             Reaches(i, e, Bringing)
      PROVE  Reaches(i, e, Bringing)'
  BY <1>s, ReachesStays
<1>n. ASSUME NEW t \in Threads, thread[t].at = "hooks", HookNext(t), Old(i, e),
             UNCHANGED <<cert, hooks, seen, overtaken, op>>,
             ~(thread[t].idx = i /\ thread[t].d = e /\ thread[t].ev \in Bringing)
      PROVE  Cared(i, e)'
  BY <1>n, <1>w, ReachesAdvance, UntoldAdvance DEF Typed, Cared
<1>a. ASSUME UNCHANGED <<cert, valid, copy, setupOf, hooks, seen, overtaken, thread>>,
             excused \subseteq excused', op' = op \/ op.at # "event"
      PROVE  Cared(i, e)'
  <2>1. Old(i, e)
    BY <1>a DEF Old, SetUp
  <2> QED
    BY <1>a, <1>s, <1>w, <2>1, UntoldStays DEF Cared
<1>o. ASSUME NEW d \in Domains, e # d, Issue(d), UNCHANGED <<copy, setupOf, thread, seen>>,
             op' = op \/ op.at # "event", hooks \subseteq hooks'
      PROVE  Cared(i, e)'
  <2>1. /\ cert'[e] = cert[e] /\ valid'[e] = valid[e] /\ excused' = excused
        /\ (e \in overtaken' <=> e \in overtaken)
    BY <1>o, <1>u DEF Issue
  <2>2. Old(i, e)
    BY <1>o, <2>1 DEF Old, SetUp
  <2> QED
    BY <1>o, <1>s, <1>w, <2>1, <2>2, UntoldStays DEF Cared
<1>1. ASSUME NEW d \in Active, Renew(d) PROVE Cared(i, e)'
  <2>1. /\ Issue(d) /\ UNCHANGED <<copy, setupOf, thread, seen>>
        /\ op' = op \/ op.at # "event"
        /\ hooks \subseteq hooks' /\ d \in Domains
    BY <1>1, Assumed DEF Renew, BeginOp, NoOp
  <2>2. CASE e = d
    <3>1. e \in hooks' \/ Reaches(i, e, Bringing)'
      BY <1>1, <2>2 DEF Renew, Then, Reaches, Bringing
    <3> QED
      BY <2>1, <2>2, <3>1, Issued
  <2>3. CASE e # d
    BY <1>o, <2>1, <2>3
  <2> QED
    BY <2>2, <2>3
<1>2. ASSUME NEW d \in Active, DeliverHook(d) PROVE Cared(i, e)'
  <2>1. /\ UNCHANGED <<cert, valid, copy, setupOf, op, seen, overtaken>>
        /\ excused \subseteq excused' /\ hooks' = hooks \ {d}
    BY <1>2 DEF DeliverHook, historyVars
  <2>2. Old(i, e)
    BY <2>1 DEF Old, SetUp
  <2>3. CASE \E t \in Pool : StartEvent(t, "renewed", d)
    <3>1. PICK t \in Threads : StartEvent(t, "renewed", d)
      BY <2>3 DEF Threads
    <3>2. "renewed" \in Events /\ d \in Domains
      BY Assumed DEF Events, Bringing
    <3>3. CASE e \in overtaken
      <4>1. CASE e = d
        <5>1. /\ thread'[t].at = "hooks" /\ thread'[t].ev = "renewed"
              /\ thread'[t].d = d /\ thread'[t].idx <= i
          BY <3>1, <3>2, Begins, Assumed DEF Typed
        <5> QED
          BY <2>1, <3>3, <4>1, <5>1 DEF Cared, Reaches, Bringing, Threads
      <4>2. CASE e # d
        BY <1>w, <2>1, <2>2, <3>1, <3>2, <3>3, <4>2, ReachesBegins DEF Typed, Cared
      <4> QED
        BY <4>1, <4>2
    <3>4. CASE e \notin overtaken
      BY <1>w, <2>1, <2>2, <3>1, <3>2, <3>4, UntoldBegins DEF Typed, Cared
    <3> QED
      BY <3>3, <3>4
  <2>4. CASE UNCHANGED thread /\ excused' = excused \cup Missed(d)
    <3>1. ~(e = d /\ e \in overtaken)
      BY <1>u, <2>4 DEF Old, Missed, Pairs
    <3>2. CASE e \in overtaken
      BY <1>w, <1>s, <2>1, <2>2, <2>4, <3>1, <3>2 DEF Cared
    <3>3. CASE e \notin overtaken
      BY <1>w, <2>1, <2>2, <2>4, <3>3, UntoldStays DEF Cared
    <3> QED
      BY <3>2, <3>3
  <2> QED
    BY <1>2, <2>3, <2>4 DEF DeliverHook
<1>3. ASSUME NEW t \in Threads, HookSkips(t) PROVE Cared(i, e)'
  <2>1. /\ UNCHANGED <<cert, valid, copy, setupOf, hooks, seen, overtaken, op>>
        /\ excused \subseteq excused' /\ thread[t].at = "hooks" /\ HookNext(t)
    BY <1>3 DEF HookSkips, certbotVars
  <2>2. Old(i, e)
    BY <2>1 DEF Old, SetUp
  <2>3. ~(thread[t].idx = i /\ thread[t].d = e)
    <3> SUFFICES ASSUME thread[t].idx = i, thread[t].d = e PROVE FALSE
      OBVIOUS
    <3>1. setupOf[Comps[i]] = "copied"
      BY <1>3, <1>u, <2>2 DEF HookSkips, Old, SetUp
    <3> QED
      BY <1>3, <3>1 DEF HookSkips, Old
  <2> QED
    BY <1>n, <2>1, <2>2, <2>3
<1>4. ASSUME NEW t \in Threads, HookCopies(t) PROVE Cared(i, e)'
  <2> DEFINE c == Comps[thread[t].idx]
  <2>1. /\ UNCHANGED <<cert, valid, setupOf, hooks, seen, overtaken, op>>
        /\ thread[t].at = "hooks" /\ HookNext(t)
        /\ copy' = [copy EXCEPT ![c][thread[t].d] = cert[thread[t].d]]
        /\ excused' = excused \ {<<c, thread[t].d>>}
    BY <1>4 DEF HookCopies, certbotVars
  <2>2. ~(Comps[i] = c /\ e = thread[t].d)
    BY <2>1, <1>u DEF Old
  <2>3. Old(i, e)
    BY <2>1, <2>2, <1>u DEF Old, SetUp
  <2> QED
    BY <1>n, <2>1, <2>2, <2>3
<1>5. ASSUME NEW t \in Threads, HookSelfSigns(t) PROVE Cared(i, e)'
  <2> DEFINE c == Comps[thread[t].idx]
  <2>1. /\ UNCHANGED <<cert, valid, setupOf, hooks, seen, overtaken, op>>
        /\ thread[t].at = "hooks" /\ HookNext(t)
        /\ copy' = [copy EXCEPT ![c][thread[t].d] = 0]
        /\ excused' = IF cert[thread[t].d] > 0 THEN excused \cup {<<c, thread[t].d>>} ELSE excused
    BY <1>5 DEF HookSelfSigns, certbotVars
  <2>2. ~(Comps[i] = c /\ e = thread[t].d)
    BY <2>1, <1>u DEF Old
  <2>3. Old(i, e)
    BY <2>1, <2>2, <1>u DEF Old, SetUp
  <2> QED
    BY <1>n, <2>1, <2>2, <2>3
<1>6. ASSUME NEW t \in Threads, HookFails(t) PROVE Cared(i, e)'
  <2>1. /\ UNCHANGED <<cert, valid, copy, setupOf, hooks, seen, overtaken, op>>
        /\ excused \subseteq excused' /\ thread[t].at = "hooks" /\ HookNext(t)
    BY <1>6 DEF HookFails, certbotVars
  <2>2. Old(i, e)
    BY <2>1 DEF Old, SetUp
  <2>3. ~(thread[t].idx = i /\ thread[t].d = e /\ thread[t].ev \in Bringing)
    BY <1>6 DEF HookFails, Old
  <2> QED
    BY <1>n, <2>1, <2>2, <2>3
<1>7. ASSUME NEW t \in Threads, SeenRead(t) PROVE Cared(i, e)'
  <2>1. /\ UNCHANGED <<cert, valid, copy, setupOf, hooks, seen, overtaken, excused, op>>
        /\ thread[t].at = "mtime" /\ thread[t].ev \in Bringing
    BY <1>7 DEF SeenRead, certbotVars, historyVars, Typed, ThreadsOK
  <2>2. Old(i, e)
    BY <2>1 DEF Old, SetUp
  <2>3. CASE e \in overtaken
    BY <1>7, <1>s, <1>w, <2>1, <2>2, <2>3, Recording DEF Typed, Cared
  <2>4. CASE e \notin overtaken
    <3>1. Untold(i, e) /\ thread[t].d # e
      BY <1>w, <2>1, <2>2, <2>4 DEF Cared, Untold, Passed
    <3>2. \A s \in Threads : s # t => thread'[s] = thread[s]
      BY <1>7 DEF SeenRead, Typed, ThreadsOK
    <3>3. \/ thread'[t].at = "none"
          \/ thread'[t].at = "write" /\ thread'[t].d = thread[t].d /\ thread'[t].info = seen
      <4>1. CASE thread' = [thread EXCEPT ![t] = Free]
        BY <4>1, FreeEvent DEF Typed, ThreadsOK
      <4>2. CASE thread' = [thread EXCEPT ![t].at = "write", ![t].mt = cert[thread[t].d],
                                          ![t].info = seen]
        BY <4>2 DEF Typed, ThreadsOK, Event
      <4> QED
        BY <1>7, <4>1, <4>2 DEF SeenRead
    <3>4. ~Passed(t, i, e)' /\ RecordsOlder(t, e)'
      BY <2>1, <3>1, <3>3 DEF Untold, Passed, RecordsOlder
    <3>5. ASSUME NEW s \in Threads, s # t PROVE (~Passed(s, i, e) /\ RecordsOlder(s, e))'
      BY <2>1, <3>1, <3>2, <3>5 DEF Passed, RecordsOlder, Untold
    <3>6. Untold(i, e)'
      BY <2>1, <3>1, <3>4, <3>5 DEF Untold
    <3> QED
      BY <2>1, <2>4, <3>6 DEF Cared
  <2> QED
    BY <2>3, <2>4
<1>8. ASSUME NEW t \in Threads, SeenWrite(t) PROVE Cared(i, e)'
  <2>1. /\ UNCHANGED <<cert, valid, copy, setupOf, hooks, overtaken, excused, op>>
        /\ thread[t].at = "write" /\ thread' = [thread EXCEPT ![t] = Free]
        /\ seen' = [thread[t].info EXCEPT ![thread[t].d] = thread[t].mt]
    BY <1>8 DEF SeenWrite, certbotVars, historyVars
  <2>2. Old(i, e)
    BY <2>1 DEF Old, SetUp
  <2>3. CASE e \in overtaken
    BY <1>8, <1>s, <1>w, <2>1, <2>2, <2>3, Recording DEF Typed, Cared
  <2>4. CASE e \notin overtaken
    <3>1. Untold(i, e)
      BY <1>w, <2>2, <2>4 DEF Cared
    <3>2. thread[t].info \in [Domains -> Nat]
      BY DEF Typed, ThreadsOK, Event
    <3>3. seen'[e] = IF thread[t].d = e THEN thread[t].mt ELSE thread[t].info[e]
      BY <2>1, <3>2
    <3>4. seen'[e] < cert[e]
      BY <2>1, <3>1, <3>3 DEF Untold, RecordsOlder
    <3>5. thread'[t] = Free /\ \A s \in Threads : s # t => thread'[s] = thread[s]
      BY <2>1 DEF Typed, ThreadsOK
    <3>6. ~Passed(t, i, e)' /\ RecordsOlder(t, e)'
      BY <3>5, FreeEvent DEF Passed, RecordsOlder
    <3>7. ASSUME NEW s \in Threads, s # t PROVE (~Passed(s, i, e) /\ RecordsOlder(s, e))'
      BY <2>1, <3>1, <3>5, <3>7 DEF Passed, RecordsOlder, Untold
    <3>8. Untold(i, e)'
      BY <2>1, <3>4, <3>6, <3>7 DEF Untold
    <3> QED
      BY <2>1, <2>4, <3>8 DEF Cared
  <2> QED
    BY <2>3, <2>4
<1>9. ASSUME NEW c \in Late, SetupCopies(c) PROVE Cared(i, e)'
  <2>1. UNCHANGED <<cert, valid, hooks, seen, overtaken, thread, op>>
    BY <1>9 DEF SetupCopies, certbotVars
  <2>2. Comps[i] # c
    <3> SUFFICES ASSUME Comps[i] = c PROVE FALSE
      OBVIOUS
    <3>1. e \in Interest[c] /\ copy'[c][e] # cert[e] /\ <<c, e>> \notin excused'
      BY <2>1 DEF Old
    <3>2. CASE e \in domains
      BY <1>9, <1>u, <3>1, <3>2 DEF SetupCopies
    <3>3. CASE e \notin domains
      BY <1>9, <3>1, <3>3 DEF SetupCopies
    <3> QED
      BY <3>2, <3>3
  <2>3. Old(i, e)
    BY <1>9, <1>u, <2>1, <2>2 DEF SetupCopies, Old, SetUp
  <2> QED
    BY <1>w, <1>s, <2>1, <2>3, UntoldStays DEF Cared
<1>10. ASSUME NEW c \in Late, SetupRecords(c) PROVE Cared(i, e)'
  <2>1. UNCHANGED <<cert, valid, copy, hooks, seen, overtaken, excused, thread, op>>
    BY <1>10 DEF SetupRecords, certbotVars, historyVars
  <2>2. Old(i, e)
    BY <1>10, <1>u, <2>1 DEF SetupRecords, Old, SetUp
  <2> QED
    BY <1>w, <1>s, <2>1, <2>2, UntoldStays DEF Cared
<1>11. ASSUME NEW d \in Active, AddDomain(d) PROVE Cared(i, e)'
  <2>1. /\ UNCHANGED <<cert, valid, copy, setupOf, hooks, seen, overtaken, excused, thread>>
        /\ op.at # "event"
    BY <1>11 DEF AddDomain, BeginOp, NoOp, certbotVars, historyVars
  <2> QED
    BY <1>a, <2>1
<1>12. ASSUME NEW d \in Active, RemoveDomain(d) PROVE Cared(i, e)'
  <2>1. /\ UNCHANGED <<cert, valid, copy, setupOf, hooks, seen, overtaken, excused, thread>>
        /\ op.at # "event"
    BY <1>12 DEF RemoveDomain, BeginOp, NoOp, certbotVars, historyVars
  <2> QED
    BY <1>a, <2>1
<1>13. ASSUME NEW d \in Active, Obtain(d) PROVE Cared(i, e)'
  <2>1. /\ Issue(d) /\ UNCHANGED <<copy, setupOf, thread, seen>>
        /\ op' = op \/ op.at # "event"
        /\ hooks \subseteq hooks' /\ d \in Domains
    BY <1>13, Assumed DEF Obtain, BeginOp, NoOp
  <2>2. CASE e = d
    <3>1. e \in hooks' \/ Reaches(i, e, Bringing)'
      BY <1>13, <2>2 DEF Obtain, Then, Reaches, Bringing
    <3> QED
      BY <2>1, <2>2, <3>1, Issued
  <2>3. CASE e # d
    BY <1>o, <2>1, <2>3
  <2> QED
    BY <2>2, <2>3
<1>14. ASSUME NEW d \in Active, Reobtain(d) PROVE Cared(i, e)'
  <2>1. /\ Issue(d) /\ UNCHANGED <<copy, setupOf, thread, seen>>
        /\ op' = op \/ op.at # "event"
        /\ hooks \subseteq hooks' /\ d \in Domains
    BY <1>14, Assumed DEF Reobtain, BeginOp, NoOp
  <2>2. CASE e = d
    <3>1. e \in hooks' \/ Reaches(i, e, Bringing)'
      BY <1>14, <2>2 DEF Reobtain, Then, Reaches, Bringing
    <3> QED
      BY <2>1, <2>2, <3>1, Issued
  <2>3. CASE e # d
    BY <1>o, <2>1, <2>3
  <2> QED
    BY <2>2, <2>3
<1>15. ASSUME NEW d \in Active, Revoke(d) PROVE Cared(i, e)'
  <2>1. /\ UNCHANGED <<copy, setupOf, hooks, seen, overtaken, excused, thread>>
        /\ op.at # "event"
        /\ valid' = [valid EXCEPT ![d] = FALSE]
        /\ cert' \in {cert, [cert EXCEPT ![d] = 0]}
    BY <1>15 DEF Revoke, BeginOp, NoOp, historyVars
  <2>2. e # d
    BY <2>1, <1>u DEF Old
  <2>3. Old(i, e) /\ cert'[e] = cert[e]
    BY <2>1, <2>2, <1>u DEF Old, SetUp
  <2> QED
    BY <1>w, <1>s, <2>1, <2>3, UntoldStays DEF Cared
<1>16. ASSUME NEW d \in Active, Delete(d) PROVE Cared(i, e)'
  <2>1. /\ UNCHANGED <<copy, setupOf, hooks, seen, overtaken, excused, thread>>
        /\ op.at # "event"
        /\ valid' = [valid EXCEPT ![d] = FALSE]
        /\ cert' \in {cert, [cert EXCEPT ![d] = 0]}
    BY <1>16 DEF Delete, BeginOp, NoOp, historyVars
  <2>2. e # d
    BY <2>1, <1>u DEF Old
  <2>3. Old(i, e) /\ cert'[e] = cert[e]
    BY <2>1, <2>2, <1>u DEF Old, SetUp
  <2> QED
    BY <1>w, <1>s, <2>1, <2>3, UntoldStays DEF Cared
<1>17. ASSUME OnDomainAdded PROVE Cared(i, e)'
  <2>1. CASE Issue(op.d)
    <3>1. /\ Then("obtained", op.d) \/ UNCHANGED clock
          /\ UNCHANGED <<copy, setupOf, thread, seen>>
          /\ hooks \subseteq hooks' /\ op.d \in Domains /\ op.at # "event"
      BY <1>17 DEF OnDomainAdded, Typed, ServiceOK, certbotVars
    <3>2. clock' # clock
      BY <2>1 DEF Issue, Typed, WorkOK
    <3>3. CASE e = op.d
      <4>1. Reaches(i, e, Bringing)'
        BY <3>1, <3>2, <3>3 DEF Then, Reaches, Bringing
      <4> QED
        BY <2>1, <3>1, <3>3, <4>1, Issued
    <3>4. CASE e # op.d
      BY <1>o, <2>1, <3>1, <3>4
    <3> QED
      BY <3>3, <3>4
  <2>2. CASE UNCHANGED <<certbotVars, historyVars>>
    BY <1>17, <1>a, <2>2 DEF OnDomainAdded, certbotVars, historyVars
  <2> QED
    BY <1>17, <2>1, <2>2 DEF OnDomainAdded
<1>18. ASSUME SendEvent PROVE Cared(i, e)'
  <2>1. op.ev \in Events /\ op.d \in Domains
    BY <1>18 DEF SendEvent, Typed, ServiceOK
  <2>2. PICK t \in Threads : StartEvent(t, op.ev, op.d)
    BY <1>18 DEF SendEvent, Threads
  <2>3. UNCHANGED <<cert, valid, copy, setupOf, hooks, seen, overtaken, excused>>
    BY <1>18 DEF SendEvent, certbotVars, historyVars
  <2>4. Old(i, e)
    BY <2>3 DEF Old, SetUp
  <2> QED
    BY <1>w, <2>1, <2>2, <2>3, <2>4, ReachesBegins, UntoldBegins DEF Typed, Cared
<1>19. ASSUME Stop PROVE Cared(i, e)'
  <2>1. /\ UNCHANGED <<cert, valid, copy, seen, overtaken>>
        /\ excused' = excused \cup UNION {Missed(d) : d \in Domains}
    BY <1>19 DEF Stop, certbotVars
  <2>2. setupOf[Comps[i]] # "needed"
    BY <1>19, <1>u DEF Stop, Old, SetUp
  <2>3. Old(i, e)
    BY <2>1, <2>2 DEF Old, SetUp
  <2>4. e \notin overtaken
    <3> SUFFICES ASSUME e \in overtaken PROVE FALSE
      OBVIOUS
    <3>1. <<Comps[i], e>> \in Missed(e)
      BY <1>u DEF Missed, Pairs
    <3>2. <<Comps[i], e>> \in excused'
      BY <2>1, <3>1
    <3> QED
      BY <3>2 DEF Old
  <2>5. \A t \in Threads : thread'[t].at = "none"
    BY <1>19, FreeEvent DEF Stop, Typed, ThreadsOK
  <2>6. Untold(i, e)'
    BY <1>w, <2>1, <2>3, <2>4, <2>5 DEF Cared, Untold, Passed, RecordsOlder
  <2> QED
    BY <2>1, <2>4, <2>6 DEF Cared
<1>20. ASSUME Start PROVE Cared(i, e)'
  BY <1>20, <1>a DEF Start, serviceVars, certbotVars, boundVars, historyVars
<1>21. ASSUME BusConnect PROVE Cared(i, e)'
  BY <1>21, <1>a DEF BusConnect, serviceVars, certbotVars, boundVars, historyVars
<1>22. ASSUME CheckBegins PROVE Cared(i, e)'
  BY <1>22, <1>a DEF CheckBegins, serviceVars, certbotVars, boundVars, historyVars
<1>23. ASSUME CheckNext PROVE Cared(i, e)'
  <2>1. PICK p \in check.todo : IF Unseen(p) THEN StartEvent(Main, "renewed", p[1])
                                ELSE UNCHANGED thread
    BY <1>23 DEF CheckNext
  <2>2. p[1] \in Domains /\ "renewed" \in Events /\ Main \in Threads
    BY DEF Typed, ServiceOK, Events, Bringing, Threads
  <2>3. UNCHANGED <<cert, valid, copy, setupOf, hooks, seen, overtaken, excused, op>>
    BY <1>23 DEF CheckNext, certbotVars, historyVars
  <2>4. CASE Unseen(p)
    <3>1. Old(i, e)
      BY <2>3 DEF Old, SetUp
    <3> QED
      BY <1>w, <2>1, <2>2, <2>3, <2>4, <3>1, ReachesBegins, UntoldBegins DEF Typed, Cared
  <2>5. CASE UNCHANGED thread
    BY <1>a, <2>3, <2>5
  <2> QED
    BY <2>1, <2>4, <2>5
<1>24. ASSUME CheckEnds PROVE Cared(i, e)'
  BY <1>24, <1>a DEF CheckEnds, serviceVars, certbotVars, boundVars, historyVars
<1>25. CASE UNCHANGED vars
  BY <1>25, <1>a DEF vars, serviceVars, certbotVars, boundVars, historyVars
<1> QED
  BY <1>1, <1>2, <1>3, <1>4, <1>5, <1>6, <1>7, <1>8, <1>9, <1>10, <1>11,
     <1>12, <1>13, <1>14, <1>15, <1>16, <1>17, <1>18, <1>19, <1>20,
     <1>21, <1>22, <1>23, <1>24, <1>25
     DEF Next, EventStep, Request, CheckStep, Threads

-----------------------------------------------------------------------------
(* Theorems.                                                               *)

LEMMA InvInit == Init => RenewalInv /\ RevokedInv
<1> SUFFICES ASSUME Init, NEW i \in DOMAIN Comps, NEW d \in Domains
             PROVE  (Old(i, d) => Cared(i, d)) /\ ~Revoked(i, d)
  BY DEF RenewalInv, RevokedInv
<1>1. /\ cert \in [Domains -> {0, 1}] /\ seen \in [Domains -> {0, 1}]
      /\ seen[d] <= cert[d] /\ overtaken = {} /\ excused = Components \X (Domains \ domains)
      /\ setupOf = [c \in Components |-> IF c \in Late THEN "needed" ELSE "done"]
      /\ copy = [c \in Components |-> [e \in Domains |->
                  IF c \notin Late /\ e \in domains \cap Interest[c] THEN seen[e] ELSE 0]]
      /\ valid = [e \in Domains |-> cert[e] = 1]
      /\ thread = [t \in Threads |-> Free]
  BY DEF Init, Threads
<1>2. Comps[i] \in Components
  BY DEF Components
<1>3. copy[Comps[i]][d] \in {0, seen[d]}
  BY <1>1, <1>2
<1>4. ~Revoked(i, d)
  <2>1. cert[d] = 1 \/ seen[d] = 0
    BY <1>1
  <2>2. valid[d] = (cert[d] = 1)
    BY <1>1
  <2>3. cert[d] = 1 => valid[d]
    BY <2>2, Zenon
  <2> QED
    BY <1>3, <2>1, <2>3 DEF Revoked
<1>5. Old(i, d) => Cared(i, d)
  <2> SUFFICES ASSUME Old(i, d) PROVE Cared(i, d)
    OBVIOUS
  <2>1. d \in domains /\ Comps[i] \notin Late /\ d \in Interest[Comps[i]]
    BY <1>1, <1>2 DEF Old, SetUp
  <2>2. copy[Comps[i]][d] = seen[d]
    BY <1>1, <1>2, <2>1
  <2>3. seen[d] < cert[d]
    BY <1>1, <2>2 DEF Old
  <2>4. \A t \in Threads : thread[t].at = "none"
    BY <1>1, FreeEvent
  <2>5. Untold(i, d)
    BY <2>3, <2>4 DEF Untold, Passed, RecordsOlder
  <2> QED
    BY <1>1, <2>5 DEF Cared
<1> QED
  BY <1>4, <1>5

(* No renewal is missed: whatever events overlap, are cut off or find the   *)
(* service away, an app with an old copy is still reached by an event, or   *)
(* the next start handles the certificate again, with the exceptions named  *)
(* in excused (letsencrypt/__init__.py: on_certificate_event_sync,          *)
(* _certificate_handle_modified).                                           *)
THEOREM RenewalsArrive == Spec => []NoMissedRenewal
<1>1. Typed /\ RenewalInv => NoMissedRenewal
  <2> SUFFICES ASSUME RenewalInv, NEW i \in DOMAIN Comps, NEW d \in Domains, Stale(i, d),
                      <<Comps[i], d>> \notin excused
               PROVE  seen[d] < cert[d] \/ d \in hooks \/ Reaches(i, d, Bringing)
    BY DEF NoMissedRenewal
  <2>1. Old(i, d)
    BY DEF Stale, Old, SetUp
  <2>2. Cared(i, d)
    BY <2>1 DEF RenewalInv
  <2> QED
    BY <2>2 DEF Cared, Untold
<1> QED
  BY <1>1, TypedInit, TypedStep, InvInit, RenewalInvStep, PTL DEF Spec

(* An app that still has a revoked certificate is about to receive the      *)
(* event, or is one of the exceptions in kept (letsencrypt/__init__.py:     *)
(* certificate_revoke, certificate_delete, on_certificate_event_sync).      *)
THEOREM RevokedGoes == Spec => []RevokedWithdrawn
<1>1. RevokedInv => RevokedWithdrawn
  BY DEF RevokedInv, RevokedWithdrawn, Revoked, Withdrawn, SetUp
<1> QED
  BY <1>1, TypedInit, TypedStep, InvInit, RevokedInvStep, PTL DEF Spec

=============================================================================
