------------------------ MODULE PrivilegedDaemonProofs ------------------------
(***************************************************************************)
(* Proofs about PrivilegedDaemon, for any number of calls of any kind.     *)
(***************************************************************************)
EXTENDS PrivilegedDaemon, TLAPS

-----------------------------------------------------------------------------
(* The backlog.                                                            *)

LEMMA AppendOnce ==
    ASSUME NEW S, NEW s \in Seq(S), IsInjective(s), NEW e \in S, e \notin ToSet(s)
    PROVE  /\ Append(s, e) \in Seq(S)
           /\ IsInjective(Append(s, e))
           /\ ToSet(Append(s, e)) = ToSet(s) \cup {e}
<1> DEFINE t == Append(s, e)
<1>1. /\ t \in Seq(S)
      /\ DOMAIN t = 1..(Len(s) + 1)
      /\ DOMAIN s = 1..Len(s)
      /\ \A i \in 1..Len(s) : t[i] = s[i]
      /\ t[Len(s) + 1] = e
      /\ Len(s) \in Nat
  OBVIOUS
<1>2. ToSet(t) = ToSet(s) \cup {e}
  <2>1. \A i \in DOMAIN t : t[i] \in ToSet(s) \cup {e}
    BY <1>1 DEF ToSet
  <2>2. \A i \in DOMAIN s : s[i] \in ToSet(t)
    BY <1>1 DEF ToSet
  <2>3. e \in ToSet(t)
    BY <1>1 DEF ToSet
  <2> QED
    BY <2>1, <2>2, <2>3 DEF ToSet
<1>3. IsInjective(t)
  BY <1>1 DEF IsInjective, ToSet
<1> QED
  BY <1>1, <1>2, <1>3

LEMMA TailOnce ==
    ASSUME NEW S, NEW s \in Seq(S), IsInjective(s), s # <<>>
    PROVE  /\ Tail(s) \in Seq(S)
           /\ IsInjective(Tail(s))
           /\ ToSet(Tail(s)) = ToSet(s) \ {Head(s)}
           /\ Head(s) \in ToSet(s)
<1> DEFINE t == Tail(s)
<1>1. /\ t \in Seq(S)
      /\ Len(s) \in Nat \ {0}
      /\ DOMAIN t = 1..(Len(s) - 1)
      /\ DOMAIN s = 1..Len(s)
      /\ \A i \in 1..(Len(s) - 1) : t[i] = s[i + 1]
      /\ Head(s) = s[1]
  OBVIOUS
<1>2. Head(s) \in ToSet(s)
  BY <1>1 DEF ToSet
<1>3. IsInjective(t)
  BY <1>1 DEF IsInjective
<1>4. ToSet(t) = ToSet(s) \ {Head(s)}
  <2>1. \A i \in DOMAIN t : t[i] \in ToSet(s) /\ t[i] # Head(s)
    <3> SUFFICES ASSUME NEW i \in DOMAIN t
                 PROVE  t[i] \in ToSet(s) /\ t[i] # Head(s)
      OBVIOUS
    <3>1. i + 1 \in DOMAIN s /\ 1 \in DOMAIN s /\ i + 1 # 1 /\ t[i] = s[i + 1]
      BY <1>1
    <3> QED
      BY <1>1, <3>1 DEF IsInjective, ToSet
  <2>2. \A i \in DOMAIN s : s[i] # Head(s) => s[i] \in ToSet(t)
    <3> SUFFICES ASSUME NEW i \in DOMAIN s, s[i] # Head(s)
                 PROVE  s[i] \in ToSet(t)
      OBVIOUS
    <3>1. i # 1 /\ i - 1 \in DOMAIN t /\ t[i - 1] = s[i]
      BY <1>1
    <3> QED
      BY <3>1 DEF ToSet
  <2> QED
    BY <2>1, <2>2 DEF ToSet
<1> QED
  BY <1>1, <1>2, <1>3, <1>4

-----------------------------------------------------------------------------
(* The types.  A connection is in one place: with its caller only, in the  *)
(* backlog, or with a thread.                                              *)

HandlerPlaces == {"none", "reading", "running", "done", "dead"} \cup Answers

MainOK ==
    /\ mode \in {"socket", "service"}
    /\ server \in Places
    /\ stopping \in BOOLEAN /\ term \in BOOLEAN
    /\ idle \in BOOLEAN /\ listed \in BOOLEAN
    /\ server = "accept" => backlog # <<>>
    /\ terms \in 0..MaxTerms

CallsOK ==
    /\ kind \in [Requests -> Kinds]
    /\ handler \in [Requests -> HandlerPlaces]
    /\ caller \in [Requests -> {"idle", "connected", "reading", "cut", "gone"}]
    /\ answer \in [Requests -> (Answers \ {"nothing"})
                                 \cup {"none", "empty", "part", "refused"}]
    /\ killed \subseteq Requests
    /\ \A r \in Requests :
         /\ answer[r] # "none" => handler[r] \in {"none", "done", "dead"}
         /\ caller[r] = "idle" => handler[r] = "none" /\ answer[r] = "none"
         /\ handler[r] # "none" => kind[r] # "denied"

BacklogOK ==
    /\ backlog \in Seq(Requests)
    /\ IsInjective(backlog)
    /\ \A r \in ToSet(backlog) :
         handler[r] = "none" /\ answer[r] = "none" /\ caller[r] # "idle"

Typed == MainOK /\ CallsOK /\ BacklogOK

LEMMA MainType == MainOK /\ [Next]_vars => MainOK'
<1> SUFFICES ASSUME MainOK, [Next]_vars PROVE MainOK'
  OBVIOUS
<1> USE DaemonAssumption DEF MainOK, Places, calls
<1>1. CASE Activate \/ Serve
  BY <1>1 DEF Activate, Serve
<1>2. CASE Poll
  BY <1>2 DEF Poll
<1>3. CASE Accept
  BY <1>3 DEF Accept
<1>4. CASE ServiceActions
  <2>1. /\ server' \in {"closing", "select"}
        /\ UNCHANGED <<mode, stopping, term, idle, listed, terms>>
    BY <1>4 DEF ServiceActions
  <2> QED
    BY <2>1
<1>5. CASE ServerClose \/ Exit
  BY <1>5 DEF ServerClose, Exit
<1>6. CASE TimePasses \/ Terminate
  <2>1. CASE TimePasses
    BY <2>1 DEF TimePasses
  <2>2. CASE Terminate
    <3>1. /\ terms \in Nat /\ terms < MaxTerms /\ terms' = terms + 1
          /\ UNCHANGED <<mode, server, idle, listed, backlog>>
      BY <2>2 DEF Terminate
    <3>2. term' \in BOOLEAN /\ stopping' \in BOOLEAN
      BY <2>2, Zenon DEF Terminate
    <3>3. terms' \in 0..MaxTerms
      BY <3>1
    <3> QED
      BY <3>1, <3>2, <3>3
  <2> QED
    BY <1>6, <2>1, <2>2
<1>7. CASE Kill
  <2>1. server' = "off" /\ UNCHANGED <<mode, stopping, term, idle, listed, terms>>
    BY <1>7, Zenon DEF Kill
  <2> QED
    BY <2>1
<1>8. ASSUME NEW r \in Requests, Connect(r) PROVE MainOK'
  BY <1>8 DEF Connect
<1>9. ASSUME NEW r \in Requests, Send(r) \/ Vanish(r) \/ HandlerStep(r)
      PROVE  MainOK'
  BY <1>9 DEF Send, Vanish, HandlerStep, Read, Run, Respond
<1>10. CASE UNCHANGED vars
  BY <1>10 DEF vars
<1> QED
  BY <1>1, <1>2, <1>3, <1>4, <1>5, <1>6, <1>7, <1>8, <1>9, <1>10
  DEF Next, MainStep

LEMMA CallsType == Typed /\ [Next]_vars => CallsOK'
<1> SUFFICES ASSUME Typed, [Next]_vars PROVE CallsOK'
  OBVIOUS
<1> USE DEF Typed, MainOK, CallsOK, HandlerPlaces, Answers, calls
<1>1. CASE Activate \/ Serve \/ Poll \/ ServiceActions \/ Exit
  BY <1>1 DEF Activate, Serve, Poll, ServiceActions, Exit
<1>2. CASE Accept
  <2> DEFINE r == Head(backlog)
  <2>1. r \in ToSet(backlog) /\ r \in Requests
    BY <1>2, TailOnce DEF Accept, BacklogOK
  <2>2. handler[r] = "none" /\ answer[r] = "none" /\ caller[r] # "idle"
    BY <2>1 DEF BacklogOK
  <2>3. CASE kind[r] = "denied"
    BY <1>2, <2>1, <2>2, <2>3 DEF Accept, Told
  <2>4. CASE kind[r] # "denied"
    BY <1>2, <2>1, <2>2, <2>4 DEF Accept
  <2> QED
    BY <2>3, <2>4
<1>3. CASE ServerClose
  BY <1>3 DEF ServerClose, BacklogOK, Told
<1>4. CASE TimePasses \/ Terminate
  BY <1>4 DEF TimePasses, Terminate
<1>5. CASE Kill
  <2> DEFINE inside == {r \in Requests : Alive(r)}
             pending == IF mode = "socket" THEN {} ELSE ToSet(backlog)
  <2>1. /\ killed' = killed \cup inside \cup pending
        /\ CutOff(inside \cup pending)
        /\ handler' = [r \in Requests |-> IF r \in inside THEN "dead" ELSE handler[r]]
        /\ UNCHANGED <<kind, caller>>
    BY <1>5, Zenon DEF Kill
  <2>2. \A r \in pending : r \in Requests /\ handler[r] = "none" /\ caller[r] # "idle"
    <3>1. ToSet(backlog) \subseteq Requests
      BY DEF BacklogOK, ToSet
    <3> QED
      BY <3>1 DEF BacklogOK
  <2>3. \A r \in Requests : handler'[r] = IF Alive(r) THEN "dead" ELSE handler[r]
    BY <2>1, Zenon
  <2>4. handler' \in [Requests -> HandlerPlaces]
    BY <2>1
  <2>5. \A r \in Requests :
          \/ answer'[r] = answer[r]
          \/ /\ answer'[r] \in {"empty", "part"}
             /\ r \in inside \cup pending /\ caller[r] # "idle"
    BY <2>1 DEF CutOff
  <2>6. answer' \in [Requests -> (Answers \ {"nothing"})
                                   \cup {"none", "empty", "part", "refused"}]
    BY <2>1 DEF CutOff
  <2> HIDE DEF inside, pending
  <2>7. killed' \subseteq Requests
    BY <2>1, <2>2 DEF inside
  <2>8. \A r \in Requests :
         /\ answer'[r] # "none" => handler'[r] \in {"none", "done", "dead"}
         /\ caller'[r] = "idle" => handler'[r] = "none" /\ answer'[r] = "none"
         /\ handler'[r] # "none" => kind'[r] # "denied"
    BY <2>1, <2>2, <2>3, <2>5 DEF inside, Alive
  <2> QED
    BY <2>1, <2>4, <2>6, <2>7, <2>8
<1>6. ASSUME NEW r \in Requests, Connect(r) PROVE CallsOK'
  BY <1>6 DEF Connect
<1>7. ASSUME NEW r \in Requests, Send(r) \/ Vanish(r) PROVE CallsOK'
  BY <1>7 DEF Send, Vanish
<1>8. ASSUME NEW r \in Requests, HandlerStep(r) PROVE CallsOK'
  <2>1. CASE Read(r)
    BY <2>1 DEF Read
  <2>2. CASE Run(r)
    BY <2>2 DEF Run, AnswerTo
  <2>3. CASE Respond(r)
    BY <2>3 DEF Respond, Told, CutOff
  <2> QED
    BY <1>8, <2>1, <2>2, <2>3 DEF HandlerStep
<1>9. CASE UNCHANGED vars
  BY <1>9 DEF vars
<1> QED
  BY <1>1, <1>2, <1>3, <1>4, <1>5, <1>6, <1>7, <1>8, <1>9 DEF Next, MainStep

LEMMA BacklogType == Typed /\ [Next]_vars => BacklogOK'
<1> SUFFICES ASSUME Typed, [Next]_vars PROVE BacklogOK'
  OBVIOUS
<1> USE DEF Typed, CallsOK, BacklogOK, calls
<1>0. ToSet(backlog) \subseteq Requests
  BY DEF ToSet
<1>1. CASE Activate \/ Serve \/ Poll \/ ServiceActions \/ Exit
  BY <1>1 DEF Activate, Serve, Poll, ServiceActions, Exit
<1>2. CASE Accept
  <2> DEFINE r == Head(backlog)
  <2>1. /\ backlog' = Tail(backlog)
        /\ Tail(backlog) \in Seq(Requests) /\ IsInjective(Tail(backlog))
        /\ ToSet(Tail(backlog)) = ToSet(backlog) \ {r}
    BY <1>2, TailOnce DEF Accept, MainOK
  <2>2. \A q \in Requests \ {r} : handler'[q] = handler[q] /\ answer'[q] = answer[q]
    BY <1>2 DEF Accept, Told
  <2>3. caller' = caller
    BY <1>2 DEF Accept
  <2> QED
    BY <1>0, <2>1, <2>2, <2>3
<1>3. CASE ServerClose \/ Kill
  <2>1. CASE backlog' = <<>>
    BY <2>1 DEF ToSet, IsInjective
  <2>2. CASE backlog' = backlog /\ mode = "socket"
    <3>1. \A r \in ToSet(backlog) :
            handler'[r] = handler[r] /\ answer'[r] = answer[r] /\ caller' = caller
      BY <1>0, <1>3, <2>2 DEF ServerClose, Kill, Told, CutOff, Alive, Answers
    <3> QED
      BY <2>2, <3>1
  <2> QED
    BY <1>3, <2>1, <2>2 DEF ServerClose, Kill, MainOK
<1>4. CASE TimePasses \/ Terminate
  BY <1>4 DEF TimePasses, Terminate
<1>5. ASSUME NEW r \in Requests, Connect(r) PROVE BacklogOK'
  <2>1. r \notin ToSet(backlog) /\ handler[r] = "none" /\ answer[r] = "none"
    BY <1>5 DEF Connect
  <2>2. caller' = [caller EXCEPT ![r] = "connected"] /\ handler' = handler
    BY <1>5 DEF Connect
  <2>3. CASE backlog' = Append(backlog, r) /\ UNCHANGED answer
    <3>1. /\ backlog' \in Seq(Requests) /\ IsInjective(backlog')
          /\ ToSet(backlog') = ToSet(backlog) \cup {r}
      BY <2>1, <2>3, AppendOnce
    <3> QED
      BY <1>0, <2>1, <2>2, <2>3, <3>1
  <2>4. CASE answer' = [answer EXCEPT ![r] = "refused"] /\ UNCHANGED backlog
    BY <1>0, <2>1, <2>2, <2>4
  <2> QED
    BY <1>5, <2>3, <2>4 DEF Connect
<1>6. ASSUME NEW r \in Requests, Send(r) \/ Vanish(r) PROVE BacklogOK'
  BY <1>0, <1>6 DEF Send, Vanish
<1>7. ASSUME NEW r \in Requests, HandlerStep(r) PROVE BacklogOK'
  <2>1. handler[r] # "none" /\ r \notin ToSet(backlog)
    BY <1>7 DEF HandlerStep, Read, Run, Respond, Answers
  <2>2. \A q \in Requests \ {r} : handler'[q] = handler[q] /\ answer'[q] = answer[q]
    BY <1>7 DEF HandlerStep, Read, Run, Respond, Told, CutOff
  <2>3. UNCHANGED <<backlog, caller>>
    BY <1>7 DEF HandlerStep, Read, Run, Respond
  <2> QED
    BY <1>0, <2>1, <2>2, <2>3
<1>8. CASE UNCHANGED vars
  BY <1>8 DEF vars
<1> QED
  BY <1>1, <1>2, <1>3, <1>4, <1>5, <1>6, <1>7, <1>8 DEF Next, MainStep

LEMMA AlwaysTyped == Spec => []Typed
<1>1. Init => Typed
  <2> SUFFICES ASSUME Init PROVE Typed
    OBVIOUS
  <2>1. MainOK
    <3>1. terms \in 0..MaxTerms
      BY DaemonAssumption DEF Init
    <3>2. server = "off" /\ mode \in {"socket", "service"}
      BY Zenon DEF Init
    <3>3. /\ stopping \in BOOLEAN /\ term \in BOOLEAN
          /\ idle \in BOOLEAN /\ listed \in BOOLEAN
      BY Zenon DEF Init
    <3> QED
      BY <3>1, <3>2, <3>3 DEF MainOK, Places
  <2>2. CallsOK
    BY DEF Init, CallsOK, HandlerPlaces, Answers
  <2>3. BacklogOK
    BY DEF Init, BacklogOK, ToSet, IsInjective
  <2> QED
    BY <2>1, <2>2, <2>3 DEF Typed
<1>2. Typed /\ [Next]_vars => Typed'
  BY MainType, CallsType, BacklogType DEF Typed
<1> QED
  BY <1>1, <1>2, PTL DEF Spec

\* Values stay what they should be; a connection is in the backlog once, before
\* it is handled and while it is open.
THEOREM TypeCorrect == Spec => []TypeOK
<1>1. Typed => TypeOK
  <2> SUFFICES ASSUME Typed PROVE TypeOK
    OBVIOUS
  <2>1. \A r \in Requests :
          answer[r] # "none" => handler[r] \in {"none", "done", "dead"}
    BY DEF Typed, CallsOK
  <2>2. \A r \in ToSet(backlog) : handler[r] = "none" /\ answer[r] = "none"
    BY DEF Typed, BacklogOK
  <2> QED
    BY <2>1, <2>2, Zenon DEF Typed, MainOK, CallsOK, BacklogOK, HandlerPlaces, TypeOK
<1> QED
  BY AlwaysTyped, <1>1, PTL

-----------------------------------------------------------------------------
(* The daemon leaves unnoticed.                                            *)

\* Who reads nothing was denied, had a result that cannot be encoded, or a
\* daemon that was killed under it; who stops the daemon is counted.
LeaveInv ==
    /\ \A r \in Requests : handler[r] = "nothing" => kind[r] = "unencodable"
    /\ term => terms > 0
    /\ ExitUnnoticed

LEMMA LeaveKept == Typed /\ LeaveInv /\ [Next]_vars => LeaveInv'
<1> SUFFICES ASSUME Typed, LeaveInv, [Next]_vars PROVE LeaveInv'
  OBVIOUS
<1> USE DEF Typed, MainOK, CallsOK, LeaveInv, ExitUnnoticed, Places,
            HandlerPlaces, Answers, Alive, calls
<1>1. CASE Activate \/ Serve \/ Exit
  BY <1>1 DEF Activate, Serve, Exit
<1>2. CASE Poll
  BY <1>2 DEF Poll
<1>3. CASE Accept
  BY <1>3 DEF Accept, Told
<1>4. CASE ServiceActions
  BY <1>4 DEF ServiceActions, GivesUp
<1>5. CASE ServerClose
  BY <1>5 DEF ServerClose, Told
<1>6. CASE TimePasses
  BY <1>6 DEF TimePasses
<1>7. CASE Terminate
  BY <1>7 DEF Terminate
<1>8. CASE Kill
  BY <1>8 DEF Kill, CutOff
<1>9. ASSUME NEW r \in Requests, Connect(r) PROVE LeaveInv'
  BY <1>9 DEF Connect, Listening
<1>10. ASSUME NEW r \in Requests, Send(r) \/ Vanish(r) PROVE LeaveInv'
  BY <1>10 DEF Send, Vanish
<1>11. ASSUME NEW r \in Requests, HandlerStep(r) PROVE LeaveInv'
  <2>1. CASE Read(r)
    BY <2>1 DEF Read
  <2>2. CASE Run(r)
    BY <2>2 DEF Run, AnswerTo
  <2>3. CASE Respond(r)
    BY <2>3 DEF Respond, Told, CutOff
  <2> QED
    BY <1>11, <2>1, <2>2, <2>3 DEF HandlerStep
<1>12. CASE UNCHANGED vars
  BY <1>12 DEF vars
<1> QED
  BY <1>1, <1>2, <1>3, <1>4, <1>5, <1>6, <1>7, <1>8, <1>9, <1>10, <1>11, <1>12
  DEF Next, MainStep

\* With socket activation a call fails to reach the daemon only if it is
\* denied, if its result cannot be encoded, or if the daemon was killed under
\* it; and the daemon does not leave for idleness while an action runs.
THEOREM ExitsUnnoticed == Spec => []ExitUnnoticed
<1>1. Init => LeaveInv
  BY DEF Init, LeaveInv, ExitUnnoticed
<1>2. Typed /\ LeaveInv /\ [Next]_vars => LeaveInv'
  BY LeaveKept
<1>3. LeaveInv => ExitUnnoticed
  BY DEF LeaveInv
<1> QED
  BY AlwaysTyped, <1>1, <1>2, <1>3, PTL DEF Spec

-----------------------------------------------------------------------------
(* What callers are promised.                                              *)

Phases == [r \in Requests |-> PhaseOf(r)]
Replies == [r \in Requests |-> ReplyOf(r)]

\* A step that concerns one call changes the phase and the reply of that call.
LEMMA OneCall ==
    ASSUME NEW r \in Requests, kind' = kind,
           \A q \in Requests \ {r} : handler'[q] = handler[q] /\ answer'[q] = answer[q],
           NEW from, NEW to, PhaseOf(r) = from, PhaseOf(r)' = to
    PROVE  /\ Promise!Moves(r, from, to)
           /\ Replies' = [Replies EXCEPT ![r] = ReplyOf(r)']
<1>1. \A q \in Requests \ {r} : PhaseOf(q)' = PhaseOf(q) /\ ReplyOf(q)' = ReplyOf(q)
  BY DEF PhaseOf, ReplyOf
<1>2. Phases' = [Phases EXCEPT ![r] = to]
  BY <1>1 DEF Phases
<1>3. Replies' = [Replies EXCEPT ![r] = ReplyOf(r)']
  BY <1>1 DEF Replies
<1> QED
  BY <1>2, <1>3 DEF Promise!Moves, Phases

\* The same when the caller has read nothing yet and does not now.
LEMMA OneCallSilent ==
    ASSUME NEW r \in Requests, kind' = kind, answer' = answer,
           \A q \in Requests \ {r} : handler'[q] = handler[q],
           NEW from, NEW to, PhaseOf(r) = from, PhaseOf(r)' = to
    PROVE  Promise!Moves(r, from, to) /\ Replies' = Replies
<1>1. Promise!Moves(r, from, to)
  BY OneCall
<1>2. \A q \in Requests : ReplyOf(q)' = ReplyOf(q)
  BY DEF ReplyOf
<1> QED
  BY <1>1, <1>2 DEF Replies

\* Connections that are closed, and threads that are killed.
LEMMA CallsDropped ==
    ASSUME Typed, NEW D \in SUBSET Requests, kind' = kind,
           \A r \in D : PhaseOf(r) # "over" /\ PhaseOf(r)' = "over"
                        /\ \/ answer'[r] = answer[r] \/ answer'[r] = "empty"
                           \/ answer'[r] = "part" /\ PhaseOf(r) = "result",
           \A r \in Requests \ D :
              handler'[r] = handler[r] /\ answer'[r] = answer[r]
    PROVE  Promise!Drop(D)
<1> DEFINE told == {r \in D : answer'[r] = "empty"}
           cut == {r \in D : answer'[r] = "part" /\ PhaseOf(r) = "result"}
<1>1. Phases' = [r \in Requests |-> IF r \in D THEN "over" ELSE Phases[r]]
  <2>1. \A r \in Requests \ D : PhaseOf(r)' = PhaseOf(r)
    BY DEF PhaseOf
  <2> QED
    BY <2>1 DEF Phases
<1>2. Replies' = [r \in Requests |-> IF r \in cut THEN "part"
                                    ELSE IF r \in told THEN "empty" ELSE Replies[r]]
  <2>1. \A r \in Requests : ReplyOf(r)' = IF r \in cut THEN "part"
                                          ELSE IF r \in told THEN "empty" ELSE ReplyOf(r)
    BY DEF ReplyOf
  <2> QED
    BY <2>1 DEF Replies
<1>3. told \in SUBSET D /\ cut \in SUBSET {r \in D : Phases[r] = "result"}
  BY DEF Phases
<1> HIDE DEF told, cut
<1>4. \E t \in SUBSET D, c \in SUBSET {r \in D : Phases[r] = "result"} :
        Replies' = [r \in Requests |-> IF r \in c THEN "part"
                                      ELSE IF r \in t THEN "empty" ELSE Replies[r]]
  BY <1>2, <1>3
<1> QED
  BY <1>1, <1>4 DEF Promise!Drop, Phases, Replies

\* Every step of the daemon, of systemd and of callers is one that callers are
\* promised, or does not concern them.
LEMMA PromiseStep == Typed /\ [Next]_vars => [Promise!Next]_Promise!callVars
<1> SUFFICES ASSUME Typed, [Next]_vars PROVE [Promise!Next]_Promise!callVars
  OBVIOUS
<1> USE DEF Typed, MainOK, CallsOK, HandlerPlaces, Answers, calls
<1>a. ASSUME UNCHANGED <<kind, handler, answer>>
      PROVE  UNCHANGED Promise!callVars
  BY <1>a DEF Promise!callVars, PhaseOf, ReplyOf
<1>1. CASE Activate \/ Serve \/ Poll \/ ServiceActions \/ Exit
  BY <1>a, <1>1 DEF Activate, Serve, Poll, ServiceActions, Exit
<1>2. CASE TimePasses \/ Terminate
  BY <1>a, <1>2 DEF TimePasses, Terminate
<1>3. ASSUME NEW r \in Requests, Send(r) \/ Vanish(r)
      PROVE  UNCHANGED Promise!callVars
  BY <1>a, <1>3 DEF Send, Vanish
<1>4. CASE UNCHANGED vars
  BY <1>a, <1>4 DEF vars
\* A connection is denied, or gets a thread, which is still to read.
<1>5. CASE Accept
  <2>0. PICK r \in ToSet(backlog) : r = Head(backlog)
    BY <1>5, TailOnce DEF Accept, BacklogOK
  <2>1. r \in Requests /\ handler[r] = "none" /\ answer[r] = "none"
    BY <2>0 DEF BacklogOK, ToSet
  <2>2. CASE handler' = handler /\ Told({r}, "empty") /\ kind' = kind
    <3>1. CASE caller[r] \in {"connected", "reading"}
      <4>1. /\ \A q \in Requests \ {r} : answer'[q] = answer[q]
            /\ answer'[r] = "empty"
        BY <2>1, <2>2, <3>1 DEF Told
      <4>2. PhaseOf(r) = "waiting" /\ PhaseOf(r)' = "over"
        BY <2>1, <2>2, <4>1 DEF PhaseOf
      <4>3. \A q \in {r} : /\ PhaseOf(q) # "over" /\ PhaseOf(q)' = "over"
                           /\ answer'[q] = answer[q] \/ answer'[q] = "empty"
        BY <4>1, <4>2
      <4>4. Promise!Drop({r})
        <5> HIDE DEF Typed
        <5> QED
          BY <2>1, <2>2, <4>1, <4>3, CallsDropped
      <4> QED
        BY <2>1, <4>4 DEF Promise!Next
    <3>2. CASE caller[r] \notin {"connected", "reading"}
      <4>1. answer' = answer
        BY <2>2, <3>2 DEF Told
      <4> QED
        BY <1>a, <2>2, <4>1
    <3> QED
      BY <3>1, <3>2
  <2>3. CASE /\ handler' = [handler EXCEPT ![r] = "reading"]
             /\ UNCHANGED <<kind, answer>>
    <3>1. \A q \in Requests : PhaseOf(q)' = PhaseOf(q) /\ ReplyOf(q)' = ReplyOf(q)
      BY <2>1, <2>3 DEF PhaseOf, ReplyOf
    <3> QED
      BY <2>3, <3>1 DEF Promise!callVars
  <2> QED
    BY <1>5, <2>0, <2>2, <2>3 DEF Accept
<1>6. CASE ServerClose
  <2> DEFINE D == {r \in ToSet(backlog) : caller[r] \in {"connected", "reading"}}
  <2>1. CASE UNCHANGED answer
    BY <1>6, <1>a, <2>1 DEF ServerClose
  <2>2. CASE Told(ToSet(backlog), "empty")
    <3>1. \A r \in D : r \in Requests /\ handler[r] = "none" /\ answer[r] = "none"
      BY DEF BacklogOK, ToSet
    <3>2. UNCHANGED <<kind, handler>>
      BY <1>6 DEF ServerClose
    <3>3. \A r \in Requests : answer'[r] = IF r \in D THEN "empty" ELSE answer[r]
      BY <2>2 DEF Told
    <3>4. \A r \in D : /\ PhaseOf(r) # "over" /\ PhaseOf(r)' = "over"
                       /\ answer'[r] = answer[r] \/ answer'[r] = "empty"
      BY <3>1, <3>2, <3>3 DEF PhaseOf
    <3>5. D \in SUBSET Requests
      BY <3>1
    <3> HIDE DEF D
    <3>6. Promise!Drop(D)
      BY <3>2, <3>3, <3>4, <3>5, CallsDropped
    <3> QED
      BY <3>5, <3>6 DEF Promise!Next
  <2> QED
    BY <1>6, <2>1, <2>2 DEF ServerClose
<1>7. CASE Kill
  <2> DEFINE inside == {r \in Requests : Alive(r)}
             pending == IF mode = "socket" THEN {} ELSE ToSet(backlog)
             D == inside \cup {r \in pending : caller[r] \in {"connected", "reading"}}
  <2>1. /\ CutOff(inside \cup pending)
        /\ handler' = [r \in Requests |-> IF r \in inside THEN "dead" ELSE handler[r]]
        /\ kind' = kind
    BY <1>7, Zenon DEF Kill
  <2>2. \A r \in pending : r \in Requests /\ handler[r] = "none" /\ answer[r] = "none"
    BY DEF BacklogOK, ToSet
  <2>3. \A r \in inside : r \in Requests /\ handler[r] \notin {"none", "done", "dead"}
    BY DEF Alive
  <2>4. /\ \A r \in Requests : handler'[r] = IF r \in inside THEN "dead" ELSE handler[r]
        /\ \A r \in Requests :
             answer'[r] = IF /\ r \in inside \cup pending
                             /\ caller[r] \in {"connected", "reading"}
                          THEN (IF handler[r] = "output" THEN "part" ELSE "empty")
                          ELSE answer[r]
    BY <2>1 DEF CutOff
  <2> HIDE DEF inside, pending
  <2>5. \A r \in D : r \in Requests /\ PhaseOf(r) # "over"
    BY <2>2, <2>3 DEF PhaseOf
  <2>6. \A r \in D : /\ PhaseOf(r)' = "over"
                     /\ \/ answer'[r] = answer[r] \/ answer'[r] = "empty"
                        \/ answer'[r] = "part" /\ PhaseOf(r) = "result"
    BY <2>2, <2>3, <2>4 DEF PhaseOf
  <2>7. \A r \in Requests \ D : handler'[r] = handler[r] /\ answer'[r] = answer[r]
    BY <2>4
  <2> HIDE DEF D
  <2>8. Promise!Drop(D)
    BY <2>1, <2>5, <2>6, <2>7, CallsDropped
  <2> QED
    BY <2>5, <2>8 DEF Promise!Next
<1>8. ASSUME NEW r \in Requests, Connect(r) PROVE [Promise!Next]_Promise!callVars
  <2>1. handler[r] = "none" /\ answer[r] = "none" /\ UNCHANGED <<kind, handler>>
    BY <1>8 DEF Connect
  <2>2. CASE answer' = answer
    BY <1>a, <2>1, <2>2
  <2>3. CASE answer' = [answer EXCEPT ![r] = "refused"]
    <3>1. PhaseOf(r) = "waiting" /\ PhaseOf(r)' = "over" /\ ReplyOf(r)' = "refused"
      BY <2>1, <2>3 DEF PhaseOf, ReplyOf
    <3>2. Promise!NotReached(r)
      BY <2>1, <2>3, <3>1, OneCall DEF Promise!NotReached, Replies
    <3> QED
      BY <3>2 DEF Promise!Next
  <2> QED
    BY <1>8, <2>2, <2>3 DEF Connect
\* The thread of a request.
<1>9. ASSUME NEW r \in Requests, HandlerStep(r)
      PROVE  [Promise!Next]_Promise!callVars
  <2>1. CASE Read(r)
    <3>1. /\ handler[r] = "reading" /\ UNCHANGED <<kind, answer>>
          /\ \A q \in Requests \ {r} : handler'[q] = handler[q]
      BY <2>1 DEF Read
    <3>2. PhaseOf(r) = "waiting"
      BY <3>1 DEF PhaseOf
    <3>3. CASE handler'[r] = "exception"
      <4>1. PhaseOf(r)' = "error"
        BY <3>3 DEF PhaseOf
      <4>2. Promise!Fail(r)
        BY <3>1, <3>2, <4>1, OneCallSilent DEF Promise!Fail, Replies
      <4> QED
        BY <4>2 DEF Promise!Next
    <3>4. CASE handler'[r] = "running" /\ kind[r] # "invalid"
      <4>1. PhaseOf(r)' = "running"
        BY <3>4 DEF PhaseOf
      <4>2. kind[r] # "denied"
        BY <3>1
      <4>3. Promise!Begin(r)
        BY <3>1, <3>2, <3>4, <4>1, <4>2, OneCallSilent DEF Promise!Begin, Replies
      <4> QED
        BY <4>3 DEF Promise!Next
    <3> QED
      BY <2>1, <3>3, <3>4 DEF Read
  <2>2. CASE Run(r)
    <3>1. /\ handler[r] = "running" /\ UNCHANGED <<kind, answer>>
          /\ \A q \in Requests \ {r} : handler'[q] = handler[q]
      BY <2>2 DEF Run
    <3>2. PhaseOf(r) = "running"
      BY <3>1 DEF PhaseOf
    <3>3. handler'[r] \in {"success", "output", "exception", "nothing"}
      BY <2>2 DEF Run, AnswerTo
    <3>4. CASE handler'[r] \in {"success", "output"}
      <4>1. PhaseOf(r)' = "result"
        BY <3>4 DEF PhaseOf
      <4>2. Promise!Finish(r)
        BY <3>1, <3>2, <4>1, OneCallSilent DEF Promise!Finish, Replies
      <4> QED
        BY <4>2 DEF Promise!Next
    <3>5. CASE handler'[r] \in {"exception", "nothing"}
      <4>1. PhaseOf(r)' = "error"
        BY <3>5 DEF PhaseOf
      <4>2. Promise!Fail(r)
        BY <3>1, <3>2, <4>1, OneCallSilent DEF Promise!Fail, Replies
      <4> QED
        BY <4>2 DEF Promise!Next
    <3> QED
      BY <3>3, <3>4, <3>5
  <2>3. CASE Respond(r)
    <3> DEFINE what == IF handler[r] = "nothing" THEN "empty" ELSE handler[r]
    <3>1. /\ handler[r] \in Answers /\ answer[r] = "none" /\ kind' = kind
          /\ handler'[r] = "done"
          /\ \/ answer'[r] \in {what, "none"}
             \/ answer'[r] = "part" /\ handler[r] = "output"
          /\ \A q \in Requests \ {r} : handler'[q] = handler[q] /\ answer'[q] = answer[q]
      BY <2>3 DEF Respond, Told, CutOff
    <3>2. PhaseOf(r)' = "over"
      BY <3>1 DEF PhaseOf
    <3>3. CASE handler[r] \in {"success", "output"}
      <4>1. PhaseOf(r) = "result" /\ ReplyOf(r)' \in {"result", "part", "none"}
        BY <3>1, <3>3 DEF PhaseOf, ReplyOf
      <4>2. Promise!Reply(r)
        BY <3>1, <3>2, <4>1, OneCall DEF Promise!Reply, Replies
      <4> QED
        BY <4>2 DEF Promise!Next
    <3>4. CASE handler[r] \in {"exception", "nothing"}
      <4>1. PhaseOf(r) = "error" /\ ReplyOf(r)' \in {"exception", "empty", "none"}
        BY <3>1, <3>4 DEF PhaseOf, ReplyOf
      <4>2. Promise!Reply(r)
        BY <3>1, <3>2, <4>1, OneCall DEF Promise!Reply, Replies
      <4> QED
        BY <4>2 DEF Promise!Next
    <3> QED
      BY <3>1, <3>3, <3>4
  <2> QED
    BY <1>9, <2>1, <2>2, <2>3 DEF HandlerStep
<1> QED
  BY <1>1, <1>2, <1>3, <1>4, <1>5, <1>6, <1>7, <1>8, <1>9 DEF Next, MainStep

\* The action of a call runs at most once, never for a call that is denied or
\* refused, and never after the caller has read an answer of any kind.
THEOREM PromiseKept == Spec => ImplementsPrivilegedCalls
<1>1. Init => Promise!Init
  BY DEF Init, Promise!Init, PhaseOf, ReplyOf
<1> QED
  BY <1>1, PromiseStep, AlwaysTyped, PTL
  DEF Spec, Promise!Spec, ImplementsPrivilegedCalls

=============================================================================
