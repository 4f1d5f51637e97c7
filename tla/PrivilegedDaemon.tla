-------------------------- MODULE PrivilegedDaemon --------------------------
(***************************************************************************)
(* plinth/privileged_daemon.py and the two ends of plinth/actions.py: how  *)
(* the web service has actions run as root.                                *)
(*                                                                         *)
(* A call connects to a Unix socket, sends one request, closes its end for *)
(* writing and reads the answer until the connection is closed.  The main  *)
(* thread of the daemon accepts connections and has each handled by a      *)
(* thread of its own.  Activated by a systemd socket, the daemon exits     *)
(* when idle and leaves the socket to systemd, which starts it again when  *)
(* there are connections to accept.  Started as a service it owns the      *)
(* socket and does not exit by itself.                                     *)
(***************************************************************************)
EXTENDS Naturals, FiniteSets, Sequences, SequencesExt

CONSTANTS
    Requests,   \* calls of run_privileged_method, one connection each
    Kinds,      \* the kinds of call that are made, a subset of AllKinds
    MaxTerms,   \* how often systemd stops the daemon
    MaxGone     \* how many callers may vanish

\* denied: from a process of another user; invalid: the request, the action
\* or its arguments are refused; returns, raises: what the action does;
\* unencodable: it returns, or raises with, what JSON cannot express; streams:
\* a call for raw output; misused: raw output that was not asked for.
AllKinds == {"denied", "invalid", "returns", "raises", "unencodable",
             "streams", "misused"}

ASSUME DaemonAssumption ==
    /\ Kinds \subseteq AllKinds
    /\ MaxTerms \in Nat
    /\ MaxGone \in Nat

VARIABLES
    mode,       \* socket or service: how systemd activates the daemon
    server,     \* where the main thread of the daemon is
    stopping,   \* BaseServer.shutdown was called
    term,       \* systemd is stopping this instance
    idle,       \* idle_shutdown_time has passed since last_request_time
    listed,     \* Server._threads is a list
    backlog,    \* connections that nobody has accepted
    kind,       \* what the call of a request is
    handler,    \* the thread that handles a request: where it is, or its answer
    caller,     \* the thread that made the call
    answer,     \* what the caller has read
    killed,     \* history: requests in the daemon when it was killed
    terms       \* how often the daemon was stopped

calls == <<kind, handler, caller, answer, killed>>

vars == <<mode, server, stopping, term, idle, listed, backlog, calls, terms>>

\* loading: before the server exists; select: waiting in serve_forever;
\* accept: a connection is ready; actions: before service_actions; closing:
\* out of the loop; joining: the threads are waited for.
Places == {"off", "loading", "select", "accept", "actions", "closing", "joining"}

\* nothing: handle() itself raised, the connection is closed without a word.
Answers == {"success", "exception", "output", "nothing"}

\* A thread of the list that is_alive().
Alive(r) == handler[r] \in {"reading", "running"} \cup Answers

Init ==
    /\ mode \in {"socket", "service"}
    /\ server = "off"
    /\ stopping = FALSE /\ term = FALSE
    /\ idle = FALSE /\ listed = FALSE
    /\ backlog = <<>>
    /\ kind \in [Requests -> Kinds]
    /\ handler = [r \in Requests |-> "none"]
    /\ caller = [r \in Requests |-> "idle"]
    /\ answer = [r \in Requests |-> "none"]
    /\ killed = {}
    /\ terms = 0

-----------------------------------------------------------------------------
(* actions.py, in the web service.                                         *)

\* Somebody listens: systemd, or the daemon from server_activate to
\* server_close.
Listening == mode = "socket" \/ server \in {"select", "accept", "actions", "closing"}

\* _request_to_server connects, or fails to.
Connect(r) ==
    /\ caller[r] = "idle"
    /\ caller' = [caller EXCEPT ![r] = "connected"]
    /\ \/ /\ Listening
          /\ backlog' = Append(backlog, r)
          /\ UNCHANGED answer
       \/ /\ ~Listening
          /\ answer' = [answer EXCEPT ![r] = "refused"]
          /\ UNCHANGED backlog
    /\ UNCHANGED <<mode, server, stopping, term, idle, listed, kind, handler,
                   killed, terms>>

\* The request is sent and the writing end shut down; the caller reads.
Send(r) ==
    /\ caller[r] = "connected"
    /\ answer[r] = "none"
    /\ caller' = [caller EXCEPT ![r] = "reading"]
    /\ UNCHANGED <<mode, server, stopping, term, idle, listed, backlog, kind,
                   handler, answer, killed, terms>>

\* The web service ends in the middle of a call; its sockets are closed.
Vanish(r) ==
    /\ answer[r] = "none"
    /\ \/ caller[r] = "connected" /\ caller' = [caller EXCEPT ![r] = "cut"]
       \/ caller[r] = "reading" /\ caller' = [caller EXCEPT ![r] = "gone"]
    /\ Cardinality({q \in Requests : caller[q] \in {"cut", "gone"}}) < MaxGone
    /\ UNCHANGED <<mode, server, stopping, term, idle, listed, backlog, kind,
                   handler, answer, killed, terms>>

\* What the callers of the requests in R that are still there read.
Told(R, what) ==
    answer' = [r \in Requests |->
                 IF r \in R /\ caller[r] \in {"connected", "reading"}
                 THEN what ELSE answer[r]]

\* A stop signals the processes an action has started, too.  One that writes
\* raw output runs while this is read, and its reader takes what there is for
\* all of it: for raw output a closed connection is an end and no error.
CutOff(R) ==
    answer' = [r \in Requests |->
                 IF r \in R /\ caller[r] \in {"connected", "reading"}
                 THEN (IF handler[r] = "output" THEN "part" ELSE "empty")
                 ELSE answer[r]]

-----------------------------------------------------------------------------
(* The main thread of the daemon, and systemd.                             *)

\* systemd starts the daemon: for a connection, or because it is told to.
Activate ==
    /\ server = "off"
    /\ mode = "socket" => backlog # <<>>
    /\ server' = "loading"
    /\ stopping' = FALSE
    /\ term' = FALSE
    /\ listed' = FALSE
    /\ UNCHANGED <<mode, idle, backlog, calls, terms>>

\* Modules and apps are loaded, the server is made and serves.
Serve ==
    /\ server = "loading"
    /\ server' = "select"
    /\ idle' = FALSE
    /\ UNCHANGED <<mode, stopping, term, listed, backlog, calls, terms>>

\* A round of serve_forever: selector.select returns, with or without a
\* connection, and the loop is left when shutdown was called.
Poll ==
    /\ server = "select"
    /\ server' = IF stopping THEN "closing"
                 ELSE IF backlog = <<>> THEN "actions" ELSE "accept"
    /\ UNCHANGED <<mode, stopping, term, idle, listed, backlog, calls, terms>>

\* For mutants of Accept: a denied connection is closed and handled as well.
AcceptAnyway ==
    /\ server = "accept"
    /\ server' = "actions"
    /\ backlog' = Tail(backlog)
    /\ LET r == Head(backlog) IN
       /\ Told(IF kind[r] = "denied" THEN {r} ELSE {}, "empty")
       /\ idle' = FALSE
       /\ listed' = TRUE
       /\ handler' = [handler EXCEPT ![r] = "reading"]
    /\ UNCHANGED <<mode, stopping, term, kind, caller, killed, terms>>

\* _handle_request_noblock and verify_request: a denied connection is closed,
\* for another one a thread is put in the list and started.
Accept ==
    /\ server = "accept"
    /\ server' = "actions"
    /\ backlog' = Tail(backlog)
    /\ LET r == Head(backlog) IN
       \/ /\ kind[r] = "denied"
          /\ Told({r}, "empty")
          /\ UNCHANGED <<idle, listed, handler>>
       \/ /\ kind[r] # "denied"
          /\ idle' = FALSE
          /\ listed' = TRUE
          /\ handler' = [handler EXCEPT ![r] = "reading"]
          /\ UNCHANGED answer
    /\ UNCHANGED <<mode, stopping, term, kind, caller, killed, terms>>

\* For mutants of GivesUp: a list is taken for requests at work, although
\* finished threads stay in it until the next one is added.
GivesUpUnlessListed == mode = "socket" /\ idle /\ ~listed

\* service_actions raises TimeoutError.  When not activated by a socket there
\* is no idle_shutdown_time.
GivesUp ==
    /\ mode = "socket"
    /\ idle
    /\ listed
    /\ \A r \in Requests : ~Alive(r)

ServiceActions ==
    /\ server = "actions"
    /\ server' = IF GivesUp THEN "closing" ELSE "select"
    /\ UNCHANGED <<mode, stopping, term, idle, listed, backlog, calls, terms>>

\* idle_shutdown_time goes by without a request that is let in.
TimePasses ==
    /\ server \in {"select", "accept", "actions"}
    /\ ~idle
    /\ idle' = TRUE
    /\ UNCHANGED <<mode, server, stopping, term, listed, backlog, calls, terms>>

\* For mutants of ServerClose: the socket of systemd is closed as well.
ServerCloseAlways ==
    /\ server = "closing"
    /\ server' = "joining"
    /\ Told(ToSet(backlog), "empty")
    /\ backlog' = <<>>
    /\ UNCHANGED <<mode, stopping, term, idle, listed, kind, handler, caller,
                   killed, terms>>

\* server_close on leaving the context manager: a socket of its own is closed,
\* and with it the connections that were not accepted; the one that belongs to
\* systemd is left alone.
ServerClose ==
    /\ server = "closing"
    /\ server' = "joining"
    /\ \/ /\ mode = "socket"
          /\ UNCHANGED <<backlog, answer>>
       \/ /\ mode = "service"
          /\ Told(ToSet(backlog), "empty")
          /\ backlog' = <<>>
    /\ UNCHANGED <<mode, stopping, term, idle, listed, kind, handler, caller,
                   killed, terms>>

\* For mutants of Exit: with daemon_threads set, nobody waits for threads.
ExitAtOnce ==
    /\ server = "joining"
    /\ server' = "off"
    /\ UNCHANGED <<mode, stopping, term, idle, listed, backlog, calls, terms>>

\* server_close, or else the interpreter, waits for the threads of requests.
Exit ==
    /\ server = "joining"
    /\ \A r \in Requests : ~Alive(r)
    /\ server' = "off"
    /\ UNCHANGED <<mode, stopping, term, idle, listed, backlog, calls, terms>>

\* systemd stops the daemon.  Before there is a server, _shutdown_server does
\* nothing and the signal is lost; later it only ends serve_forever.
Terminate ==
    /\ terms < MaxTerms
    /\ server # "off"
    /\ ~term
    /\ term' = TRUE
    /\ terms' = terms + 1
    /\ stopping' = (server # "loading")
    /\ UNCHANGED <<mode, server, idle, listed, backlog, calls>>

\* TimeoutSec after that, whatever still runs is killed.
Kill ==
    /\ term
    /\ server # "off"
    /\ server' = "off"
    /\ LET inside == {r \in Requests : Alive(r)}
           pending == IF mode = "socket" THEN {} ELSE ToSet(backlog)
       IN /\ killed' = killed \cup inside \cup pending
          /\ CutOff(inside \cup pending)
          /\ handler' = [r \in Requests |-> IF r \in inside THEN "dead"
                                            ELSE handler[r]]
    /\ backlog' = IF mode = "socket" THEN backlog ELSE <<>>
    /\ UNCHANGED <<mode, stopping, term, idle, listed, kind, caller, terms>>

MainStep ==
    Activate \/ Serve \/ Poll \/ Accept \/ ServiceActions \/ ServerClose \/ Exit

-----------------------------------------------------------------------------
(* RequestHandler, a thread for each request.                              *)

\* _read_request reads to the end of what the caller sends, then the request
\* is parsed and its arguments are checked.  A caller that is cut off has
\* sent something that cannot be parsed.
Read(r) ==
    /\ handler[r] = "reading"
    /\ caller[r] # "connected"
    /\ handler' = [handler EXCEPT ![r] =
                     IF caller[r] = "cut" \/ kind[r] = "invalid"
                     THEN "exception" ELSE "running"]
    /\ UNCHANGED <<mode, server, stopping, term, idle, listed, backlog, kind,
                   caller, answer, killed, terms>>

\* What the action leaves to be written.  When json.dumps raises at the end of
\* privileged_handle_json_request the thread's storage is cleared already, and
\* get_return_value_from_exception raises in the except clause of handle().
AnswerTo(k) ==
    IF k = "returns" THEN "success"
    ELSE IF k = "streams" THEN "output"
    ELSE IF k = "unencodable" THEN "nothing"
    ELSE "exception"    \* raises, misused

\* _privileged_call.  When the processes an action has started are stopped it
\* may fail.
Run(r) ==
    /\ handler[r] = "running"
    /\ \/ handler' = [handler EXCEPT ![r] = AnswerTo(kind[r])]
       \/ term /\ handler' = [handler EXCEPT ![r] = "exception"]
    /\ UNCHANGED <<mode, server, stopping, term, idle, listed, backlog, kind,
                   caller, answer, killed, terms>>

\* _write_response, if there is one, and the connection is closed.
Respond(r) ==
    /\ handler[r] \in Answers
    /\ handler' = [handler EXCEPT ![r] = "done"]
    /\ \/ Told({r}, IF handler[r] = "nothing" THEN "empty" ELSE handler[r])
       \/ term /\ handler[r] = "output" /\ CutOff({r})
    /\ UNCHANGED <<mode, server, stopping, term, idle, listed, backlog, kind,
                   caller, killed, terms>>

\* Threads run for as long as their process does.
HandlerStep(r) ==
    /\ server # "off"
    /\ Read(r) \/ Run(r) \/ Respond(r)

-----------------------------------------------------------------------------
Next ==
    \/ MainStep
    \/ TimePasses \/ Terminate \/ Kill
    \/ \E r \in Requests : Connect(r) \/ Send(r) \/ Vanish(r) \/ HandlerStep(r)

Spec == Init /\ [][Next]_vars

\* The daemon's threads and systemd get their turns, time passes, callers go
\* on with the calls they make, and actions end.
FairSpec ==
    /\ Spec
    /\ WF_vars(MainStep)
    /\ WF_vars(TimePasses)
    /\ \A r \in Requests : WF_vars(Send(r)) /\ WF_vars(HandlerStep(r))

-----------------------------------------------------------------------------
(* Properties.                                                             *)

\* Types, and that a connection waits in the backlog once and before it is
\* handled, and is not handled when it is closed.
TypeOK ==
    /\ mode \in {"socket", "service"}
    /\ server \in Places
    /\ stopping \in BOOLEAN /\ term \in BOOLEAN
    /\ idle \in BOOLEAN /\ listed \in BOOLEAN
    /\ backlog \in Seq(Requests) /\ IsInjective(backlog)
    /\ \A r \in ToSet(backlog) : handler[r] = "none" /\ answer[r] = "none"
    /\ kind \in [Requests -> Kinds]
    /\ handler \in [Requests -> {"none", "reading", "running", "done", "dead"}
                                  \cup Answers]
    /\ caller \in [Requests -> {"idle", "connected", "reading", "cut", "gone"}]
    /\ answer \in [Requests -> (Answers \ {"nothing"})
                                 \cup {"none", "empty", "part", "refused"}]
    /\ \A r \in Requests :
         answer[r] # "none" => handler[r] \in {"none", "done", "dead"}
    /\ killed \subseteq Requests
    /\ terms \in 0..MaxTerms

\* With socket activation (privileged_daemon.py:94-97) a call fails to reach
\* the daemon only if it is denied, if its result cannot be encoded, or if the
\* daemon was killed under it, and raw output is cut short only by a stop.  And
\* unless it is stopped, the daemon does not leave for idleness while an action
\* runs or its output is read: calls would have to wait for it.
ExitUnnoticed ==
    mode = "socket" =>
        \A r \in Requests :
            /\ server \in {"closing", "joining"} /\ ~stopping => ~Alive(r)
            /\ answer[r] # "refused"
            /\ answer[r] = "empty" =>
                 r \in killed \/ kind[r] \in {"denied", "unencodable"}
            /\ answer[r] = "part" => terms > 0

\* Who makes a call gets an answer (run_privileged_method blocks without a
\* timeout), whenever the daemon exits or is stopped.
CallsAnswered ==
    \A r \in Requests :
        caller[r] \in {"connected", "reading"}
            ~> answer[r] # "none" \/ caller[r] \in {"cut", "gone"}

\* A daemon activated by its socket that has let a request in exits for good
\* once everybody is served (service_actions): a caller who does not come back
\* or a list of finished threads does not keep it.
IdleExits ==
    [](server # "off" /\ mode = "socket" /\ listed => <>(server = "off"))

-----------------------------------------------------------------------------
(* What all this promises to callers.                                      *)

\* How far a call is: over when its thread has ended or it will get none.
PhaseOf(r) ==
    IF handler[r] \in {"done", "dead"} THEN "over"
    ELSE IF handler[r] = "none" THEN (IF answer[r] = "none" THEN "waiting" ELSE "over")
    ELSE IF handler[r] = "reading" THEN "waiting"
    ELSE IF handler[r] = "running" THEN "running"
    ELSE IF handler[r] \in {"success", "output"} THEN "result"
    ELSE "error"

ReplyOf(r) == IF answer[r] \in {"success", "output"} THEN "result" ELSE answer[r]

Promise == INSTANCE PrivilegedCalls WITH
    Calls <- Requests,
    allowed <- {r \in Requests : kind[r] \notin {"denied", "invalid"}},
    phase <- [r \in Requests |-> PhaseOf(r)],
    reply <- [r \in Requests |-> ReplyOf(r)]

\* The action of a call runs at most once, never for a call that is denied or
\* refused (verify_request, privileged_handle_json_request), and never after
\* the caller has read an answer, be it that the daemon exited, closed the
\* connection, was stopped or was killed.
ImplementsPrivilegedCalls == Promise!Spec
=============================================================================
