--------------------------- MODULE PrivilegedCalls ---------------------------
(***************************************************************************)
(* What a caller of privileged actions may rely on.  The action of a call  *)
(* runs at most once, and only if the call is let in and valid.  A result  *)
(* is read only of an action that ended with it.  And once a call has been *)
(* answered in any way, its action neither runs nor ever will: after an    *)
(* error the caller can try again without doing things twice at a time.    *)
(***************************************************************************)
CONSTANT Calls

VARIABLES
    allowed,  \* the calls whose action may run
    phase,    \* how far each call is
    reply     \* what its caller has read

callVars == <<allowed, phase, reply>>

Init ==
    /\ allowed \in SUBSET Calls
    /\ phase = [c \in Calls |-> "waiting"]
    /\ reply = [c \in Calls |-> "none"]

Moves(c, from, to) ==
    /\ phase[c] = from
    /\ phase' = [phase EXCEPT ![c] = to]
    /\ UNCHANGED allowed

Begin(c) == c \in allowed /\ Moves(c, "waiting", "running") /\ UNCHANGED reply

\* The action ends with a result, or it or the call before it with an error.
Finish(c) == Moves(c, "running", "result") /\ UNCHANGED reply

Fail(c) ==
    /\ Moves(c, "running", "error") \/ Moves(c, "waiting", "error")
    /\ UNCHANGED reply

\* The caller, unless it is gone, reads the result or a part of it, or a
\* description of the error or nothing in its place.
Reply(c) ==
    \/ /\ Moves(c, "result", "over")
       /\ \E what \in {"result", "part", "none"} : reply' = [reply EXCEPT ![c] = what]
    \/ /\ Moves(c, "error", "over")
       /\ \E what \in {"exception", "empty", "none"} :
             reply' = [reply EXCEPT ![c] = what]

\* Nobody listens.
NotReached(c) ==
    /\ Moves(c, "waiting", "over")
    /\ reply' = [reply EXCEPT ![c] = "refused"]

\* The daemon ends or closes connections: some calls are over at once, and
\* those of their callers that are there read nothing, or a part of a result.
Drop(dropped) ==
    /\ \A c \in dropped : phase[c] # "over"
    /\ phase' = [c \in Calls |-> IF c \in dropped THEN "over" ELSE phase[c]]
    /\ \E told \in SUBSET dropped, cut \in SUBSET {c \in dropped : phase[c] = "result"} :
          reply' = [c \in Calls |-> IF c \in cut THEN "part"
                                   ELSE IF c \in told THEN "empty" ELSE reply[c]]
    /\ UNCHANGED allowed

Next ==
    \/ \E c \in Calls : \/ Begin(c) \/ Finish(c) \/ Fail(c)
                        \/ Reply(c) \/ NotReached(c)
    \/ \E dropped \in SUBSET Calls : Drop(dropped)

Spec == Init /\ [][Next]_callVars
=============================================================================
