----------------------------- MODULE Subprocess ------------------------------
(***************************************************************************)
(* pipeline/subprocess_util.py: run starts ffmpeg or ffprobe and waits for *)
(* it, up to a limit of time.  When the limit is over, or the caller is    *)
(* cancelled, it sends SIGTERM, waits once more, sends SIGKILL and waits   *)
(* for the end.  Nobody else knows of the process: when the caller dies,   *)
(* or is cancelled during the second wait, the process goes on.            *)
(*                                                                         *)
(* A caller makes one call at a time.                                      *)
(***************************************************************************)
EXTENDS Integers

CONSTANTS Callers,
          Outputs    \* what a process may be started for

VARIABLES call,      \* call[c]: the call c is waiting in
          orphans,   \* <<c, o>>: a process that c left behind works on o
          blows      \* blows[c]: what has happened to c; a death counts twice

callVars == <<call, orphans, blows>>

Ended == {"ok", "failed"}
Second == {"terminating", "killing"}

\* why: what the call will raise when the process is gone.
Call == [state : {"communicating"} \cup Second, out : Outputs, child : {"running"} \cup Ended,
         why : {"none", "timeout", "cancelled"}]

NoCall == [state |-> "idle"]
InCall(c) == call[c] # NoCall

CallInit ==
  /\ call = [c \in Callers |-> NoCall]
  /\ orphans = {}
  /\ blows = [c \in Callers |-> 0]

-----------------------------------------------------------------------------
Create(c, out) ==
  /\ ~InCall(c)
  /\ call' = [call EXCEPT ![c] = [state |-> "communicating", out |-> out,
                                  child |-> "running", why |-> "none"]]
  /\ UNCHANGED <<orphans, blows>>

\* The process ends by itself, or of a signal.
ChildEnds(c, code) ==
  /\ InCall(c) /\ call[c].child = "running"
  /\ call[c].state = "killing" => code = "failed"
  /\ call' = [call EXCEPT ![c].child = code]
  /\ UNCHANGED <<orphans, blows>>

\* communicate() returns: SubprocessResult or SubprocessFailed.
Answer(c, outcome) ==
  /\ InCall(c) /\ call[c].state = "communicating"
  /\ call[c].child \in Ended /\ outcome = call[c].child
  /\ call' = [call EXCEPT ![c] = NoCall]
  /\ UNCHANGED <<orphans, blows>>

\* As below, without the wait.
FaultTerminate(c, why) ==
  /\ InCall(c) /\ call[c].state = "communicating"
  /\ orphans' = IF call[c].child = "running"
                THEN orphans \cup {<<c, call[c].out>>} ELSE orphans
  /\ call' = [call EXCEPT ![c] = NoCall]
  /\ blows' = [blows EXCEPT ![c] = @ + 1]

\* wait_for is over (TimeoutError) or the task is cancelled: SIGTERM.
Terminate(c, why) ==
  /\ InCall(c) /\ call[c].state = "communicating"
  /\ call' = [call EXCEPT ![c].state = "terminating", ![c].why = why]
  /\ blows' = [blows EXCEPT ![c] = @ + 1]
  /\ UNCHANGED orphans

\* As below, without the SIGKILL.
FaultGraceOver(c) == FALSE /\ UNCHANGED callVars

\* The process ignores SIGTERM: SIGKILL.
GraceOver(c) ==
  /\ InCall(c) /\ call[c].state = "terminating" /\ call[c].child = "running"
  /\ call' = [call EXCEPT ![c].state = "killing"]
  /\ UNCHANGED <<orphans, blows>>

\* It is gone: SubprocessTimeout, or the cancellation goes on.
GaveUp(c, outcome) ==
  /\ InCall(c) /\ call[c].state \in Second
  /\ call[c].child \in Ended /\ outcome = call[c].why
  /\ call' = [call EXCEPT ![c] = NoCall]
  /\ UNCHANGED <<orphans, blows>>

\* As below, with the pair the other way round.
FaultLeave(c) ==
  /\ call' = [call EXCEPT ![c] = NoCall]
  /\ orphans' = IF InCall(c) /\ call[c].child = "running"
                THEN orphans \cup {<<call[c].out, c>>} ELSE orphans

Leave(c) ==
  /\ call' = [call EXCEPT ![c] = NoCall]
  /\ orphans' = IF InCall(c) /\ call[c].child = "running"
                THEN orphans \cup {<<c, call[c].out>>} ELSE orphans

\* A cancellation during the second wait escapes from it.
Interrupted(c) ==
  /\ InCall(c) /\ call[c].state \in Second
  /\ Leave(c)
  /\ blows' = [blows EXCEPT ![c] = @ + 1]

\* The caller's process dies.
CallerDies(c) ==
  /\ Leave(c)
  /\ blows' = [blows EXCEPT ![c] = @ + 2]

\* The last process that c left at o ends.
OrphanEnds(c, o) ==
  /\ <<c, o>> \in orphans
  /\ orphans' = orphans \ {<<c, o>>}
  /\ UNCHANGED <<call, blows>>

CallNext ==
  \E c \in Callers :
    \/ \E o \in Outputs : Create(c, o) \/ OrphanEnds(c, o)
    \/ \E code \in Ended : ChildEnds(c, code) \/ Answer(c, code)
    \/ \E why \in {"timeout", "cancelled"} : Terminate(c, why) \/ GaveUp(c, why)
    \/ GraceOver(c) \/ Interrupted(c) \/ CallerDies(c)

CallSpec == CallInit /\ [][CallNext]_callVars

-----------------------------------------------------------------------------
\* A single time-out or cancellation leaves no process behind: whoever runs the
\* job next meets no writer of the attempt before.  It takes two of them, or a
\* death (run: "On timeout, send SIGTERM, wait grace_s seconds, then SIGKILL").
OneBlowLeavesNothing ==
  \A c \in Callers, o \in Outputs : blows[c] < 2 => <<c, o>> \notin orphans
=============================================================================
