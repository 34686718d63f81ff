-------------------------------- MODULE Engine --------------------------------
(***************************************************************************)
(* The attempt loop of a ping, engine::probe of src/engine.rs.             *)
(*                                                                         *)
(* The loop is generic over the Transport trait.  This module has its own  *)
(* steps and what it does with each result of the transport's send,        *)
(* receive and parse_reply; a transport module extends it, has the         *)
(* transport's state, and says which results are possible when.            *)
(*                                                                         *)
(* The thread may be preempted between any two steps, so the clock is read *)
(* where the code reads it.  Time is counted from the start of the attempt *)
(* and stands still at Horizon: every later time is past the deadline too. *)
(***************************************************************************)
EXTENDS Integers

CONSTANTS
    Attempts,  \* Options.attempts
    Timeout    \* Options.timeout, in ticks of 1 ms

\* Options::validate refuses anything else.
ASSUME EngineAssumption ==
    /\ Attempts \in Nat \ {0}
    /\ Timeout \in Nat \ {0}

VARIABLES
    pc,       \* where probe is
    seq,      \* the current attempt, the sequence number of its request
    age,      \* the time since start, the beginning of the attempt
    wait,     \* the time the transport's receive was given
    elapsed,  \* start.elapsed() as read after receive
    kept,     \* history: was the thread kept waiting for a processor in this attempt
    outcome   \* the result of probe, "none" while it runs

engineVars == <<pc, seq, age, wait, elapsed, kept, outcome>>

Horizon == Timeout + 3

Outcome == {"none", "success", "negative", "unreachable", "timeout", "rejected"}

\* About to send; at the head of the while loop; inside the transport's
\* receive; with a message, before and after the clock is read; returned.
EngineTypeOK ==
    /\ pc \in {"send", "loop", "receive", "received", "stamped", "done"}
    /\ seq \in 1 .. Attempts
    /\ age \in 0 .. Horizon
    /\ wait \in 0 .. Timeout
    /\ elapsed \in 0 .. Horizon
    /\ kept \in BOOLEAN
    /\ outcome \in Outcome

EngineInit ==
    /\ pc = "send"
    /\ seq = 1
    /\ age = 0
    /\ wait = 0
    /\ elapsed = 0
    /\ kept = FALSE
    /\ outcome = "none"

Settle(result) ==
    /\ pc' = "done"
    /\ outcome' = result
    /\ UNCHANGED <<seq, age, kept>>

Continue(place) ==
    /\ pc' = place
    /\ UNCHANGED <<seq, age, kept, outcome>>

OneMore == seq <= Attempts  \* Mutant: one attempt too many.

\* Another attempt of 1..=attempts is left.
AnotherAttempt == seq < Attempts

\* The loop of an attempt is left: the next attempt starts its clock, after
\* the last one the probe has timed out.
EndAttempt ==
    IF AnotherAttempt
        THEN /\ pc' = "send"
             /\ seq' = seq + 1
             /\ age' = 0
             /\ kept' = FALSE
             /\ UNCHANGED outcome
        ELSE Settle("timeout")

\* network_error: an unreachable network or host is an answer, any other
\* error of the operating system rejects.
OnError(result) ==
    \/ result = "unreachable" /\ Settle("unreachable")
    \/ result = "failed" /\ Settle("rejected")

SendReturns(result) ==
    /\ pc = "send"
    /\ \/ result = "sent" /\ Continue("loop")
       \/ OnError(result)
    /\ UNCHANGED <<wait, elapsed>>

AlwaysOpen == TRUE  \* Mutant: the loop does not look at its deadline.

BeforeDeadline == age <= Timeout

WholeTimeout == Timeout  \* Mutant: every receive gets the whole timeout.

\* deadline.checked_duration_since(now), once BeforeDeadline.
Remaining == IF age <= Timeout THEN Timeout - age ELSE 0

Loop ==
    /\ pc = "loop"
    /\ IF BeforeDeadline
          THEN wait' = Remaining /\ Continue("receive")
          ELSE EndAttempt /\ UNCHANGED wait
    /\ UNCHANGED elapsed

InterruptedToo(result) == result \in {"wouldblock", "interrupted"}  \* Mutant: EINTR ends the attempt.

EndsWait(result) == result = "wouldblock"

ReceiveReturns(result) ==
    /\ pc = "receive"
    /\ \/ result = "message" /\ Continue("received")
       \/ EndsWait(result) /\ EndAttempt
       \/ result = "interrupted" /\ ~EndsWait(result) /\ Continue("loop")
       \/ OnError(result)
    /\ wait' = 0
    /\ UNCHANGED elapsed

Stamp ==
    /\ pc = "received"
    /\ elapsed' = age
    /\ Continue("stamped")
    /\ UNCHANGED wait

NeverLate == FALSE  \* Mutant: a message read after the deadline still counts.

LateAtDeadline == age >= Timeout  \* Mutant: off by one at the deadline.

Late == age > Timeout

\* A message read past the deadline ends the attempt unread; otherwise it
\* decides the probe if parse_reply says so.
Judge(reply) ==
    /\ pc = "stamped"
    /\ IF Late
          THEN EndAttempt
          ELSE \/ reply = "echo" /\ Settle("success")
               \/ reply = "error" /\ Settle("negative")
               \/ reply = "none" /\ Continue("loop")
    /\ elapsed' = IF outcome' = "success" THEN elapsed ELSE 0
    /\ UNCHANGED wait

\* Time passes, up to the bound.
Later == IF age < Horizon THEN age + 1 ELSE age

\* The thread sleeps in a system call meanwhile, or another has its processor.
Passes(asleep) ==
    /\ age' = Later
    /\ kept' = (kept \/ ~asleep)
    /\ UNCHANGED <<pc, seq, wait, elapsed, outcome>>

-------------------------------------------------------------------------------

\* The step in which probe gives an attempt up.
AttemptEnds ==
    \/ seq' # seq
    \/ outcome = "none" /\ outcome' = "timeout"

\* The server's silence is judged on the whole timeout only: neither a signal
\* nor foreign traffic nor a short timer ends an attempt before its deadline.
AttemptRunsFull == [][AttemptEnds => age >= Timeout]_engineVars
===============================================================================
