------------------------------- MODULE RawProbe -------------------------------
(***************************************************************************)
(* engine::probe over a raw ICMP socket, struct Raw of src/engine.rs.      *)
(*                                                                         *)
(* The kernel appends to the socket a copy of every ICMP message of the    *)
(* host: answers to this probe's requests, to those of an earlier attempt, *)
(* and foreign traffic without end.  The network loses, delays, repeats    *)
(* and reorders answers; a full socket buffer drops what arrives.          *)
(***************************************************************************)
EXTENDS Engine, Sequences

CONSTANT Capacity  \* the messages the socket's receive buffer holds

ASSUME RawAssumption == Capacity \in Nat \ {0}

VARIABLES
    sent,     \* the number of requests handed to the network
    inbox,    \* the socket's receive buffer
    timer,    \* what is left of SO_RCVTIMEO for the call that sleeps in recvfrom
    taken,    \* the message recv_from returned last, while probe looks at it
    arrived   \* history: the answers that reached the host

vars == <<engineVars, sent, inbox, timer, taken, arrived>>

NotArmed == -1

Kind == {"echo", "error"}

\* A message of the socket.  History: "at" is when it arrived, counted from
\* the start of the attempt it answers.
Message == [kind : Kind \cup {"foreign"}, seq : 0 .. Attempts, at : 0 .. Horizon]

Nothing == [kind |-> "foreign", seq |-> 0, at |-> 0]

TypeOK ==
    /\ EngineTypeOK
    /\ sent \in 0 .. Attempts
    /\ inbox \in Seq(Message) /\ Len(inbox) <= Capacity
    /\ timer \in {NotArmed} \cup 0 .. Timeout
    /\ taken \in Message
    /\ arrived \subseteq [seq : 1 .. Attempts, kind : Kind]

Init ==
    /\ EngineInit
    /\ sent = 0
    /\ inbox = <<>>
    /\ timer = NotArmed
    /\ taken = Nothing
    /\ arrived = {}

-------------------------------------------------------------------------------
(* The environment: the network, the clock, signals.                         *)

Deliver(m) ==
    /\ pc # "done"
    /\ Len(inbox) < Capacity
    /\ inbox' = Append(inbox, m)

AnswerArrives ==
    \E s \in 1 .. sent, k \in Kind :
        /\ Deliver([kind |-> k, seq |-> s, at |-> IF s = seq THEN age ELSE 0])
        /\ arrived' = arrived \cup {[seq |-> s, kind |-> k]}
        /\ UNCHANGED <<engineVars, sent, timer, taken>>

ForeignArrives ==
    /\ Deliver(Nothing)
    /\ UNCHANGED <<engineVars, sent, timer, taken, arrived>>

InRecv == pc = "receive" /\ timer # NotArmed

\* In send_to, which blocks for SO_SNDTIMEO at most, or in recv_from with nothing
\* to read.
Asleep ==
    \/ pc = "send" /\ age < Timeout
    \/ InRecv /\ inbox = <<>> /\ timer > 0

Tick ==
    /\ pc # "done"
    /\ Passes(Asleep)
    /\ timer' = IF timer > 0 THEN timer - 1 ELSE timer
    /\ UNCHANGED <<sent, inbox, taken, arrived>>

-------------------------------------------------------------------------------
(* The thread that runs probe.                                               *)

\* send_to; an incomplete send is a failure of its own.
Send ==
    /\ \E result \in {"sent", "unreachable", "failed"} :
          /\ SendReturns(result)
          /\ sent' = IF result = "sent" THEN seq ELSE sent
    /\ UNCHANGED <<inbox, timer, taken, arrived>>

RawLoop == Loop /\ UNCHANGED <<sent, inbox, timer, taken, arrived>>

NoFloor(w) == w  \* Mutant: no floor.

\* wait.max(1 ms): a read timeout of zero is an error to std.
Floor(w) == IF w < 1 THEN 1 ELSE w

\* set_read_timeout.
Arm ==
    /\ pc = "receive"
    /\ timer = NotArmed
    /\ IF Floor(wait) = 0
          THEN ReceiveReturns("failed") /\ UNCHANGED timer
          ELSE timer' = Floor(wait) /\ UNCHANGED engineVars
    /\ UNCHANGED <<sent, inbox, taken, arrived>>

\* recv_from returns the oldest message of the buffer.
Take ==
    /\ InRecv
    /\ inbox # <<>>
    /\ taken' = Head(inbox)
    /\ inbox' = Tail(inbox)
    /\ timer' = NotArmed
    /\ ReceiveReturns("message")
    /\ UNCHANGED <<sent, arrived>>

\* With nothing in the buffer it returns when its timer runs out, ...
TimesOut ==
    /\ InRecv
    /\ inbox = <<>>
    /\ timer = 0
    /\ timer' = NotArmed
    /\ ReceiveReturns("wouldblock")
    /\ UNCHANGED <<sent, inbox, taken, arrived>>

\* ... or on a signal.
Interrupted ==
    /\ InRecv
    /\ inbox = <<>>
    /\ timer' = NotArmed
    /\ ReceiveReturns("interrupted")
    /\ UNCHANGED <<sent, inbox, taken, arrived>>

\* An error of the operating system goes before what the buffer holds.
ReceiveFails ==
    /\ InRecv
    /\ timer' = NotArmed
    /\ \E result \in {"unreachable", "failed"} : ReceiveReturns(result)
    /\ UNCHANGED <<sent, inbox, taken, arrived>>

RawStamp == Stamp /\ UNCHANGED <<sent, inbox, timer, taken, arrived>>

AnySequence(m) == IF m.kind \in Kind THEN m.kind ELSE "none"  \* Mutant: answers of any attempt.

\* packet::parse: an Echo Reply or an error that quotes this very request.
ParseReply(m) == IF m.kind \in Kind /\ m.seq = seq THEN m.kind ELSE "none"

RawJudge ==
    /\ Judge(ParseReply(taken))
    /\ taken' = IF outcome' \in {"success", "negative"} THEN taken ELSE Nothing
    /\ UNCHANGED <<sent, inbox, timer, arrived>>

ThreadStep ==
    \/ Send
    \/ RawLoop
    \/ Arm
    \/ Take
    \/ TimesOut
    \/ RawStamp
    \/ RawJudge

Next ==
    \/ ThreadStep
    \/ Interrupted
    \/ ReceiveFails
    \/ AnswerArrives
    \/ ForeignArrives
    \/ Tick

Spec == Init /\ [][Next]_vars

\* The clock advances and the thread is scheduled.  Nothing is assumed of the
\* network, of signals or of foreign traffic.
FairSpec == Spec /\ WF_vars(Tick) /\ WF_vars(ThreadStep)

-------------------------------------------------------------------------------

\* A reported latency is that of this attempt's own reply: at least the time
\* the reply took to reach the host, at most the timeout, however long the
\* thread was preempted between the kernel and its clock.
LatencyIsMeasured ==
    outcome = "success" =>
        /\ taken.kind = "echo" /\ taken.seq = seq
        /\ taken.at <= elapsed
        /\ elapsed <= Timeout

\* A receive that starts at the deadline itself, with no time left, is not an
\* error: the probe rejects only when a socket call failed.
DeadlineIsNoError ==
    [][outcome = "none" /\ outcome' = "rejected" => pc = "send" \/ InRecv]_vars

\* An attempt whose thread always had a processor lasts its timeout and one tick
\* of the timer's floor, whatever noise and signals wake the thread and however
\* late the attempts before it ended.
AttemptIsBounded == ~kept => age <= Timeout + 1

\* In such an attempt no answer that reached the socket in time, the deadline
\* included, is left behind when it is given up.
AnswerInTimeDecides ==
    [][AttemptEnds /\ ~kept =>
          \A m \in {inbox[j] : j \in 1 .. Len(inbox)} \cup {taken} :
              m.kind \in Kind /\ m.seq = seq => m.at > Timeout]_vars

\* Every probe settles, also under endless foreign traffic and signals.
Settles == <>(outcome # "none")

Contract == INSTANCE ProbeContract

\* The loop keeps the contract of a probe: an answer of an earlier attempt, or
\* one that never arrived, decides nothing.
ImplementsContract == Contract!ContractSpec
===============================================================================
