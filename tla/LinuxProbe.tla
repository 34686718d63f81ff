------------------------------ MODULE LinuxProbe ------------------------------
(***************************************************************************)
(* engine::probe over an unprivileged Linux ping socket, struct Ping of    *)
(* src/linux.rs.                                                           *)
(*                                                                         *)
(* The kernel queues an ICMP error twice over: a record with the quoted    *)
(* request on the error queue, and then, in a second step, its errno as    *)
(* the pending error of the socket (sk_err), which any call on the socket  *)
(* may take instead of doing its work.  Records and errnos of an earlier   *)
(* attempt turn up at any time, so the adapter drains, retries and polls   *)
(* in an order of its own; each system call of it is one step here.        *)
(***************************************************************************)
EXTENDS Engine, Sequences

CONSTANTS
    Capacity,   \* the messages, and the error records, the socket holds
    DrainLimit  \* the records one drain removes at most (64)

ASSUME LinuxAssumption ==
    /\ Capacity \in Nat \ {0}
    /\ DrainLimit \in Nat \ {0}

VARIABLES
    data,       \* the socket's receive queue
    errq,       \* the socket's error queue
    skErr,      \* is an errno pending on the socket
    posting,    \* an error whose record is queued, but not its errno yet
    at,         \* where Ping::send or Ping::receive is
    drained,    \* the records removed by the current drain
    left,       \* time to the deadline of the current receive
    timer,      \* time to the end of the poll or recvfrom under way
    taken,      \* the event that receive returned last
    meta,       \* Ping.error: is the event an error record
    sent,       \* history: the number of requests handed to the network
    arrived,    \* history: the answers that reached the host
    routeLost,  \* history: has a send of this probe found no route
    bare        \* history: an errno was taken, and no record removed since

kernelVars == <<data, errq, skErr, posting>>
eventVars == <<taken, meta>>
timeVars == <<left, timer>>
historyVars == <<sent, arrived, routeLost, bare>>
vars == <<engineVars, kernelVars, at, drained, timeVars, eventVars, historyVars>>

Kind == {"echo", "error"}

\* History: "when" is the arrival, counted from the start of the attempt.
Message ==
    [kind : Kind \cup {"foreign", "unusable"}, seq : 0 .. Attempts, when : 0 .. Horizon]

Nothing == [kind |-> "foreign", seq |-> 0, when |-> 0]

\* An error record that was truncated, or has no address or no sock_extended_err.
Unusable == [kind |-> "unusable", seq |-> 0, when |-> 0]

SendPlace == {"idle", "clear", "try", "recover", "reclear", "retry"}

ReceivePlace == {"idle", "top", "peek", "poll", "woken", "readable", "errno", "recv", "blame"}

TypeOK ==
    /\ EngineTypeOK
    /\ data \in Seq(Message) /\ Len(data) <= Capacity
    /\ errq \in Seq(Message) /\ Len(errq) <= Capacity
    /\ skErr \in BOOLEAN /\ posting \in BOOLEAN
    /\ at \in SendPlace \cup ReceivePlace
    /\ pc = "send" => at \in SendPlace
    /\ pc = "receive" => at \in ReceivePlace
    /\ pc \notin {"send", "receive"} => at = "idle"
    /\ drained \in 0 .. DrainLimit
    /\ left \in 0 .. Timeout
    /\ timer \in 0 .. Timeout + 1
    /\ taken \in Message
    /\ meta \in BOOLEAN
    /\ sent \in 0 .. Attempts
    /\ arrived \subseteq [seq : 1 .. Attempts, kind : Kind]
    /\ routeLost \in BOOLEAN
    /\ bare \in BOOLEAN

Init ==
    /\ EngineInit
    /\ data = <<>> /\ errq = <<>> /\ skErr = FALSE /\ posting = FALSE
    /\ at = "idle" /\ drained = 0 /\ left = 0 /\ timer = 0
    /\ taken = Nothing /\ meta = FALSE
    /\ sent = 0 /\ arrived = {} /\ routeLost = FALSE /\ bare = FALSE

-------------------------------------------------------------------------------
(* The kernel.                                                               *)

\* What the network brings for this socket: an answer to one of its requests,
\* late or again, or a message that only shares its identifier.
Incoming(kind) ==
    {[kind |-> kind, seq |-> s, when |-> IF s = seq THEN age ELSE 0] : s \in 1 .. sent}
        \cup {Nothing}

Recorded(m) ==
    arrived' = arrived \cup {a \in [seq : {m.seq}, kind : {m.kind}] : m.kind \in Kind}

ReplyArrives ==
    /\ pc # "done"
    /\ Len(data) < Capacity
    /\ \E m \in Incoming("echo") : data' = Append(data, m) /\ Recorded(m)
    /\ UNCHANGED <<engineVars, errq, skErr, posting, at, drained, timeVars, eventVars,
                   sent, routeLost, bare>>

ErrorArrives ==
    /\ pc # "done"
    /\ ~posting
    /\ Len(errq) < Capacity
    /\ posting' = TRUE
    /\ \E m \in Incoming("error") \cup {Unusable} : errq' = Append(errq, m) /\ Recorded(m)
    /\ UNCHANGED <<engineVars, data, skErr, at, drained, timeVars, eventVars,
                   sent, routeLost, bare>>

ErrnoPosted ==
    /\ posting
    /\ posting' = FALSE
    /\ skErr' = TRUE
    /\ UNCHANGED <<engineVars, data, errq, at, drained, timeVars, eventVars, historyVars>>

In(place) == pc = "receive" /\ at = place

Transmitting == pc = "send" /\ at \in {"try", "retry"}

Ready == data # <<>> \/ errq # <<>> \/ skErr

Sleeping ==
    \/ In("poll") /\ ~Ready
    \/ In("recv") /\ ~skErr /\ data = <<>>

\* In send_to, poll or recv_from, and the kernel is not in the middle of queueing
\* an error.
Asleep == ~posting /\ (Transmitting \/ (Sleeping /\ timer > 0))

Tick ==
    /\ pc # "done"
    /\ Passes(Asleep)
    /\ left' = IF left > 0 THEN left - 1 ELSE 0
    /\ timer' = IF timer > 0 THEN timer - 1 ELSE 0
    /\ UNCHANGED <<kernelVars, at, drained, eventVars, historyVars>>

\* recvmsg(MSG_ERRQUEUE) removes a record; the pending errno becomes that of the
\* next one, if there is one.
Dequeue ==
    /\ errq # <<>>
    /\ errq' = Tail(errq)
    /\ skErr' = (Tail(errq) # <<>>)
    /\ bare' = FALSE

\* A call of the thread takes the pending errno.
TakePending ==
    /\ skErr
    /\ skErr' = FALSE
    /\ bare' = TRUE

-------------------------------------------------------------------------------
(* Ping::send.                                                               *)

Draining == pc = "send" /\ at \in {"idle", "recover"}

NoLimit == errq = <<>>  \* Mutant: drain until the queue is empty.

\* A drain ends at the first empty read, or at its bound.
DrainIsOver == errq = <<>> \/ drained = DrainLimit

Drain ==
    /\ Draining
    /\ ~DrainIsOver
    /\ Dequeue
    /\ drained' = IF drained < DrainLimit THEN drained + 1 ELSE drained
    /\ UNCHANGED <<engineVars, data, posting, at, timeVars, eventVars, sent, arrived, routeLost>>

RetryAnyway == FALSE  \* Mutant: every failed send is tried again.

NothingDrained == drained = 0

\* A failed send with no record to blame rejects.
DrainEnds ==
    /\ Draining
    /\ DrainIsOver
    /\ drained' = 0
    /\ IF at = "recover" /\ NothingDrained
          THEN SendReturns("failed") /\ at' = "idle"
          ELSE /\ at' = IF at = "idle" THEN "clear" ELSE "reclear"
               /\ UNCHANGED engineVars
    /\ UNCHANGED <<kernelVars, timeVars, eventVars, historyVars>>

\* take_error clears the pending errno, whatever it is.
ClearError ==
    /\ pc = "send" /\ at \in {"clear", "reclear"}
    /\ skErr' = FALSE
    /\ meta' = FALSE
    /\ at' = IF at = "clear" THEN "try" ELSE "retry"
    /\ UNCHANGED <<engineVars, data, errq, posting, drained, timeVars, taken, historyVars>>

Transmit ==
    /\ Transmitting
    /\ ~skErr
    /\ SendReturns("sent")
    /\ sent' = seq
    /\ at' = "idle"
    /\ UNCHANGED <<kernelVars, drained, timeVars, eventVars, arrived, routeLost, bare>>

\* io::Error::other hides the errno from network_error.
AsOther(cause) == "failed"

\* The first failure is followed by a drain, the second is the last.
SendFails(cause) ==
    /\ Transmitting
    /\ IF at = "try"
          THEN at' = "recover" /\ UNCHANGED engineVars
          ELSE at' = "idle" /\ SendReturns(AsOther(cause))
    /\ UNCHANGED <<data, errq, posting, drained, timeVars, eventVars, sent, arrived>>

\* send_to takes a pending errno instead of sending, ...
TakesErrno ==
    /\ TakePending
    /\ SendFails("pending")
    /\ UNCHANGED routeLost

\* ... or has an error of its own.
TransmitFails ==
    /\ \E cause \in {"unreachable", "failed"} :
          /\ SendFails(cause)
          /\ routeLost' = (routeLost \/ cause = "unreachable")
    /\ UNCHANGED <<skErr, bare>>

-------------------------------------------------------------------------------
(* Ping::receive.                                                            *)

Return(result) == ReceiveReturns(result) /\ at' = "idle" /\ left' = 0 /\ timer' = 0

Goto(place) == at' = place /\ UNCHANGED <<engineVars, left>>

Enter ==
    /\ In("idle")
    /\ at' = "top"
    /\ left' = wait
    /\ UNCHANGED <<engineVars, kernelVars, drained, timer, eventVars, historyVars>>

\* The head of the loop.
Top ==
    /\ In("top")
    /\ IF left = 0 THEN Return("wouldblock") ELSE Goto("peek") /\ UNCHANGED timer
    /\ UNCHANGED <<kernelVars, drained, eventVars, historyVars>>

\* queued_error: before the poll, after it, and after a failed recv_from.  What it
\* cannot use is an empty message.
QueuedError ==
    /\ pc = "receive" /\ at \in {"peek", "woken", "readable", "blame"}
    /\ Dequeue
    /\ LET usable == Head(errq) # Unusable
       IN  /\ meta' = usable
           /\ taken' = IF usable THEN Head(errq) ELSE Nothing
    /\ Return("message")
    /\ UNCHANGED <<data, posting, drained, sent, arrived, routeLost>>

WholeWait == wait  \* Mutant: recv_from gets the wait of the whole receive.

\* The read timeout for recv_from, at least 1 ms.
ReadTimeout == IF left < 1 THEN 1 ELSE left

\* The queue is empty: poll, ask for the errno, read the data, or give up.
NoQueuedError ==
    /\ pc = "receive" /\ errq = <<>>
    /\ \/ In("peek") /\ Goto("poll") /\ timer' = left + 1
       \/ In("woken") /\ Goto("errno") /\ UNCHANGED timer
       \/ In("readable") /\ Goto("recv") /\ timer' = ReadTimeout
       \/ In("blame") /\ Return(AsOther("pending"))
    /\ meta' = IF at = "peek" THEN FALSE ELSE meta
    /\ UNCHANGED <<kernelVars, drained, taken, historyVars>>

\* poll returns on data, on an error, or for a reason that is gone by then.
Poll ==
    /\ In("poll")
    /\ \E place \in {"readable", "woken"} :
          /\ data # <<>> => place = "readable"
          /\ Goto(place)
    /\ UNCHANGED <<kernelVars, drained, timer, eventVars, historyVars>>

FalseAlarmEnds == Return("wouldblock")  \* Mutant: a false alarm ends the attempt.

FalseAlarm == Goto("top") /\ UNCHANGED timer

\* poll_event without POLLIN: a bare errno rejects.
TakeErrno ==
    /\ In("errno")
    /\ \/ TakePending /\ Return(AsOther("pending"))
       \/ ~skErr /\ FalseAlarm /\ UNCHANGED <<skErr, bare>>
    /\ UNCHANGED <<data, errq, posting, drained, eventVars, sent, arrived, routeLost>>

\* recv_from takes a pending errno first.
Read ==
    /\ In("recv")
    /\ \/ TakePending /\ Goto("blame") /\ UNCHANGED <<data, timer, eventVars>>
       \/ /\ ~skErr /\ data # <<>>
          /\ taken' = Head(data)
          /\ data' = Tail(data)
          /\ meta' = FALSE
          /\ Return("message")
          /\ UNCHANGED <<skErr, bare>>
    /\ UNCHANGED <<errq, posting, drained, sent, arrived, routeLost>>

TimesOut ==
    /\ Sleeping
    /\ timer = 0
    /\ Return("wouldblock")
    /\ UNCHANGED <<kernelVars, drained, eventVars, historyVars>>

Interrupted ==
    /\ Sleeping
    /\ Return("interrupted")
    /\ UNCHANGED <<kernelVars, drained, eventVars, historyVars>>

\* A system call fails for a reason of its own.
SystemFails ==
    /\ \/ SendReturns("failed")
       \/ ReceiveReturns("failed")
    /\ at' = "idle" /\ drained' = 0 /\ left' = 0 /\ timer' = 0
    /\ UNCHANGED <<kernelVars, eventVars, historyVars>>

-------------------------------------------------------------------------------
(* engine::probe around the adapter.                                         *)

LinuxLoop ==
    /\ Loop
    /\ UNCHANGED <<kernelVars, at, drained, timeVars, eventVars, historyVars>>

LinuxStamp ==
    /\ Stamp
    /\ UNCHANGED <<kernelVars, at, drained, timeVars, eventVars, historyVars>>

AnyRequest(m) ==  \* Mutant: an error is not matched with its request.
    IF meta THEN "error" ELSE IF m.kind = "echo" /\ m.seq = seq THEN "echo" ELSE "none"

\* parse_error compares the quote with the request of this attempt,
\* parse_ping_echo takes an Echo Reply to it.
ParseReply(m) ==
    IF m.kind = (IF meta THEN "error" ELSE "echo") /\ m.seq = seq THEN m.kind ELSE "none"

LinuxJudge ==
    /\ Judge(ParseReply(taken))
    /\ taken' = IF outcome' \in {"success", "negative"} THEN taken ELSE Nothing
    /\ UNCHANGED <<kernelVars, at, drained, timeVars, meta, historyVars>>

ThreadStep ==
    \/ Drain \/ DrainEnds \/ ClearError \/ Transmit \/ TakesErrno
    \/ Enter \/ Top \/ QueuedError \/ NoQueuedError \/ Poll \/ TakeErrno \/ Read \/ TimesOut
    \/ LinuxLoop \/ LinuxStamp \/ LinuxJudge

KernelStep == ReplyArrives \/ ErrorArrives \/ ErrnoPosted

Failure == TransmitFails \/ Interrupted \/ SystemFails

Next == ThreadStep \/ KernelStep \/ Failure \/ Tick

Spec == Init /\ [][Next]_vars

\* The clock advances and the thread is scheduled.
FairSpec == Spec /\ WF_vars(Tick) /\ WF_vars(ThreadStep)

-------------------------------------------------------------------------------

\* A bare errno does not say which request it is about.  Whichever of send_to,
\* poll_event and recv_from gets one: by the time send or receive returns, a record was
\* removed after it, to be judged or drained, or the probe is rejected.  So an errno is
\* never taken for an answer, and no attempt goes on in spite of one.
BareErrnoRejects == bare /\ at = "idle" => outcome = "rejected"

\* A reported latency is that of this attempt's reply.
LatencyIsMeasured ==
    outcome = "success" =>
        /\ taken.kind = "echo" /\ taken.seq = seq
        /\ taken.when <= elapsed
        /\ elapsed <= Timeout

\* Listening by a thread that always had a processor ends two ticks after the
\* deadline at the latest: the millisecond poll adds, and that of a read after a
\* false alarm.
ListeningIsBounded ==
    ~kept /\ pc \in {"receive", "received", "stamped"} => age <= Timeout + 2

\* In an attempt whose thread always had a processor, no reply and no error record
\* that came before the deadline is left behind when it is given up.
AnswerInTimeDecides ==
    [][AttemptEnds /\ ~kept =>
          \A m \in {data[j] : j \in 1 .. Len(data)} \cup
                   {errq[j] : j \in 1 .. Len(errq)} \cup {taken} :
              m.kind \in Kind /\ m.seq = seq => m.when >= Timeout]_vars

\* Every probe settles, also when errors are queued faster than it drains them.
Settles == <>(outcome # "none")

Contract == INSTANCE ProbeContract

\* The adapter keeps the contract of a probe.
ImplementsContract == Contract!ContractSpec

\* README.md: "A network/host-unreachable error returned while sending or
\* receiving resolves negatively".
UnreachableSendResolves == routeLost => outcome # "rejected"
===============================================================================
