---------------------------- MODULE LinuxProbeProofs ----------------------------
(***************************************************************************)
(* Theorems about LinuxProbe, for every number of attempts, every timeout, *)
(* every size of the socket's queues and every bound on a drain.           *)
(***************************************************************************)
EXTENDS LinuxProbe, TLAPS

-------------------------------------------------------------------------------
(* What a step of the adapter is to the attempt loop.                        *)

Quiet == UNCHANGED <<engineVars, sent>>

Results == {"message", "wouldblock", "interrupted", "failed"}

\* The adapter gives up by itself at the head of its loop or in a system call.
Expired == (In("top") /\ left = 0) \/ (Sleeping /\ timer = 0)

\* The adapter's own steps leave the loop alone; it returns to it with a result,
\* of which "unreachable" is none.
EngineStep ==
    \/ Quiet
    \/ Tick
    \/ SendReturns("sent") /\ sent' = seq
    \/ SendReturns("failed") /\ UNCHANGED sent
    \/ \E r \in Results :
          ReceiveReturns(r) /\ UNCHANGED sent /\ (r = "wouldblock" => Expired)
    \/ Loop /\ UNCHANGED sent
    \/ Stamp /\ UNCHANGED sent
    \/ LinuxJudge /\ UNCHANGED sent

LEMMA StepsOfEngine == [Next]_vars => EngineStep
  <1> SUFFICES ASSUME [Next]_vars PROVE EngineStep
    OBVIOUS
  <1> USE DEF EngineStep, Quiet, Results, Expired, historyVars
  <1>1. CASE Drain \/ ClearError \/ Enter \/ Poll
    BY <1>1 DEF Drain, ClearError, Enter, Poll, Goto
  <1>2. CASE ReplyArrives \/ ErrorArrives \/ ErrnoPosted \/ UNCHANGED vars
    BY <1>2 DEF ReplyArrives, ErrorArrives, ErrnoPosted, vars
  <1>3. CASE DrainEnds
    BY <1>3 DEF DrainEnds
  <1>4. CASE Transmit
    BY <1>4 DEF Transmit
  <1>5. CASE TakesErrno \/ TransmitFails
    BY <1>5 DEF TakesErrno, TransmitFails, SendFails, AsOther
  <1>6. CASE Top \/ QueuedError \/ TimesOut \/ Interrupted
    BY <1>6 DEF Top, QueuedError, TimesOut, Interrupted, Return, Goto
  <1>7. CASE NoQueuedError
    BY <1>7 DEF NoQueuedError, Return, Goto, AsOther
  <1>8. CASE TakeErrno
    BY <1>8 DEF TakeErrno, FalseAlarm, Return, Goto, AsOther
  <1>9. CASE Read
    BY <1>9 DEF Read, Return, Goto
  <1>10. CASE SystemFails
    BY <1>10 DEF SystemFails
  <1>11. CASE LinuxLoop \/ LinuxStamp \/ LinuxJudge
    BY <1>11 DEF LinuxLoop, LinuxStamp, LinuxJudge
  <1>12. CASE Tick
    BY <1>12
  <1> QED
    BY <1>1, <1>2, <1>3, <1>4, <1>5, <1>6, <1>7, <1>8, <1>9, <1>10, <1>11, <1>12
       DEF Next, ThreadStep, KernelStep, Failure

-------------------------------------------------------------------------------
(* Types.                                                                    *)

LEMMA BooleanStep ==
    TypeOK /\ [Next]_vars =>
        /\ kept' \in BOOLEAN
        /\ skErr' \in BOOLEAN /\ posting' \in BOOLEAN
        /\ meta' \in BOOLEAN /\ routeLost' \in BOOLEAN /\ bare' \in BOOLEAN
  <1> SUFFICES ASSUME TypeOK, [Next]_vars
               PROVE  /\ kept' \in BOOLEAN
                      /\ skErr' \in BOOLEAN /\ posting' \in BOOLEAN
                      /\ meta' \in BOOLEAN /\ routeLost' \in BOOLEAN /\ bare' \in BOOLEAN
    OBVIOUS
  <1>1. /\ kept \in BOOLEAN
        /\ skErr \in BOOLEAN /\ posting \in BOOLEAN
        /\ meta \in BOOLEAN /\ routeLost \in BOOLEAN /\ bare \in BOOLEAN
    BY DEF TypeOK, EngineTypeOK
  <1>2. kept' \in BOOLEAN
    <2>1. CASE Tick
      BY <2>1 DEF Tick, Passes
    <2>2. CASE ~Tick
      BY <1>1, <2>2, StepsOfEngine DEF EngineStep, Quiet, SendReturns, ReceiveReturns, Loop,
         Stamp, LinuxJudge, Judge, OnError, EndAttempt, Continue, Settle,
         engineVars
    <2> QED
      BY <2>1, <2>2
  <1> USE DEF kernelVars, eventVars, historyVars
  <1>3. CASE Drain \/ DrainEnds \/ ClearError \/ Transmit \/ TakesErrno \/ TransmitFails
    BY <1>1, <1>2, <1>3 DEF Drain, DrainEnds, ClearError, Transmit, TakesErrno, TransmitFails,
       SendFails, Dequeue, TakePending
  <1>4. CASE Enter \/ Top \/ Poll \/ TimesOut \/ Interrupted \/ SystemFails
    BY <1>1, <1>2, <1>4 DEF Enter, Top, Poll, TimesOut, Interrupted, SystemFails
  <1>5. CASE QueuedError \/ NoQueuedError \/ TakeErrno \/ Read
    BY <1>1, <1>2, <1>5 DEF QueuedError, NoQueuedError, TakeErrno, Read, Dequeue,
       TakePending
  <1>6. CASE LinuxLoop \/ LinuxStamp \/ LinuxJudge
    BY <1>1, <1>2, <1>6 DEF LinuxLoop, LinuxStamp, LinuxJudge
  <1>7. CASE ReplyArrives \/ ErrorArrives \/ ErrnoPosted \/ Tick \/ UNCHANGED vars
    BY <1>1, <1>2, <1>7 DEF ReplyArrives, ErrorArrives, ErrnoPosted, Tick, vars
  <1> QED
    BY <1>3, <1>4, <1>5, <1>6, <1>7 DEF Next, ThreadStep, KernelStep, Failure

LEMMA EngineTypeStep == TypeOK /\ [Next]_vars => EngineTypeOK' /\ sent' \in 0 .. Attempts
  <1> SUFFICES ASSUME TypeOK, [Next]_vars PROVE EngineTypeOK' /\ sent' \in 0 .. Attempts
    OBVIOUS
  <1>0. kept' \in BOOLEAN
    BY BooleanStep
  <1> USE EngineAssumption DEF TypeOK, EngineTypeOK, Outcome, Horizon
  <1>1. CASE Quiet
    BY <1>0, <1>1 DEF Quiet, engineVars
  <1>2. CASE Tick
    BY <1>0, <1>2 DEF Tick, Passes, Later, historyVars
  <1>3. CASE (SendReturns("sent") /\ sent' = seq) \/ (SendReturns("failed") /\ UNCHANGED sent)
    BY <1>0, <1>3 DEF SendReturns, OnError, Continue, Settle
  <1>4. CASE \E r \in Results : ReceiveReturns(r) /\ UNCHANGED sent
    BY <1>0, <1>4 DEF Results, ReceiveReturns, EndsWait, OnError, EndAttempt, AnotherAttempt,
       Continue, Settle
  <1>5. CASE Loop /\ UNCHANGED sent
    BY <1>0, <1>5 DEF Loop, BeforeDeadline, Remaining, EndAttempt, AnotherAttempt, Continue,
       Settle
  <1>6. CASE Stamp /\ UNCHANGED sent
    BY <1>0, <1>6 DEF Stamp, Continue
  <1>7. CASE LinuxJudge /\ UNCHANGED sent
    BY <1>0, <1>7 DEF LinuxJudge, Judge, Late, EndAttempt, AnotherAttempt, Continue, Settle
  <1> QED
    BY <1>1, <1>2, <1>3, <1>4, <1>5, <1>6, <1>7, StepsOfEngine DEF EngineStep

\* The adapter is inside send or receive exactly when the loop is.
PlaceOK ==
    /\ at \in SendPlace \cup ReceivePlace
    /\ pc = "send" => at \in SendPlace
    /\ pc = "receive" => at \in ReceivePlace
    /\ pc \notin {"send", "receive"} => at = "idle"

LEMMA PlaceStep == PlaceOK /\ [Next]_vars => PlaceOK'
  <1> SUFFICES ASSUME PlaceOK, [Next]_vars PROVE PlaceOK'
    OBVIOUS
  <1> USE DEF PlaceOK, SendPlace, ReceivePlace, engineVars
  <1>1. CASE Drain \/ DrainEnds
    BY <1>1 DEF Drain, DrainEnds, Draining, SendReturns, OnError, Continue, Settle
  <1>2. CASE ClearError \/ Transmit \/ TakesErrno \/ TransmitFails
    BY <1>2 DEF ClearError, Transmit, TakesErrno, TransmitFails, Transmitting, SendFails,
       AsOther, SendReturns, OnError, Continue, Settle
  <1>3. CASE Enter \/ Top \/ Poll
    BY <1>3 DEF Enter, Top, Poll, In, Goto, Return, ReceiveReturns, EndsWait, OnError,
       EndAttempt, Continue, Settle
  <1>4. CASE QueuedError \/ TimesOut \/ Interrupted
    BY <1>4 DEF QueuedError, TimesOut, Interrupted, Return, ReceiveReturns, EndsWait, OnError,
       EndAttempt, Continue, Settle
  <1>5. CASE NoQueuedError
    BY <1>5 DEF NoQueuedError, In, Goto, Return, AsOther, ReceiveReturns, EndsWait, OnError,
       EndAttempt, Continue, Settle
  <1>6. CASE TakeErrno
    BY <1>6 DEF TakeErrno, FalseAlarm, In, Goto, Return, AsOther, ReceiveReturns, EndsWait,
       OnError, EndAttempt, Continue, Settle
  <1>7. CASE Read
    BY <1>7 DEF Read, In, Goto, Return, ReceiveReturns, EndsWait, OnError, EndAttempt,
       Continue, Settle
  <1>8. CASE SystemFails
    BY <1>8 DEF SystemFails, SendReturns, ReceiveReturns, EndsWait, OnError, EndAttempt,
       Continue, Settle
  <1>9. CASE LinuxLoop \/ LinuxStamp \/ LinuxJudge
    BY <1>9 DEF LinuxLoop, LinuxStamp, LinuxJudge, Loop, Stamp, Judge, EndAttempt, Continue,
       Settle
  <1>10. CASE ReplyArrives \/ ErrorArrives \/ ErrnoPosted \/ Tick \/ UNCHANGED vars
    BY <1>10 DEF ReplyArrives, ErrorArrives, ErrnoPosted, Tick, Passes, vars
  <1> QED
    BY <1>1, <1>2, <1>3, <1>4, <1>5, <1>6, <1>7, <1>8, <1>9, <1>10
       DEF Next, ThreadStep, KernelStep, Failure

\* The counter of the drain and the two timers.
LEMMA CounterStep ==
    TypeOK /\ [Next]_vars =>
        drained' \in 0 .. DrainLimit /\ left' \in 0 .. Timeout /\ timer' \in 0 .. Timeout + 1
  <1> SUFFICES ASSUME TypeOK, [Next]_vars
               PROVE  /\ drained' \in 0 .. DrainLimit
                      /\ left' \in 0 .. Timeout
                      /\ timer' \in 0 .. Timeout + 1
    OBVIOUS
  <1>0. /\ drained \in 0 .. DrainLimit /\ left \in 0 .. Timeout /\ timer \in 0 .. Timeout + 1
        /\ wait \in 0 .. Timeout /\ Timeout \in Nat \ {0} /\ DrainLimit \in Nat \ {0}
    BY EngineAssumption, LinuxAssumption DEF TypeOK, EngineTypeOK
  <1> USE DEF timeVars
  <1>1. CASE Drain \/ DrainEnds
    BY <1>0, <1>1 DEF Drain, DrainEnds
  <1>2. CASE ClearError \/ Transmit \/ TakesErrno \/ TransmitFails
    BY <1>0, <1>2 DEF ClearError, Transmit, TakesErrno, TransmitFails, SendFails
  <1>3. CASE Enter \/ Top \/ Poll
    BY <1>0, <1>3 DEF Enter, Top, Poll, Goto, Return
  <1>4. CASE QueuedError \/ TimesOut \/ Interrupted
    BY <1>0, <1>4 DEF QueuedError, TimesOut, Interrupted, Return
  <1>5. CASE NoQueuedError
    BY <1>0, <1>5 DEF NoQueuedError, Goto, Return, ReadTimeout
  <1>6. CASE TakeErrno
    BY <1>0, <1>6 DEF TakeErrno, FalseAlarm, Goto, Return
  <1>7. CASE Read
    BY <1>0, <1>7 DEF Read, Goto, Return
  <1>8. CASE SystemFails
    BY <1>0, <1>8 DEF SystemFails
  <1>9. CASE LinuxLoop \/ LinuxStamp \/ LinuxJudge
    BY <1>0, <1>9 DEF LinuxLoop, LinuxStamp, LinuxJudge
  <1>10. CASE ReplyArrives \/ ErrorArrives \/ ErrnoPosted \/ Tick \/ UNCHANGED vars
    BY <1>0, <1>10 DEF ReplyArrives, ErrorArrives, ErrnoPosted, Tick, vars
  <1> QED
    BY <1>1, <1>2, <1>3, <1>4, <1>5, <1>6, <1>7, <1>8, <1>9, <1>10
       DEF Next, ThreadStep, KernelStep, Failure

\* What arrives is a message, for a request that was sent if it is an answer.
LEMMA IncomingMessages ==
    ASSUME TypeOK, NEW kind \in Kind, NEW m \in Incoming(kind)
    PROVE  /\ m \in Message
           /\ m # Nothing => /\ m.kind = kind /\ m.seq \in 1 .. sent
                             /\ m.when = IF m.seq = seq THEN age ELSE 0
  <1>1. CASE m = Nothing
    BY <1>1, EngineAssumption DEF Nothing, Message, Kind, Horizon
  <1>2. CASE m # Nothing
    <2>1. PICK s \in 1 .. sent : m = [kind |-> kind, seq |-> s, when |-> IF s = seq THEN age ELSE 0]
      BY <1>2 DEF Incoming
    <2>2. s \in 0 .. Attempts /\ (IF s = seq THEN age ELSE 0) \in 0 .. Horizon
      BY EngineAssumption DEF TypeOK, EngineTypeOK, Horizon
    <2> QED
      BY <2>1, <2>2 DEF Message
  <1> QED
    BY <1>1, <1>2

\* The steps that leave the queues and the message in hand alone, but for
\* forgetting it.
LEMMA QueuesStay ==
    [Next]_vars =>
        \/ UNCHANGED <<data, errq, arrived>> /\ taken' \in {taken, Nothing}
        \/ ReplyArrives \/ ErrorArrives \/ Drain \/ QueuedError \/ Read
  <1> SUFFICES ASSUME [Next]_vars
               PROVE  \/ UNCHANGED <<data, errq, arrived>> /\ taken' \in {taken, Nothing}
                      \/ ReplyArrives \/ ErrorArrives \/ Drain \/ QueuedError \/ Read
    OBVIOUS
  <1> USE DEF kernelVars, eventVars, historyVars
  <1>1. CASE DrainEnds \/ ClearError \/ Transmit \/ TakesErrno \/ TransmitFails
    BY <1>1 DEF DrainEnds, ClearError, Transmit, TakesErrno, TransmitFails, SendFails
  <1>2. CASE Enter \/ Top \/ Poll \/ NoQueuedError \/ TakeErrno
    BY <1>2 DEF Enter, Top, Poll, NoQueuedError, TakeErrno
  <1>3. CASE TimesOut \/ Interrupted \/ SystemFails
    BY <1>3 DEF TimesOut, Interrupted, SystemFails
  <1>4. CASE LinuxLoop \/ LinuxStamp \/ LinuxJudge
    BY <1>4 DEF LinuxLoop, LinuxStamp, LinuxJudge
  <1>5. CASE ErrnoPosted \/ Tick \/ UNCHANGED vars
    BY <1>5 DEF ErrnoPosted, Tick, vars
  <1> QED
    BY <1>1, <1>2, <1>3, <1>4, <1>5 DEF Next, ThreadStep, KernelStep, Failure

LEMMA QueueTypeStep ==
    TypeOK /\ [Next]_vars =>
        /\ data' \in Seq(Message) /\ Len(data') <= Capacity
        /\ errq' \in Seq(Message) /\ Len(errq') <= Capacity
        /\ taken' \in Message
        /\ arrived' \subseteq [seq : 1 .. Attempts, kind : Kind]
  <1> SUFFICES ASSUME TypeOK, [Next]_vars
               PROVE  /\ data' \in Seq(Message) /\ Len(data') <= Capacity
                      /\ errq' \in Seq(Message) /\ Len(errq') <= Capacity
                      /\ taken' \in Message
                      /\ arrived' \subseteq [seq : 1 .. Attempts, kind : Kind]
    OBVIOUS
  <1>1. /\ data \in Seq(Message) /\ Len(data) <= Capacity
        /\ errq \in Seq(Message) /\ Len(errq) <= Capacity
        /\ taken \in Message /\ Capacity \in Nat
        /\ arrived \subseteq [seq : 1 .. Attempts, kind : Kind]
    BY LinuxAssumption DEF TypeOK
  <1>2. Nothing \in Message /\ Unusable \in Message
    BY EngineAssumption DEF Nothing, Unusable, Message, Kind, Horizon
  <1>3. ASSUME NEW kind \in Kind, NEW m \in Incoming(kind) \cup {Unusable}, Recorded(m)
        PROVE  m \in Message /\ arrived' \subseteq [seq : 1 .. Attempts, kind : Kind]
    <2>1. m \in Message /\ (m.kind \in Kind => m.seq \in 1 .. Attempts)
      <3>1. CASE m = Unusable \/ m = Nothing
        BY <1>2, <3>1 DEF Nothing, Unusable, Kind
      <3>2. CASE m # Unusable /\ m # Nothing
        <4>1. m \in Message /\ m.seq \in 1 .. sent
          BY <1>3, <3>2, IncomingMessages
        <4>2. sent \in 0 .. Attempts /\ Attempts \in Nat
          BY EngineAssumption DEF TypeOK
        <4> QED
          BY <4>1, <4>2
      <3> QED
        BY <3>1, <3>2
    <2> QED
      BY <1>1, <1>3, <2>1 DEF Recorded
  <1>4. CASE UNCHANGED <<data, errq, arrived>> /\ taken' \in {taken, Nothing}
    BY <1>1, <1>2, <1>4
  <1>5. CASE ReplyArrives
    <2>1. PICK m \in Incoming("echo") : data' = Append(data, m) /\ Recorded(m)
      BY <1>5 DEF ReplyArrives
    <2>2. m \in Message /\ arrived' \subseteq [seq : 1 .. Attempts, kind : Kind]
      BY <1>3, <2>1 DEF Kind
    <2> QED
      BY <1>1, <1>5, <2>1, <2>2 DEF ReplyArrives, eventVars
  <1>6. CASE ErrorArrives
    <2>1. PICK m \in Incoming("error") \cup {Unusable} : errq' = Append(errq, m) /\ Recorded(m)
      BY <1>6 DEF ErrorArrives
    <2>2. m \in Message /\ arrived' \subseteq [seq : 1 .. Attempts, kind : Kind]
      BY <1>3, <2>1 DEF Kind
    <2> QED
      BY <1>1, <1>6, <2>1, <2>2 DEF ErrorArrives, eventVars
  <1>7. CASE Drain \/ QueuedError
    <2>1. /\ errq # <<>> /\ errq' = Tail(errq) /\ taken' \in {taken, Head(errq), Nothing}
          /\ data' = data /\ arrived' = arrived
      BY <1>7 DEF Drain, QueuedError, Dequeue, eventVars, historyVars
    <2>2. Tail(errq) \in Seq(Message) /\ Len(Tail(errq)) <= Capacity /\ Head(errq) \in Message
      BY <1>1, <2>1
    <2> QED
      BY <1>1, <1>2, <2>1, <2>2
  <1>8. CASE Read
    <2>1. UNCHANGED <<errq, arrived>>
      BY <1>8 DEF Read
    <2>2. CASE UNCHANGED <<data, taken>>
      BY <1>1, <2>1, <2>2
    <2>3. CASE data # <<>> /\ taken' = Head(data) /\ data' = Tail(data)
      BY <1>1, <2>1, <2>3
    <2> QED
      BY <1>8, <2>2, <2>3 DEF Read, eventVars
  <1> QED
    BY <1>4, <1>5, <1>6, <1>7, <1>8, QueuesStay

LEMMA TypeStep == TypeOK /\ [Next]_vars => TypeOK'
  <1> SUFFICES ASSUME TypeOK, [Next]_vars PROVE TypeOK'
    OBVIOUS
  <1>1. PlaceOK'
    BY PlaceStep DEF TypeOK, PlaceOK
  <1> QED
    BY <1>1, BooleanStep, EngineTypeStep, CounterStep, QueueTypeStep DEF TypeOK, PlaceOK

LEMMA InitType == Init => TypeOK
  <1> SUFFICES ASSUME Init PROVE TypeOK
    OBVIOUS
  <1>1. Nothing \in Message
    BY EngineAssumption DEF Nothing, Message, Kind, Horizon
  <1>2. /\ kept \in BOOLEAN
        /\ skErr \in BOOLEAN /\ posting \in BOOLEAN
        /\ meta \in BOOLEAN /\ routeLost \in BOOLEAN /\ bare \in BOOLEAN
    BY DEF Init, EngineInit
  <1>3. EngineTypeOK
    BY <1>2, EngineAssumption DEF Init, EngineInit, EngineTypeOK, Outcome, Horizon
  <1> QED
    BY <1>1, <1>2, <1>3, EngineAssumption, LinuxAssumption
       DEF Init, EngineInit, TypeOK, SendPlace, ReceivePlace

\* The queues, the timers and the places of the adapter keep their types.
THEOREM TypeCorrect == Spec => []TypeOK
  BY InitType, TypeStep, PTL DEF Spec

-------------------------------------------------------------------------------
(* The inductive invariant.                                                  *)

\* The probe has returned exactly when it has an outcome.
Returned == pc = "done" <=> outcome # "none"

\* Requests are sent in order, one per attempt, at its start.
SentOK ==
    /\ sent <= seq
    /\ pc = "send" => sent = seq - 1
    /\ pc \notin {"send", "done"} => sent = seq

\* Every message in a queue or in the hands of the thread.
Heard ==
    {data[j] : j \in 1 .. Len(data)} \cup {errq[j] : j \in 1 .. Len(errq)} \cup {taken}

\* A message answers a request that was sent, it has arrived, and if it answers
\* the current attempt, it arrived since that began.
Genuine(m) ==
    /\ m.seq <= sent
    /\ m.seq = seq => m.when <= age
    /\ m.kind \in Kind => [seq |-> m.seq, kind |-> m.kind] \in arrived

AllGenuine == \A m \in Heard : Genuine(m)

\* The clock was read after the message had arrived.
StampOK ==
    pc = "stamped" =>
        elapsed <= age /\ (taken.seq = seq => taken.when <= elapsed)

\* What is left of the wait, of a poll and of a read reaches to the deadline.
WaitOK ==
    pc = "receive" =>
        /\ at = "idle" => age + wait >= Timeout
        /\ at # "idle" => age + left >= Timeout
        /\ at \in {"poll", "recv"} => age + timer >= Timeout

\* A drain counts from zero.  An errno that was taken is looked into at once: by the
\* second drain, as long as it has found nothing, or by the last look at the error queue.
BareOK ==
    /\ at \in {"clear", "try", "reclear", "retry"} => drained = 0
    /\ bare =>
          \/ pc = "send" /\ at = "recover" /\ drained = 0
          \/ pc = "receive" /\ at = "blame"
          \/ outcome = "rejected"

LInv ==
    /\ TypeOK
    /\ Returned
    /\ SentOK
    /\ AllGenuine
    /\ StampOK
    /\ WaitOK
    /\ LatencyIsMeasured
    /\ BareOK

-------------------------------------------------------------------------------

LEMMA InitLInv == Init => LInv
  <1> SUFFICES ASSUME Init PROVE LInv
    OBVIOUS
  <1>1. TypeOK
    BY InitType
  <1>2. /\ Returned /\ SentOK /\ StampOK /\ WaitOK /\ LatencyIsMeasured /\ BareOK
    BY DEF Init, EngineInit, Returned, SentOK, StampOK, WaitOK, LatencyIsMeasured,
       BareOK
  <1>3. AllGenuine
    <2>1. Heard = {Nothing}
      BY DEF Heard, Init
    <2> QED
      BY <2>1 DEF AllGenuine, Genuine, Nothing, Kind, Init, EngineInit
  <1> QED
    BY <1>1, <1>2, <1>3 DEF LInv

\* One step keeps the parts that relate pc, seq, sent and the outcome.
LEMMA ControlStep ==
    LInv /\ [Next]_vars => Returned' /\ SentOK'
  <1> SUFFICES ASSUME LInv, [Next]_vars PROVE Returned' /\ SentOK'
    OBVIOUS
  <1>0. /\ Returned /\ SentOK /\ seq \in Nat /\ sent \in Nat
        /\ pc \in {"send", "loop", "receive", "received", "stamped", "done"}
    BY EngineAssumption DEF LInv, TypeOK, EngineTypeOK
  <1> USE DEF Returned, SentOK
  <1>1. CASE Quiet
    BY <1>0, <1>1 DEF Quiet, engineVars
  <1>2. CASE Tick
    BY <1>0, <1>2 DEF Tick, Passes, historyVars
  <1>3. CASE (SendReturns("sent") /\ sent' = seq) \/ (SendReturns("failed") /\ UNCHANGED sent)
    BY <1>0, <1>3 DEF SendReturns, OnError, Continue, Settle
  <1>4. CASE \E r \in Results : ReceiveReturns(r) /\ UNCHANGED sent
    BY <1>0, <1>4 DEF Results, ReceiveReturns, EndsWait, OnError, EndAttempt, AnotherAttempt,
       Continue, Settle
  <1>5. CASE Loop /\ UNCHANGED sent
    BY <1>0, <1>5 DEF Loop, EndAttempt, AnotherAttempt, Continue, Settle
  <1>6. CASE Stamp /\ UNCHANGED sent
    BY <1>0, <1>6 DEF Stamp, Continue
  <1>7. CASE LinuxJudge /\ UNCHANGED sent
    BY <1>0, <1>7 DEF LinuxJudge, Judge, EndAttempt, AnotherAttempt, Continue, Settle
  <1> QED
    BY <1>1, <1>2, <1>3, <1>4, <1>5, <1>6, <1>7, StepsOfEngine DEF EngineStep

\* A step forgets neither requests nor arrivals, and the clock goes forward until
\* the next attempt begins.
LEMMA Forward ==
    LInv /\ [Next]_vars =>
        /\ sent <= sent'
        /\ arrived \subseteq arrived'
        /\ (seq' = seq /\ age <= age') \/ seq' = seq + 1
  <1> SUFFICES ASSUME LInv, [Next]_vars
               PROVE  /\ sent <= sent'
                      /\ arrived \subseteq arrived'
                      /\ (seq' = seq /\ age <= age') \/ seq' = seq + 1
    OBVIOUS
  <1>0. SentOK /\ seq \in Nat /\ sent \in Nat /\ age \in Nat
    BY EngineAssumption DEF LInv, TypeOK, EngineTypeOK, Horizon
  <1>1. arrived \subseteq arrived'
    BY QueuesStay DEF ReplyArrives, ErrorArrives, Recorded, Drain, QueuedError, Read,
       historyVars
  <1>2. CASE Quiet
    BY <1>0, <1>1, <1>2 DEF Quiet, engineVars
  <1>3. CASE Tick
    BY <1>0, <1>1, <1>3 DEF Tick, Passes, Later, historyVars
  <1>4. CASE (SendReturns("sent") /\ sent' = seq) \/ (SendReturns("failed") /\ UNCHANGED sent)
    BY <1>0, <1>1, <1>4 DEF SendReturns, OnError, Continue, Settle, SentOK
  <1>5. CASE \E r \in Results : ReceiveReturns(r) /\ UNCHANGED sent
    BY <1>0, <1>1, <1>5 DEF Results, ReceiveReturns, EndsWait, OnError, EndAttempt, Continue,
       Settle
  <1>6. CASE (Loop \/ Stamp) /\ UNCHANGED sent
    BY <1>0, <1>1, <1>6 DEF Loop, Stamp, EndAttempt, Continue, Settle
  <1>7. CASE LinuxJudge /\ UNCHANGED sent
    BY <1>0, <1>1, <1>7 DEF LinuxJudge, Judge, EndAttempt, Continue, Settle
  <1> QED
    BY <1>2, <1>3, <1>4, <1>5, <1>6, <1>7, StepsOfEngine DEF EngineStep

\* One step keeps a genuine message genuine.
LEMMA StaysGenuine ==
    ASSUME LInv, [Next]_vars, NEW m \in Message, Genuine(m)
    PROVE  Genuine(m)'
  <1>1. /\ sent <= sent'
        /\ arrived \subseteq arrived'
        /\ (seq' = seq /\ age <= age') \/ seq' = seq + 1
    BY Forward
  <1>2. TypeOK /\ TypeOK'
    BY TypeStep DEF LInv
  <1>3. /\ m.seq \in Nat /\ m.when \in Nat
        /\ sent \in Nat /\ sent' \in Nat /\ seq \in Nat /\ seq' \in Nat
        /\ age \in Nat /\ age' \in Nat
    BY <1>2, EngineAssumption DEF TypeOK, EngineTypeOK, Message, Horizon
  <1>4. m.seq <= sent' /\ (m.seq = seq' => m.when <= age')
    BY <1>1, <1>3 DEF Genuine, LInv, SentOK
  <1>5. m.kind \in Kind => [seq |-> m.seq, kind |-> m.kind] \in arrived'
    BY <1>1 DEF Genuine
  <1> QED
    BY <1>4, <1>5 DEF Genuine

\* A message that arrives in this step, for a request of this probe.
Arriving(m) ==
    /\ UNCHANGED <<engineVars, sent>>
    /\ m.kind \in Kind
    /\ m.seq \in 1 .. sent
    /\ m.when = IF m.seq = seq THEN age ELSE 0
    /\ [seq |-> m.seq, kind |-> m.kind] \in arrived'

\* A message is heard already, or it answers nothing, or it arrives in this step.
LEMMA HeardStep ==
    LInv /\ [Next]_vars =>
        \A m \in Heard' : m \in Heard \/ m \in {Nothing, Unusable} \/ Arriving(m)
  <1> SUFFICES ASSUME LInv, [Next]_vars, NEW m \in Heard',
                      m \notin Heard, m \notin {Nothing, Unusable}
               PROVE  Arriving(m)
    OBVIOUS
  <1>1. data \in Seq(Message) /\ errq \in Seq(Message)
    BY DEF LInv, TypeOK
  <1>2. ASSUME NEW s \in Seq(Message), s # <<>>
        PROVE  /\ Head(s) \in {s[j] : j \in 1 .. Len(s)}
               /\ {Tail(s)[j] : j \in 1 .. Len(Tail(s))} \subseteq {s[j] : j \in 1 .. Len(s)}
    <2>1. Head(s) = s[1] /\ 1 \in 1 .. Len(s)
      BY <1>2
    <2>2. ASSUME NEW j \in 1 .. Len(Tail(s)) PROVE Tail(s)[j] \in {s[i] : i \in 1 .. Len(s)}
      <3>1. j + 1 \in 1 .. Len(s) /\ Tail(s)[j] = s[j + 1]
        BY <1>2
      <3> QED
        BY <3>1
    <2> QED
      BY <2>1, <2>2
  <1>3. ASSUME NEW s \in Seq(Message), NEW a, NEW j \in 1 .. Len(Append(s, a))
        PROVE  Append(s, a)[j] = a \/ Append(s, a)[j] \in {s[i] : i \in 1 .. Len(s)}
    <2>1. j \in 1 .. Len(s) \/ j = Len(s) + 1
      BY <1>3
    <2>2. CASE j \in 1 .. Len(s)
      <3>1. Append(s, a)[j] = s[j]
        BY <1>3, <2>2
      <3> QED
        BY <2>2, <3>1
    <2>3. CASE j = Len(s) + 1
      BY <1>3, <2>3
    <2> QED
      BY <2>1, <2>2, <2>3
  <1>4. CASE UNCHANGED <<data, errq, arrived>> /\ taken' \in {taken, Nothing}
    BY <1>4 DEF Heard
  <1>5. CASE ReplyArrives
    <2>1. PICK a \in Incoming("echo") : data' = Append(data, a) /\ Recorded(a)
      BY <1>5 DEF ReplyArrives
    <2>2. errq' = errq /\ taken' = taken /\ UNCHANGED <<engineVars, sent>>
      BY <1>5 DEF ReplyArrives, eventVars
    <2>3. m = a
      BY <1>1, <1>3, <2>1, <2>2 DEF Heard
    <2>4. /\ m.kind \in Kind /\ m.seq \in 1 .. sent
          /\ m.when = IF m.seq = seq THEN age ELSE 0
      BY <2>1, <2>3, IncomingMessages DEF LInv, Kind
    <2> QED
      BY <2>1, <2>2, <2>3, <2>4 DEF Arriving, Recorded
  <1>6. CASE ErrorArrives
    <2>1. PICK a \in Incoming("error") \cup {Unusable} : errq' = Append(errq, a) /\ Recorded(a)
      BY <1>6 DEF ErrorArrives
    <2>2. data' = data /\ taken' = taken /\ UNCHANGED <<engineVars, sent>>
      BY <1>6 DEF ErrorArrives, eventVars
    <2>3. m = a
      BY <1>1, <1>3, <2>1, <2>2 DEF Heard
    <2>4. /\ m.kind \in Kind /\ m.seq \in 1 .. sent
          /\ m.when = IF m.seq = seq THEN age ELSE 0
      BY <2>1, <2>3, IncomingMessages DEF LInv, Kind
    <2> QED
      BY <2>1, <2>2, <2>3, <2>4 DEF Arriving, Recorded
  <1>7. CASE Drain \/ QueuedError
    <2>1. /\ errq # <<>> /\ errq' = Tail(errq) /\ taken' \in {taken, Head(errq), Nothing}
          /\ data' = data
      BY <1>7 DEF Drain, QueuedError, Dequeue, eventVars, historyVars
    <2> QED
      BY <1>1, <1>2, <2>1 DEF Heard
  <1>8. CASE Read
    <2>1. CASE skErr
      BY <1>8, <2>1 DEF Read, eventVars, Heard
    <2>2. CASE ~skErr
      <3>1. data # <<>> /\ data' = Tail(data) /\ taken' = Head(data) /\ errq' = errq
        BY <1>8, <2>2 DEF Read, TakePending, eventVars
      <3> QED
        BY <1>1, <1>2, <3>1 DEF Heard
    <2> QED
      BY <2>1, <2>2
  <1> QED
    BY <1>4, <1>5, <1>6, <1>7, <1>8, QueuesStay

LEMMA HeardAreMessages == TypeOK => \A m \in Heard : m \in Message
  BY DEF TypeOK, Heard

\* One step keeps every message genuine: those that stay, and a new one.
LEMMA MessagesStep == LInv /\ [Next]_vars => AllGenuine'
  <1> SUFFICES ASSUME LInv, [Next]_vars, NEW m \in Heard' PROVE Genuine(m)'
    BY DEF AllGenuine
  <1>1. /\ seq' \in Nat /\ seq' >= 1 /\ sent' \in Nat /\ age' \in Nat
    BY EngineTypeStep, EngineAssumption DEF LInv, EngineTypeOK, Horizon
  <1>2. CASE m \in Heard
    BY <1>2, StaysGenuine, HeardAreMessages DEF LInv, AllGenuine
  <1>3. CASE m \in {Nothing, Unusable}
    BY <1>1, <1>3 DEF Genuine, Nothing, Unusable, Kind
  <1>4. CASE Arriving(m)
    <2>1. m.seq <= sent' /\ (m.seq = seq' => m.when <= age')
      BY <1>1, <1>4 DEF Arriving, engineVars
    <2> QED
      BY <1>4, <2>1 DEF Arriving, Genuine
  <1> QED
    BY <1>2, <1>3, <1>4, HeardStep

\* Only receive fetches a message, and only the loop forgets one.
LEMMA HandStays == [Next]_vars => taken' = taken \/ pc = "receive" \/ LinuxJudge
  <1> SUFFICES ASSUME [Next]_vars PROVE taken' = taken \/ pc = "receive" \/ LinuxJudge
    OBVIOUS
  <1> USE DEF kernelVars, eventVars, historyVars
  <1>1. CASE Drain \/ DrainEnds \/ ClearError \/ Transmit \/ TakesErrno \/ TransmitFails
    BY <1>1 DEF Drain, DrainEnds, ClearError, Transmit, TakesErrno, TransmitFails, SendFails
  <1>2. CASE Enter \/ Top \/ Poll \/ NoQueuedError \/ TakeErrno
    BY <1>2 DEF Enter, Top, Poll, NoQueuedError, TakeErrno
  <1>3. CASE TimesOut \/ Interrupted \/ SystemFails
    BY <1>3 DEF TimesOut, Interrupted, SystemFails
  <1>4. CASE LinuxLoop \/ LinuxStamp
    BY <1>4 DEF LinuxLoop, LinuxStamp
  <1>5. CASE ReplyArrives \/ ErrorArrives \/ ErrnoPosted \/ Tick \/ UNCHANGED vars
    BY <1>5 DEF ReplyArrives, ErrorArrives, ErrnoPosted, Tick, vars
  <1>6. CASE QueuedError \/ Read
    BY <1>6 DEF QueuedError, Read, In
  <1> QED
    BY <1>1, <1>2, <1>3, <1>4, <1>5, <1>6 DEF Next, ThreadStep, KernelStep, Failure

\* One step keeps the reading of the clock behind the message it is about.
LEMMA StampStep == LInv /\ [Next]_vars => StampOK'
  <1> SUFFICES ASSUME LInv, [Next]_vars, pc' = "stamped"
               PROVE  elapsed' <= age' /\ (taken'.seq = seq' => taken'.when <= elapsed')
    BY DEF StampOK
  <1>0. /\ StampOK /\ age \in 0 .. Horizon /\ elapsed \in 0 .. Horizon /\ Horizon \in Nat
        /\ taken.seq = seq => taken.when <= age
    <2>1. Genuine(taken)
      BY DEF LInv, AllGenuine, Heard
    <2>2. /\ StampOK /\ age \in 0 .. Horizon /\ elapsed \in 0 .. Horizon /\ Horizon \in Nat
      BY EngineAssumption DEF LInv, TypeOK, EngineTypeOK, Horizon
    <2> QED
      BY <2>1, <2>2 DEF Genuine
  <1>1. taken' = taken \/ pc = "receive" \/ LinuxJudge
    BY HandStays
  <1>2. CASE Quiet
    <2>1. taken' = taken
      BY <1>1, <1>2 DEF Quiet, engineVars, LinuxJudge, Judge, Settle, Continue, EndAttempt
    <2> QED
      BY <1>0, <1>2, <2>1 DEF Quiet, engineVars, StampOK
  <1>3. CASE Tick
    <2>1. taken' = taken
      BY <1>3 DEF Tick, eventVars
    <2> QED
      BY <1>0, <1>3, <2>1 DEF Tick, Passes, Later, StampOK
  <1>4. CASE Stamp
    <2>1. taken' = taken
      BY <1>1, <1>4 DEF Stamp, LinuxJudge, Judge
    <2> QED
      BY <1>0, <1>4, <2>1 DEF Stamp, Continue
  <1>5. CASE \E r \in Results : SendReturns(r) \/ ReceiveReturns(r)
    BY <1>5 DEF Results, SendReturns, ReceiveReturns, OnError, EndAttempt, Continue, Settle
  <1>6. CASE SendReturns("sent") \/ Loop \/ LinuxJudge
    BY <1>6 DEF SendReturns, OnError, Loop, LinuxJudge, Judge, EndAttempt, Continue, Settle
  <1> QED
    BY <1>2, <1>3, <1>4, <1>5, <1>6, StepsOfEngine DEF EngineStep, Results

\* One step keeps the latency a measured one.
LEMMA LatencyStep == LInv /\ [Next]_vars => LatencyIsMeasured'
  <1> SUFFICES ASSUME LInv, [Next]_vars, outcome' = "success"
               PROVE  /\ taken'.kind = "echo" /\ taken'.seq = seq'
                      /\ taken'.when <= elapsed' /\ elapsed' <= Timeout
    BY DEF LatencyIsMeasured
  <1>1. /\ outcome = "success" => pc = "done"
        /\ LatencyIsMeasured /\ StampOK
        /\ age \in Nat /\ elapsed \in Nat /\ Timeout \in Nat
    BY EngineAssumption DEF LInv, TypeOK, EngineTypeOK, Returned, Horizon
  <1>2. CASE outcome = "success"
    <2>1. UNCHANGED engineVars
      BY <1>1, <1>2, StepsOfEngine DEF EngineStep, Quiet, Tick, SendReturns, ReceiveReturns,
         Loop, Stamp, LinuxJudge, Judge
    <2>2. taken' = taken
      BY <1>1, <1>2, HandStays DEF LinuxJudge, Judge
    <2> QED
      BY <1>1, <1>2, <2>1, <2>2 DEF LatencyIsMeasured, engineVars
  <1>3. CASE LinuxJudge
    <2>1. /\ pc = "stamped" /\ age <= Timeout /\ ParseReply(taken) = "echo"
          /\ seq' = seq /\ elapsed' = elapsed /\ taken' = taken
      BY <1>1, <1>3 DEF LinuxJudge, Judge, Late, EndAttempt, Settle, Continue
    <2>2. taken.kind = "echo" /\ taken.seq = seq
      BY <2>1 DEF ParseReply
    <2> QED
      BY <1>1, <1>2, <2>1, <2>2 DEF StampOK
  <1>4. CASE outcome # "success" /\ ~LinuxJudge
    BY <1>4, StepsOfEngine DEF EngineStep, Quiet, engineVars, Results, Tick, Passes,
       SendReturns, ReceiveReturns, Loop, Stamp, OnError, EndAttempt, Continue, Settle
  <1> QED
    BY <1>2, <1>3, <1>4

\* One step keeps the timers long enough.
LEMMA WaitStep == LInv /\ [Next]_vars => WaitOK'
  <1> SUFFICES ASSUME LInv, [Next]_vars, pc' = "receive"
               PROVE  /\ at' = "idle" => age' + wait' >= Timeout
                      /\ at' # "idle" => age' + left' >= Timeout
                      /\ at' \in {"poll", "recv"} => age' + timer' >= Timeout
    BY DEF WaitOK
  <1>0. /\ WaitOK
        /\ age \in Nat /\ wait \in Nat /\ left \in Nat /\ timer \in Nat /\ Timeout \in Nat
        /\ pc # "receive" => at # "poll" /\ at # "recv"
    BY EngineAssumption DEF LInv, TypeOK, EngineTypeOK, Horizon, SendPlace
  <1> USE DEF WaitOK, engineVars, timeVars
  <1>1. CASE Drain \/ DrainEnds \/ ClearError
    BY <1>1 DEF Drain, Draining, DrainEnds, ClearError, SendReturns, OnError, Continue, Settle
  <1>2. CASE Transmit \/ TakesErrno \/ TransmitFails
    BY <1>2 DEF Transmit, TakesErrno, TransmitFails, Transmitting, SendFails, SendReturns,
       OnError, Continue, Settle
  <1>3. CASE Enter \/ Poll
    BY <1>0, <1>3 DEF Enter, Poll, In, Goto
  <1>4. CASE Top
    BY <1>0, <1>4 DEF Top, In, Goto, Return, ReceiveReturns, EndsWait, OnError, EndAttempt,
       Continue, Settle
  <1>5. CASE NoQueuedError
    <2>1. CASE In("blame")
      BY <1>5, <2>1 DEF NoQueuedError, In, Goto, Return, AsOther, ReceiveReturns, EndsWait,
         OnError, EndAttempt, Continue, Settle
    <2>2. CASE In("peek")
      BY <1>0, <1>5, <2>2 DEF NoQueuedError, In, Goto
    <2>3. CASE In("woken")
      BY <1>0, <1>5, <2>3 DEF NoQueuedError, In, Goto
    <2>4. CASE In("readable")
      BY <1>0, <1>5, <2>4 DEF NoQueuedError, In, Goto, ReadTimeout
    <2> QED
      BY <1>5, <2>1, <2>2, <2>3, <2>4 DEF NoQueuedError
  <1>6. CASE TakeErrno
    BY <1>0, <1>6 DEF TakeErrno, FalseAlarm, In, Goto, Return, AsOther, ReceiveReturns,
       EndsWait, OnError, EndAttempt, Continue, Settle
  <1>7. CASE Read
    BY <1>0, <1>7 DEF Read, In, Goto, Return, ReceiveReturns, EndsWait, OnError, EndAttempt,
       Continue, Settle
  <1>8. CASE QueuedError \/ TimesOut \/ Interrupted \/ SystemFails
    BY <1>8 DEF QueuedError, TimesOut, Interrupted, SystemFails, Return, SendReturns,
       ReceiveReturns, EndsWait, OnError, EndAttempt, Continue, Settle
  <1>9. CASE LinuxLoop
    <2>1. at = "idle"
      BY <1>9 DEF LinuxLoop, Loop, LInv, TypeOK
    <2>2. wait' = Remaining /\ age' = age /\ at' = at /\ age <= Timeout
      BY <1>9 DEF LinuxLoop, Loop, BeforeDeadline, EndAttempt, Continue, Settle
    <2> QED
      BY <1>0, <2>1, <2>2 DEF Remaining
  <1>10. CASE LinuxStamp \/ LinuxJudge
    BY <1>10 DEF LinuxStamp, LinuxJudge, Stamp, Judge, EndAttempt, Continue, Settle
  <1>11. CASE ReplyArrives \/ ErrorArrives \/ ErrnoPosted \/ UNCHANGED vars
    BY <1>0, <1>11 DEF ReplyArrives, ErrorArrives, ErrnoPosted, vars
  <1>12. CASE Tick
    <2>1. /\ UNCHANGED <<pc, at, wait>> /\ age' = Later
          /\ left' = IF left > 0 THEN left - 1 ELSE 0
          /\ timer' = IF timer > 0 THEN timer - 1 ELSE 0
      BY <1>12 DEF Tick, Passes
    <2>2. age' >= age /\ (age' = age => age >= Timeout) /\ (age' # age => age' = age + 1)
      BY <1>0, <2>1, EngineAssumption DEF Later, Horizon, LInv, TypeOK, EngineTypeOK
    <2>3. at' = "idle" => age' + wait' >= Timeout
      BY <1>0, <2>1, <2>2
    <2>4. at' # "idle" => age' + left' >= Timeout
      BY <1>0, <2>1, <2>2
    <2>5. at' \in {"poll", "recv"} => age' + timer' >= Timeout
      BY <1>0, <2>1, <2>2
    <2> QED
      BY <2>3, <2>4, <2>5
  <1> QED
    BY <1>1, <1>2, <1>3, <1>4, <1>5, <1>6, <1>7, <1>8, <1>9, <1>10, <1>11, <1>12
       DEF Next, ThreadStep, KernelStep, Failure

\* One step keeps track of an errno that was taken.
LEMMA BareStep == LInv /\ [Next]_vars => BareOK'
  <1> SUFFICES ASSUME LInv, [Next]_vars PROVE BareOK'
    OBVIOUS
  <1>0. /\ BareOK /\ drained \in Nat /\ bare \in BOOLEAN
        /\ outcome # "none" => pc = "done"
        /\ pc \notin {"send", "receive"} => at = "idle"
    BY LinuxAssumption DEF LInv, TypeOK, Returned
  <1> USE DEF BareOK, historyVars
  <1>1. CASE Drain
    BY <1>0, <1>1 DEF Drain, Draining, Dequeue
  <1>2. CASE DrainEnds
    <2>1. CASE at = "recover" /\ drained = 0
      BY <1>0, <1>2, <2>1
         DEF DrainEnds, NothingDrained, SendReturns, OnError, Continue, Settle
    <2>2. CASE ~(at = "recover" /\ drained = 0)
      BY <1>0, <1>2, <2>2 DEF DrainEnds, Draining, NothingDrained, engineVars
    <2> QED
      BY <2>1, <2>2
  <1>3. CASE ClearError
    BY <1>0, <1>3 DEF ClearError, engineVars
  <1>4. CASE Transmit
    BY <1>0, <1>4 DEF Transmit, Transmitting
  <1>5. ASSUME SendFails("pending") \/ SendFails("unreachable") \/ SendFails("failed")
        PROVE  /\ Transmitting /\ drained' = drained
               /\ \/ at = "try" /\ at' = "recover" /\ pc' = "send"
                  \/ at = "retry" /\ at' = "idle" /\ outcome' = "rejected"
    BY <1>5 DEF SendFails, Transmitting, AsOther, SendReturns, OnError, Continue, Settle,
       engineVars
  <1>6. CASE TakesErrno
    BY <1>0, <1>5, <1>6 DEF TakesErrno, Transmitting
  <1>7. CASE TransmitFails
    BY <1>0, <1>5, <1>7 DEF TransmitFails, Transmitting
  <1>8. CASE Enter \/ Top \/ Poll \/ TimesOut \/ Interrupted
    BY <1>0, <1>8 DEF Enter, Top, Poll, TimesOut, Interrupted, Sleeping, In, Goto, Return
  <1>9. CASE QueuedError
    BY <1>0, <1>9 DEF QueuedError, Dequeue, Return
  <1>10. CASE NoQueuedError
    <2>1. CASE In("blame")
      BY <1>0, <1>10, <2>1
         DEF NoQueuedError, In, Return, AsOther, ReceiveReturns, EndsWait, OnError, Settle
    <2>2. CASE ~In("blame")
      BY <1>0, <1>10, <2>2 DEF NoQueuedError, In, Goto
    <2> QED
      BY <2>1, <2>2
  <1>11. CASE TakeErrno
    <2>1. CASE Return(AsOther("pending"))
      BY <1>0, <1>11, <2>1 DEF Return, AsOther, ReceiveReturns, EndsWait, OnError, Settle
    <2>2. CASE FalseAlarm /\ UNCHANGED bare
      BY <1>0, <1>11, <2>2 DEF TakeErrno, FalseAlarm, Goto, In
    <2> QED
      BY <1>11, <2>1, <2>2 DEF TakeErrno
  <1>12. CASE Read
    BY <1>0, <1>12 DEF Read, TakePending, In, Goto, Return, engineVars
  <1>13. CASE SystemFails
    <2>1. at' = "idle" /\ outcome' = "rejected"
      BY <1>13 DEF SystemFails, SendReturns, ReceiveReturns, EndsWait, OnError, Continue, Settle
    <2> QED
      BY <2>1
  <1>14. CASE LinuxLoop \/ LinuxStamp \/ LinuxJudge
    BY <1>0, <1>14 DEF LinuxLoop, LinuxStamp, LinuxJudge, Loop, Stamp, Judge
  <1>15. CASE ReplyArrives \/ ErrorArrives \/ ErrnoPosted \/ Tick \/ UNCHANGED vars
    BY <1>0, <1>15 DEF ReplyArrives, ErrorArrives, ErrnoPosted, Tick, Passes, vars, engineVars
  <1> QED
    BY <1>1, <1>2, <1>3, <1>4, <1>6, <1>7, <1>8, <1>9, <1>10, <1>11, <1>12, <1>13, <1>14, <1>15
       DEF Next, ThreadStep, KernelStep, Failure

-------------------------------------------------------------------------------
(* The theorems.                                                             *)

\* LInv holds in every reachable state.
THEOREM Inductive == Spec => []LInv
  <1>1. LInv /\ [Next]_vars => LInv'
    BY TypeStep, ControlStep, MessagesStep, StampStep, WaitStep, LatencyStep, BareStep DEF LInv
  <1> QED
    BY InitLInv, <1>1, PTL DEF Spec

\* Whichever call takes an errno, by the time send or receive returns a record was
\* removed after it, or the probe is rejected, however the kernel's posting of records
\* and errnos falls between the adapter's drains, sends, polls and reads.
THEOREM BareErrnoTheorem == Spec => []BareErrnoRejects
  <1>1. LInv => BareErrnoRejects
    BY DEF LInv, BareOK, BareErrnoRejects
  <1> QED
    BY <1>1, Inductive, PTL

\* A reported latency is that of the attempt's own reply, at least the time it
\* took and at most the timeout, whatever the error queue held meanwhile.
THEOREM LatencyTheorem == Spec => []LatencyIsMeasured
  <1>1. LInv => LatencyIsMeasured
    BY DEF LInv
  <1> QED
    BY <1>1, Inductive, PTL

LEMMA RunsFullStep == LInv /\ [Next]_vars => (AttemptEnds => age >= Timeout)
  <1> SUFFICES ASSUME LInv, [Next]_vars, AttemptEnds PROVE age >= Timeout
    OBVIOUS
  <1>0. WaitOK /\ age \in Nat /\ left \in Nat /\ timer \in Nat /\ Timeout \in Nat
    BY EngineAssumption DEF LInv, TypeOK, EngineTypeOK, Horizon
  <1> USE DEF AttemptEnds
  <1>1. CASE Quiet \/ Tick \/ Stamp
    BY <1>1 DEF Quiet, engineVars, Tick, Passes, Stamp, Continue
  <1>2. CASE SendReturns("sent") \/ SendReturns("failed")
    BY <1>2 DEF SendReturns, OnError, Continue, Settle
  <1>3. ASSUME NEW r \in Results, ReceiveReturns(r), r = "wouldblock" => Expired
        PROVE  age >= Timeout
    <2>1. r = "wouldblock"
      BY <1>3 DEF Results, ReceiveReturns, EndsWait, OnError, Continue, Settle
    <2>2. (In("top") /\ left = 0) \/ ((In("poll") \/ In("recv")) /\ timer = 0)
      BY <1>3, <2>1 DEF Expired, Sleeping
    <2> QED
      BY <1>0, <2>2 DEF WaitOK, In
  <1>4. CASE Loop
    BY <1>0, <1>4 DEF Loop, BeforeDeadline, Continue
  <1>5. CASE LinuxJudge
    BY <1>0, <1>5 DEF LinuxJudge, Judge, Late, Continue, Settle
  <1> QED
    BY <1>1, <1>2, <1>3, <1>4, <1>5, StepsOfEngine DEF EngineStep

\* Neither a false alarm of the error queue nor a signal ends an attempt before
\* its deadline.
THEOREM RunsFull == Spec => AttemptRunsFull
  <1>1. LInv /\ [Next]_vars => [AttemptEnds => age >= Timeout]_engineVars
    BY RunsFullStep
  <1> QED
    BY <1>1, Inductive, PTL DEF Spec, AttemptRunsFull

-------------------------------------------------------------------------------
(* An attempt whose thread always had a processor.                           *)

\* Neither the clock nor a timer is further than the deadline, the millisecond
\* that poll adds and that of a read after a false alarm.
PaceOK ==
    ~kept =>
        /\ pc \in {"receive", "received", "stamped"} => age <= Timeout + 2
        /\ pc = "receive" =>
              /\ at = "idle" => age + wait <= Timeout
              /\ at # "idle" /\ left > 0 => age + left <= Timeout
              /\ at = "peek" => left > 0
              /\ at = "poll" => age + timer <= Timeout + 1
              /\ at = "recv" => age + timer <= Timeout + 2
              /\ at \in {"top", "peek", "woken", "readable", "errno"} => age <= Timeout + 1

\* A timer runs down as the clock runs up.
LEMMA SleepTick ==
    \A limit, now, then, t \in Nat :
        then <= now + 1 /\ (t > 0 => now + t <= limit) =>
            LET next == IF t > 0 THEN t - 1 ELSE 0
            IN  /\ next \in Nat
                /\ next > 0 => then + next <= limit
                /\ t > 0 => then + next <= limit
  OBVIOUS

LEMMA WithinTwo ==
    \A limit, now, t \in Nat :
        now + t <= limit + 1 \/ now + t <= limit + 2 => now <= limit + 2
  OBVIOUS

LEMMA PaceStep == LInv /\ PaceOK /\ [Next]_vars => PaceOK'
  <1> SUFFICES ASSUME LInv, PaceOK, [Next]_vars PROVE PaceOK'
    OBVIOUS
  <1>0. /\ age \in Nat /\ wait \in Nat /\ left \in Nat /\ timer \in Nat /\ Timeout \in Nat
        /\ Timeout > 0
        /\ pc = "receive" => at \in ReceivePlace
    BY EngineAssumption DEF LInv, TypeOK, EngineTypeOK, Horizon
  <1> USE DEF PaceOK, engineVars, timeVars
  <1>1. CASE Drain \/ DrainEnds \/ ClearError
    BY <1>1 DEF Drain, Draining, DrainEnds, ClearError, SendReturns, OnError, Continue, Settle
  <1>2. CASE Transmit \/ TakesErrno \/ TransmitFails
    BY <1>2 DEF Transmit, TakesErrno, TransmitFails, Transmitting, SendFails, SendReturns,
       OnError, Continue, Settle
  <1>3. CASE Enter
    BY <1>0, <1>3 DEF Enter, In
  <1>4. CASE Poll
    <2>1. ~kept => /\ age <= Timeout + 1
                   /\ left > 0 => age + left <= Timeout
      BY <1>0, <1>4 DEF Poll, In
    <2>2. pc' = "receive" /\ at' \in {"readable", "woken"} /\ UNCHANGED <<age, kept, left>>
      BY <1>4 DEF Poll, In, Goto
    <2> QED
      BY <1>0, <2>1, <2>2
  <1>5. CASE Top
    BY <1>0, <1>5 DEF Top, In, Goto, Return, ReceiveReturns, EndsWait, OnError, EndAttempt,
       Continue, Settle
  <1>6. CASE NoQueuedError
    <2>1. CASE In("blame")
      BY <1>6, <2>1 DEF NoQueuedError, In, Goto, Return, AsOther, ReceiveReturns, EndsWait,
         OnError, EndAttempt, Continue, Settle
    <2>2. CASE In("peek")
      BY <1>0, <1>6, <2>2 DEF NoQueuedError, In, Goto
    <2>3. CASE In("woken")
      BY <1>0, <1>6, <2>3 DEF NoQueuedError, In, Goto
    <2>4. CASE In("readable")
      BY <1>0, <1>6, <2>4 DEF NoQueuedError, In, Goto, ReadTimeout
    <2> QED
      BY <1>6, <2>1, <2>2, <2>3, <2>4 DEF NoQueuedError
  <1>7. CASE TakeErrno
    BY <1>0, <1>7 DEF TakeErrno, FalseAlarm, In, Goto, Return, AsOther, ReceiveReturns,
       EndsWait, OnError, EndAttempt, Continue, Settle
  <1>8. CASE Read
    BY <1>0, <1>8 DEF Read, In, Goto, Return, ReceiveReturns, EndsWait, OnError, EndAttempt,
       Continue, Settle
  <1>9. CASE QueuedError \/ TimesOut \/ Interrupted \/ SystemFails
    BY <1>9 DEF QueuedError, TimesOut, Interrupted, SystemFails, Return, SendReturns,
       ReceiveReturns, EndsWait, OnError, EndAttempt, Continue, Settle
  <1>10. CASE LinuxLoop
    <2>1. at = "idle"
      BY <1>10 DEF LinuxLoop, Loop, LInv, TypeOK
    <2>2. /\ at' = at
          /\ \/ pc' = "receive" /\ wait' = Remaining /\ age' = age /\ age <= Timeout
             \/ pc' \in {"send", "done"}
      BY <1>10 DEF LinuxLoop, Loop, BeforeDeadline, EndAttempt, Continue, Settle
    <2> QED
      BY <1>0, <2>1, <2>2 DEF Remaining
  <1>11. CASE LinuxStamp \/ LinuxJudge
    BY <1>11 DEF LinuxStamp, LinuxJudge, Stamp, Judge, EndAttempt, Continue, Settle
  <1>12. CASE ReplyArrives \/ ErrorArrives \/ ErrnoPosted \/ UNCHANGED vars
    BY <1>12 DEF ReplyArrives, ErrorArrives, ErrnoPosted, vars
  <1>13. CASE Tick
    <2>1. kept' \/ (~kept /\ Asleep)
      BY <1>13 DEF Tick, Passes
    <2>2. CASE kept'
      BY <2>2
    <2>3. CASE ~kept /\ Asleep
      <3>1. /\ UNCHANGED <<pc, at, wait>> /\ age' <= age + 1 /\ age' \in Nat
            /\ left' = IF left > 0 THEN left - 1 ELSE 0
            /\ timer' = IF timer > 0 THEN timer - 1 ELSE 0
        BY <1>0, <1>13, EngineAssumption DEF Tick, Passes, Later, Horizon
      <3>2. pc = "send" \/ (pc = "receive" /\ at \in {"poll", "recv"} /\ timer > 0)
        BY <2>3 DEF Asleep, Transmitting, Sleeping, In
      <3>3. CASE pc = "send"
        BY <3>1, <3>3
      <3>4. CASE pc = "receive" /\ at = "poll" /\ timer > 0
        <4>1. age + timer <= Timeout + 1 /\ (left > 0 => age + left <= Timeout)
          BY <2>3, <3>4
        <4>2. timer' \in Nat /\ age' + timer' <= Timeout + 1
          <5>1. PICK limit \in Nat : limit = Timeout + 1
            BY <1>0
          <5>2. age + timer <= limit
            BY <4>1, <5>1
          <5>3. timer' \in Nat /\ age' + timer' <= limit
            BY <1>0, <3>1, <3>4, <5>2, SleepTick
          <5> QED
            BY <5>1, <5>3
        <4>3. left' > 0 => age' + left' <= Timeout
          BY <1>0, <3>1, <4>1, SleepTick
        <4>4. age' <= Timeout + 2
          BY <1>0, <3>1, <4>2, WithinTwo
        <4> QED
          BY <3>1, <3>4, <4>2, <4>3, <4>4
      <3>5. CASE pc = "receive" /\ at = "recv" /\ timer > 0
        <4>1. age + timer <= Timeout + 2 /\ (left > 0 => age + left <= Timeout)
          BY <2>3, <3>5
        <4>2. timer' \in Nat /\ age' + timer' <= Timeout + 2
          <5>1. PICK limit \in Nat : limit = Timeout + 2
            BY <1>0
          <5>2. age + timer <= limit
            BY <4>1, <5>1
          <5>3. timer' \in Nat /\ age' + timer' <= limit
            BY <1>0, <3>1, <3>5, <5>2, SleepTick
          <5> QED
            BY <5>1, <5>3
        <4>3. left' > 0 => age' + left' <= Timeout
          BY <1>0, <3>1, <4>1, SleepTick
        <4>4. age' <= Timeout + 2
          BY <1>0, <3>1, <4>2, WithinTwo
        <4> QED
          BY <3>1, <3>5, <4>2, <4>3, <4>4
      <3> QED
        BY <3>2, <3>3, <3>4, <3>5
    <2> QED
      BY <2>1, <2>2, <2>3
  <1> QED
    BY <1>1, <1>2, <1>3, <1>4, <1>5, <1>6, <1>7, <1>8, <1>9, <1>10, <1>11, <1>12, <1>13
       DEF Next, ThreadStep, KernelStep, Failure

\* Listening ends two ticks after the deadline at the latest, however often the
\* error queue raises a false alarm.
THEOREM BoundedTheorem == Spec => []ListeningIsBounded
  <1>1. Init => PaceOK
    BY DEF Init, EngineInit, PaceOK
  <1>2. PaceOK => ListeningIsBounded
    BY DEF PaceOK, ListeningIsBounded
  <1> QED
    BY <1>1, <1>2, PaceStep, Inductive, PTL DEF Spec

\* The thread holds a message only while it looks at it.
HandOK == pc \notin {"received", "stamped", "done"} => taken = Nothing

\* A read sleeps with an empty error queue: a record that came since brings its
\* errno, and that wakes it.
QuietQueue == In("recv") /\ errq # <<>> => skErr \/ posting

\* What answers the current attempt arrived at this very instant: a thread that
\* always has a processor sleeps only once there is nothing left to read.
FreshOK == ~kept /\ pc # "done" => \A m \in Heard : m.seq = seq => m.when = age

LEMMA HandStep == LInv /\ HandOK /\ [Next]_vars => HandOK'
  <1> SUFFICES ASSUME LInv, HandOK, [Next]_vars, pc' \notin {"received", "stamped", "done"}
               PROVE  taken' = Nothing
    BY DEF HandOK
  <1>1. taken' = taken \/ pc = "receive" \/ LinuxJudge
    BY HandStays
  <1>2. CASE LinuxJudge
    BY <1>2 DEF LinuxJudge, Judge, EndAttempt, Settle, Continue, LInv, Returned
  <1>3. CASE pc = "receive" /\ (QueuedError \/ Read)
    BY <1>3 DEF QueuedError, Read, Return, Goto, ReceiveReturns, EndsWait, OnError, Continue,
       Settle, eventVars, HandOK, engineVars
  <1>4. CASE pc = "receive" /\ ~(QueuedError \/ Read)
    BY <1>4, QueuesStay DEF HandOK, ReplyArrives, ErrorArrives, Drain, Draining, eventVars
  <1>5. CASE taken' = taken /\ pc # "receive" /\ ~LinuxJudge
    BY <1>5, StepsOfEngine DEF HandOK, EngineStep, Quiet, engineVars, Tick, Passes, SendReturns,
       ReceiveReturns, Loop, Stamp, OnError, EndAttempt, Continue, Settle, LInv, TypeOK,
       EngineTypeOK
  <1> QED
    BY <1>1, <1>2, <1>3, <1>4, <1>5

LEMMA QuietStep == LInv /\ QuietQueue /\ [Next]_vars => QuietQueue'
  <1> SUFFICES ASSUME LInv, QuietQueue, [Next]_vars, pc' = "receive", at' = "recv", errq' # <<>>
               PROVE  skErr' \/ posting'
    BY DEF QuietQueue, In
  <1>0. pc # "receive" => at # "recv"
    BY DEF LInv, TypeOK, SendPlace
  <1> USE DEF QuietQueue, In, kernelVars, engineVars
  <1>1. CASE ErrorArrives \/ ErrnoPosted
    BY <1>1 DEF ErrorArrives, ErrnoPosted
  <1>2. CASE ReplyArrives \/ Tick \/ UNCHANGED vars
    BY <1>2 DEF ReplyArrives, Tick, Passes, vars
  <1>3. CASE Drain \/ DrainEnds \/ ClearError
    BY <1>0, <1>3 DEF Drain, Draining, DrainEnds, ClearError
  <1>4. CASE Transmit \/ TakesErrno \/ TransmitFails
    BY <1>0, <1>4 DEF Transmit, TakesErrno, TransmitFails, Transmitting, SendFails
  <1>5. CASE Enter \/ Top \/ Poll \/ TakeErrno
    BY <1>5 DEF Enter, Top, Poll, TakeErrno, FalseAlarm, Goto, Return
  <1>6. CASE QueuedError \/ TimesOut \/ Interrupted \/ SystemFails
    BY <1>6 DEF QueuedError, TimesOut, Interrupted, SystemFails, Return
  <1>7. CASE NoQueuedError
    BY <1>7 DEF NoQueuedError
  <1>8. CASE Read
    BY <1>8 DEF Read, Goto, Return
  <1>9. CASE LinuxLoop \/ LinuxStamp \/ LinuxJudge
    BY <1>0, <1>9 DEF LinuxLoop, LinuxStamp, LinuxJudge, Loop, Stamp, Judge
  <1> QED
    BY <1>1, <1>2, <1>3, <1>4, <1>5, <1>6, <1>7, <1>8, <1>9
       DEF Next, ThreadStep, KernelStep, Failure

\* Only time makes an attempt older, and nothing revives a probe that returned.
LEMMA SameAge ==
    [Next]_vars =>
        /\ Tick \/ seq' = seq + 1 \/ UNCHANGED <<seq, age, kept>>
        /\ pc = "done" => pc' = "done"
  <1> SUFFICES ASSUME [Next]_vars
               PROVE  /\ Tick \/ seq' = seq + 1 \/ UNCHANGED <<seq, age, kept>>
                      /\ pc = "done" => pc' = "done"
    OBVIOUS
  <1> QED
    BY StepsOfEngine DEF EngineStep, Quiet, engineVars, Tick, Passes, SendReturns,
       ReceiveReturns, Loop, Stamp, LinuxJudge, Judge, OnError, EndAttempt, Continue, Settle

LEMMA FreshStep ==
    LInv /\ HandOK /\ QuietQueue /\ FreshOK /\ [Next]_vars => FreshOK'
  <1> SUFFICES ASSUME LInv, HandOK, QuietQueue, FreshOK, [Next]_vars, ~kept', pc' # "done",
                      NEW m \in Heard', m.seq = seq'
               PROVE  m.when = age'
    BY DEF FreshOK
  <1>1. seq \in Nat /\ seq >= 1 /\ sent \in Nat /\ sent <= seq
    BY EngineAssumption DEF LInv, TypeOK, EngineTypeOK, SentOK
  <1>2. pc # "done"
    BY SameAge
  <1>3. m \notin {Nothing, Unusable}
    BY <1>1, Forward DEF Nothing, Unusable
  <1>4. CASE Arriving(m)
    BY <1>4 DEF Arriving, engineVars
  <1>5. CASE m \in Heard
    <2>1. m.seq <= sent
      BY <1>5 DEF LInv, AllGenuine, Genuine
    <2>2. seq' # seq + 1
      BY <1>1, <2>1
    <2>3. CASE Tick
      <3>1. ~kept /\ Asleep /\ seq' = seq
        BY <2>3 DEF Tick, Passes
      <3>2. CASE Transmitting
        <4>1. sent = seq - 1
          BY <3>2 DEF Transmitting, LInv, SentOK
        <4> QED
          BY <1>1, <2>1, <3>1, <4>1
      <3>3. CASE Sleeping
        <4>1. data = <<>> /\ errq = <<>>
          BY <3>1, <3>3 DEF Asleep, Sleeping, Ready, Transmitting, In, QuietQueue
        <4>2. taken = Nothing
          BY <3>3 DEF Sleeping, In, HandOK
        <4> QED
          BY <1>3, <1>5, <4>1, <4>2 DEF Heard
      <3> QED
        BY <3>1, <3>2, <3>3 DEF Asleep
    <2>4. CASE ~Tick
      BY <1>2, <1>5, <2>2, <2>4, SameAge DEF FreshOK
    <2> QED
      BY <2>3, <2>4
  <1> QED
    BY <1>3, <1>4, <1>5, HeardStep

LEMMA InTimeStep ==
    LInv /\ FreshOK /\ [Next]_vars =>
        (AttemptEnds /\ ~kept =>
            \A m \in Heard : m.kind \in Kind /\ m.seq = seq => m.when >= Timeout)
  <1>1. LInv /\ [Next]_vars /\ AttemptEnds => age >= Timeout /\ pc # "done"
    <2> SUFFICES ASSUME LInv, [Next]_vars, AttemptEnds PROVE age >= Timeout /\ pc # "done"
      OBVIOUS
    <2>1. pc # "done"
      BY StepsOfEngine DEF EngineStep, Quiet, engineVars, Tick, SendReturns, ReceiveReturns,
         Loop, Stamp, LinuxJudge, Judge, AttemptEnds
    <2> QED
      BY <2>1, RunsFullStep
  <1> QED
    BY <1>1 DEF FreshOK

\* In an attempt whose thread always had a processor, no reply and no error record
\* that came before the deadline is left behind when it is given up.
THEOREM InTimeTheorem == Spec => AnswerInTimeDecides
  <1>1. Init => HandOK /\ QuietQueue /\ FreshOK
    <2>1. Init => Heard = {Nothing} /\ seq = 1 /\ pc = "send"
      BY DEF Heard, Init, EngineInit
    <2> QED
      BY <2>1 DEF Init, HandOK, QuietQueue, In, FreshOK, Nothing
  <1>2. LInv /\ HandOK /\ QuietQueue /\ FreshOK /\ [Next]_vars =>
            HandOK' /\ QuietQueue' /\ FreshOK'
    BY HandStep, QuietStep, FreshStep
  <1>3. LInv /\ FreshOK /\ [Next]_vars =>
            [AttemptEnds /\ ~kept =>
                \A m \in {data[j] : j \in 1 .. Len(data)} \cup
                         {errq[j] : j \in 1 .. Len(errq)} \cup {taken} :
                    m.kind \in Kind /\ m.seq = seq => m.when >= Timeout]_vars
    BY InTimeStep DEF Heard
  <1> QED
    BY <1>1, <1>2, <1>3, Inductive, PTL DEF Spec, AnswerInTimeDecides

-------------------------------------------------------------------------------
(* LinuxProbe implements ProbeContract.                                      *)

\* The contract sees at most one new answer in a step, and nothing else of it.
LEMMA ArrivedStep ==
    LInv /\ [Next]_vars =>
        \/ arrived' = arrived
        \/ Contract!Arrive /\ UNCHANGED <<sent, outcome>>
  <1> SUFFICES ASSUME LInv, [Next]_vars, arrived' # arrived
               PROVE  Contract!Arrive /\ UNCHANGED <<sent, outcome>>
    OBVIOUS
  <1>1. PICK m \in Incoming("echo") \cup Incoming("error") \cup {Unusable} :
            Recorded(m) /\ UNCHANGED <<engineVars, sent>>
    BY QueuesStay DEF ReplyArrives, ErrorArrives, Drain, QueuedError, Read, historyVars, Kind
  <1>2. m # Nothing /\ m # Unusable
    BY <1>1 DEF Recorded, Nothing, Unusable, Kind
  <1>3. m.kind \in Kind /\ m.seq \in 1 .. sent
    BY <1>1, <1>2, IncomingMessages DEF LInv, Kind
  <1>4. arrived' = arrived \cup {[seq |-> m.seq, kind |-> m.kind]}
    BY <1>1, <1>3 DEF Recorded
  <1>5. [seq |-> m.seq, kind |-> m.kind] \in Contract!Answer /\ m.seq <= sent
    BY <1>3, EngineAssumption DEF Contract!Answer, Contract!Kind, Kind, LInv, TypeOK
  <1> QED
    BY <1>1, <1>4, <1>5 DEF Contract!Arrive, engineVars

\* Every step is one of the contract's or leaves its variables alone.
LEMMA ContractStep ==
    LInv /\ [Next]_vars => [Contract!ContractNext]_Contract!contractVars
  <1> SUFFICES ASSUME LInv, [Next]_vars
               PROVE  Contract!ContractNext \/ UNCHANGED Contract!contractVars
    OBVIOUS
  <1>0. /\ Returned /\ SentOK /\ seq \in 1 .. Attempts /\ sent \in Nat /\ Attempts \in Nat
        /\ sent <= Attempts
    BY EngineAssumption DEF LInv, TypeOK, EngineTypeOK
  <1> USE DEF Contract!ContractNext, Contract!contractVars, Contract!Conclude, Contract!Pending,
      Returned, SentOK
  <1>1. CASE arrived' # arrived
    BY <1>1, ArrivedStep
  <1>2. CASE arrived' = arrived /\ (Quiet \/ Tick)
    BY <1>2 DEF Quiet, engineVars, Tick, Passes, historyVars
  <1>3. CASE arrived' = arrived /\ SendReturns("sent") /\ sent' = seq
    BY <1>0, <1>3 DEF SendReturns, OnError, Continue, Contract!Request
  <1>4. CASE arrived' = arrived /\ UNCHANGED sent /\ SendReturns("failed")
    BY <1>0, <1>4 DEF SendReturns, OnError, Settle
  <1>5. CASE arrived' = arrived /\ UNCHANGED sent /\ \E r \in Results : ReceiveReturns(r)
    BY <1>0, <1>5 DEF Results, ReceiveReturns, EndsWait, OnError, EndAttempt, AnotherAttempt,
       Continue, Settle
  <1>6. CASE arrived' = arrived /\ UNCHANGED sent /\ (Loop \/ Stamp)
    BY <1>0, <1>6 DEF Loop, Stamp, EndAttempt, AnotherAttempt, Continue, Settle
  <1>7. CASE arrived' = arrived /\ UNCHANGED sent /\ LinuxJudge
    <2>1. pc = "stamped" /\ sent = seq /\ outcome = "none"
      BY <1>0, <1>7 DEF LinuxJudge, Judge
    <2>2. \/ outcome' = outcome
          \/ outcome' = "timeout" /\ seq >= Attempts
          \/ outcome' = "success" /\ ParseReply(taken) = "echo"
          \/ outcome' = "negative" /\ ParseReply(taken) = "error"
      BY <1>0, <1>7 DEF LinuxJudge, Judge, EndAttempt, AnotherAttempt, Continue, Settle
    <2>3. ParseReply(taken) # "none" =>
              [seq |-> sent, kind |-> ParseReply(taken)] \in arrived
      BY <2>1 DEF ParseReply, LInv, AllGenuine, Genuine, Heard, Kind
    <2> QED
      BY <1>0, <1>7, <2>1, <2>2, <2>3
  <1> QED
    BY <1>1, <1>2, <1>3, <1>4, <1>5, <1>6, <1>7, StepsOfEngine DEF EngineStep

\* The attempt loop over a ping socket keeps the contract of a probe: what the
\* error queue still holds of an earlier attempt decides nothing.
THEOREM Refinement == Spec => ImplementsContract
  <1>1. Init => Contract!ContractInit
    BY DEF Init, EngineInit, Contract!ContractInit
  <1>2. LInv /\ [Next]_vars => [Contract!ContractNext]_Contract!contractVars
    BY ContractStep
  <1> QED
    BY <1>1, <1>2, Inductive, PTL DEF Spec, ImplementsContract, Contract!ContractSpec
==============================================================================
