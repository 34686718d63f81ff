----------------------------- MODULE RawProbeProofs -----------------------------
(***************************************************************************)
(* Theorems about RawProbe, for every number of attempts, every timeout    *)
(* and every size of the socket's buffer.                                  *)
(***************************************************************************)
EXTENDS RawProbe, TLAPS

-------------------------------------------------------------------------------
(* The inductive invariant.                                                  *)

\* The probe has returned exactly when it has an outcome.
Returned == pc = "done" <=> outcome # "none"

\* Requests are sent in order, one per attempt, at its start.
SentOK ==
    /\ sent <= seq
    /\ pc = "send" => sent = seq - 1
    /\ pc \notin {"send", "done"} => sent = seq

\* A message answers a request that was sent, it has arrived, and if it answers
\* the current attempt, it arrived since that began.
Genuine(m) ==
    /\ m.seq <= sent
    /\ m.seq = seq => m.at <= age
    /\ m.kind \in Kind => [seq |-> m.seq, kind |-> m.kind] \in arrived

AllGenuine ==
    /\ \A j \in 1 .. Len(inbox) : Genuine(inbox[j])
    /\ Genuine(taken)

\* The clock was read after the message had arrived.
StampOK ==
    pc = "stamped" =>
        elapsed <= age /\ (taken.seq = seq => taken.at <= elapsed)

\* The call that waits does not return before the deadline by itself.
WaitOK ==
    /\ timer # NotArmed => pc = "receive"
    /\ pc = "receive" =>
          IF timer = NotArmed THEN age + wait >= Timeout ELSE age + timer >= Timeout

RInv ==
    /\ TypeOK
    /\ Returned
    /\ SentOK
    /\ AllGenuine
    /\ StampOK
    /\ WaitOK
    /\ LatencyIsMeasured

-------------------------------------------------------------------------------

LEMMA InitRInv == Init => RInv
  <1> SUFFICES ASSUME Init PROVE RInv
    OBVIOUS
  <1> USE EngineAssumption, RawAssumption DEF Init, EngineInit
  <1>1. TypeOK
    <2>1. kept \in BOOLEAN
      OBVIOUS
    <2> QED
      BY <2>1 DEF TypeOK, EngineTypeOK, Outcome, Horizon, NotArmed, Nothing, Message, Kind
  <1>2. Returned /\ SentOK /\ StampOK /\ WaitOK /\ LatencyIsMeasured
    BY DEF Returned, SentOK, StampOK, WaitOK, LatencyIsMeasured, NotArmed
  <1>3. AllGenuine
    BY DEF AllGenuine, Genuine, Nothing, Kind
  <1> QED
    BY <1>1, <1>2, <1>3 DEF RInv

LEMMA KeptStep == TypeOK /\ [Next]_vars => kept' \in BOOLEAN
  <1> SUFFICES ASSUME TypeOK, [Next]_vars PROVE kept' \in BOOLEAN
    OBVIOUS
  <1>1. kept \in BOOLEAN
    BY DEF TypeOK, EngineTypeOK
  <1>2. CASE Send \/ RawLoop \/ Arm \/ Take \/ TimesOut \/ Interrupted \/ ReceiveFails
    BY <1>1, <1>2 DEF Send, RawLoop, Arm, Take, TimesOut, Interrupted, ReceiveFails, Loop,
       SendReturns, ReceiveReturns, OnError, EndAttempt, Continue, Settle, engineVars
  <1>3. CASE RawStamp \/ RawJudge
    BY <1>1, <1>3 DEF RawStamp, RawJudge, Stamp, Judge, EndAttempt, Continue, Settle
  <1>4. CASE AnswerArrives \/ ForeignArrives \/ UNCHANGED vars
    BY <1>1, <1>4 DEF AnswerArrives, ForeignArrives, vars, engineVars
  <1>5. CASE Tick
    BY <1>5 DEF Tick, Passes
  <1> QED
    BY <1>2, <1>3, <1>4, <1>5 DEF Next, ThreadStep

\* One step keeps the types.
LEMMA TypeStep == TypeOK /\ [Next]_vars => TypeOK'
  <1> SUFFICES ASSUME TypeOK, [Next]_vars PROVE TypeOK'
    OBVIOUS
  <1>0. kept' \in BOOLEAN
    BY KeptStep
  <1> USE EngineAssumption, RawAssumption
      DEF TypeOK, EngineTypeOK, Outcome, Horizon, NotArmed
  <1>1. CASE Send
    BY <1>0, <1>1 DEF Send, SendReturns, OnError, Continue, Settle
  <1>2. CASE RawLoop
    BY <1>0, <1>2 DEF RawLoop, Loop, BeforeDeadline, Remaining, EndAttempt, AnotherAttempt,
       Continue, Settle
  <1>3. CASE Arm
    BY <1>0, <1>3 DEF Arm, Floor, ReceiveReturns, EndsWait, OnError, EndAttempt,
       AnotherAttempt, Continue, Settle, engineVars
  <1>4. CASE Take
    BY <1>0, <1>4 DEF Take, InRecv, ReceiveReturns, EndsWait, OnError, EndAttempt,
       AnotherAttempt, Continue, Settle
  <1>5. CASE TimesOut
    BY <1>0, <1>5 DEF TimesOut, InRecv, ReceiveReturns, EndsWait, OnError, EndAttempt,
       AnotherAttempt, Continue, Settle
  <1>6. CASE RawStamp
    BY <1>0, <1>6 DEF RawStamp, Stamp, Continue
  <1>7. CASE RawJudge
    BY <1>0, <1>7 DEF RawJudge, Judge, Late, EndAttempt, AnotherAttempt, Continue, Settle,
       Nothing, Message, Kind
  <1>8. CASE Interrupted
    BY <1>0, <1>8 DEF Interrupted, InRecv, ReceiveReturns, EndsWait, OnError, EndAttempt,
       AnotherAttempt, Continue, Settle
  <1>9. CASE ReceiveFails
    BY <1>0, <1>9 DEF ReceiveFails, InRecv, ReceiveReturns, EndsWait, OnError, EndAttempt,
       AnotherAttempt, Continue, Settle
  <1>10. CASE AnswerArrives
    BY <1>0, <1>10 DEF AnswerArrives, Deliver, Message, Kind, engineVars
  <1>11. CASE ForeignArrives
    BY <1>0, <1>11 DEF ForeignArrives, Deliver, Message, Nothing, Kind, engineVars
  <1>12. CASE Tick
    BY <1>0, <1>12 DEF Tick, Passes, Later
  <1>13. CASE UNCHANGED vars
    BY <1>0, <1>13 DEF vars, engineVars
  <1> QED
    BY <1>1, <1>2, <1>3, <1>4, <1>5, <1>6, <1>7, <1>8, <1>9, <1>10, <1>11, <1>12,
       <1>13 DEF Next, ThreadStep

\* One step keeps the parts of the invariant that relate pc, seq and sent.
LEMMA ControlStep == RInv /\ [Next]_vars => Returned' /\ SentOK'
  <1> SUFFICES ASSUME RInv, [Next]_vars PROVE Returned' /\ SentOK'
    OBVIOUS
  <1> USE EngineAssumption, RawAssumption
      DEF RInv, TypeOK, EngineTypeOK, Returned, SentOK, Outcome
  <1>1. CASE Send
    BY <1>1 DEF Send, SendReturns, OnError, Continue, Settle
  <1>2. CASE RawLoop
    BY <1>2 DEF RawLoop, Loop, BeforeDeadline, Remaining, EndAttempt, AnotherAttempt,
       Continue, Settle
  <1>3. CASE Arm
    BY <1>3 DEF Arm, Floor, ReceiveReturns, EndsWait, OnError, EndAttempt, AnotherAttempt,
       Continue, Settle, engineVars
  <1>4. CASE Take
    BY <1>4 DEF Take, InRecv, ReceiveReturns, EndsWait, OnError, EndAttempt, AnotherAttempt,
       Continue, Settle
  <1>5. CASE TimesOut
    BY <1>5 DEF TimesOut, InRecv, ReceiveReturns, EndsWait, OnError, EndAttempt,
       AnotherAttempt, Continue, Settle
  <1>6. CASE RawStamp
    BY <1>6 DEF RawStamp, Stamp, Continue
  <1>7. CASE RawJudge
    BY <1>7 DEF RawJudge, Judge, ParseReply, Late, EndAttempt, AnotherAttempt, Continue,
       Settle, Nothing, Kind
  <1>8. CASE Interrupted
    BY <1>8 DEF Interrupted, InRecv, ReceiveReturns, EndsWait, OnError, EndAttempt,
       AnotherAttempt, Continue, Settle
  <1>9. CASE ReceiveFails
    BY <1>9 DEF ReceiveFails, InRecv, ReceiveReturns, EndsWait, OnError, EndAttempt,
       AnotherAttempt, Continue, Settle
  <1>10. CASE AnswerArrives
    BY <1>10 DEF AnswerArrives, Deliver, engineVars
  <1>11. CASE ForeignArrives
    BY <1>11 DEF ForeignArrives, Deliver, Nothing, Kind, engineVars
  <1>12. CASE Tick
    BY <1>12 DEF Tick, Passes, Later
  <1>13. CASE UNCHANGED vars
    BY <1>13 DEF vars, engineVars
  <1> QED
    BY <1>1, <1>2, <1>3, <1>4, <1>5, <1>6, <1>7, <1>8, <1>9, <1>10, <1>11, <1>12,
       <1>13 DEF Next, ThreadStep

\* A step forgets neither requests nor arrivals, and the clock goes forward until
\* the next attempt begins.
LEMMA Forward ==
    RInv /\ [Next]_vars =>
        /\ sent <= sent'
        /\ arrived \subseteq arrived'
        /\ (seq' = seq /\ age <= age') \/ seq' = seq + 1
  <1> SUFFICES ASSUME RInv, [Next]_vars
               PROVE  /\ sent <= sent'
                      /\ arrived \subseteq arrived'
                      /\ (seq' = seq /\ age <= age') \/ seq' = seq + 1
    OBVIOUS
  <1> USE EngineAssumption, RawAssumption
      DEF RInv, TypeOK, EngineTypeOK, SentOK, Horizon
  <1>1. CASE Send
    BY <1>1 DEF Send, SendReturns, OnError, Continue, Settle
  <1>2. CASE RawLoop
    BY <1>2 DEF RawLoop, Loop, BeforeDeadline, Remaining, EndAttempt, AnotherAttempt,
       Continue, Settle
  <1>3. CASE Arm
    BY <1>3 DEF Arm, Floor, ReceiveReturns, EndsWait, OnError, EndAttempt, AnotherAttempt,
       Continue, Settle, engineVars
  <1>4. CASE Take
    BY <1>4 DEF Take, InRecv, ReceiveReturns, EndsWait, OnError, EndAttempt, AnotherAttempt,
       Continue, Settle
  <1>5. CASE TimesOut
    BY <1>5 DEF TimesOut, InRecv, ReceiveReturns, EndsWait, OnError, EndAttempt,
       AnotherAttempt, Continue, Settle
  <1>6. CASE RawStamp
    BY <1>6 DEF RawStamp, Stamp, Continue
  <1>7. CASE RawJudge
    BY <1>7 DEF RawJudge, Judge, Late, EndAttempt, AnotherAttempt, Continue,
       Settle
  <1>8. CASE Interrupted
    BY <1>8 DEF Interrupted, InRecv, ReceiveReturns, EndsWait, OnError, EndAttempt,
       AnotherAttempt, Continue, Settle
  <1>9. CASE ReceiveFails
    BY <1>9 DEF ReceiveFails, InRecv, ReceiveReturns, EndsWait, OnError, EndAttempt,
       AnotherAttempt, Continue, Settle
  <1>10. CASE AnswerArrives
    BY <1>10 DEF AnswerArrives, Deliver, engineVars
  <1>11. CASE ForeignArrives
    BY <1>11 DEF ForeignArrives, Deliver, engineVars
  <1>12. CASE Tick
    BY <1>12 DEF Tick, Passes, Later
  <1>13. CASE UNCHANGED vars
    BY <1>13 DEF vars, engineVars
  <1> QED
    BY <1>1, <1>2, <1>3, <1>4, <1>5, <1>6, <1>7, <1>8, <1>9, <1>10, <1>11, <1>12,
       <1>13 DEF Next, ThreadStep

\* One step keeps a genuine message genuine.
LEMMA StaysGenuine ==
    ASSUME RInv, [Next]_vars, NEW m \in Message, Genuine(m)
    PROVE  Genuine(m)'
  <1>1. /\ sent <= sent'
        /\ arrived \subseteq arrived'
        /\ (seq' = seq /\ age <= age') \/ seq' = seq + 1
    BY Forward
  <1>2. TypeOK /\ TypeOK'
    BY TypeStep DEF RInv
  <1>3. /\ m.seq \in Nat /\ m.at \in Nat
        /\ sent \in Nat /\ sent' \in Nat /\ seq \in Nat /\ seq' \in Nat
        /\ age \in Nat /\ age' \in Nat
    BY <1>2, EngineAssumption DEF TypeOK, EngineTypeOK, Message, Horizon
  <1>4. m.seq <= sent' /\ (m.seq = seq' => m.at <= age')
    BY <1>1, <1>3 DEF Genuine, RInv, SentOK
  <1>5. m.kind \in Kind => [seq |-> m.seq, kind |-> m.kind] \in arrived'
    BY <1>1 DEF Genuine
  <1> QED
    BY <1>4, <1>5 DEF Genuine

\* One step keeps every message genuine: those that stay, and a new one.
LEMMA MessagesStep == RInv /\ [Next]_vars => AllGenuine'
  <1> SUFFICES ASSUME RInv, [Next]_vars PROVE AllGenuine'
    OBVIOUS
  <1>1. /\ inbox \in Seq(Message) /\ taken \in Message
        /\ \A m \in Message : Genuine(m) => Genuine(m)'
        /\ seq \in Nat /\ seq >= 1 /\ sent \in Nat
    BY StaysGenuine, EngineAssumption DEF RInv, TypeOK, EngineTypeOK
  <1>2. Genuine(taken) /\ \A j \in 1 .. Len(inbox) : inbox[j] \in Message /\ Genuine(inbox[j])
    BY <1>1 DEF RInv, AllGenuine
  <1>3. Nothing \in Message /\ Genuine(Nothing)
    BY <1>1, EngineAssumption DEF Nothing, Message, Genuine, Kind, Horizon
  <1>4. ASSUME inbox' = inbox, taken' = taken \/ taken' = Nothing
        PROVE  AllGenuine'
    <2>1. \A m \in Message : Genuine(m) => Genuine(m)'
      BY <1>1
    <2>2. \A j \in 1 .. Len(inbox) : Genuine(inbox[j])'
      BY <1>2, <1>4, <2>1 DEF Genuine
    <2>3. Genuine(taken)'
      BY <1>1, <1>2, <1>3, <1>4, <2>1 DEF Genuine
    <2> QED
      BY <1>4, <2>2, <2>3 DEF AllGenuine
  <1>5. CASE Take
    <2>1. inbox # <<>> /\ taken' = Head(inbox) /\ inbox' = Tail(inbox)
      BY <1>5 DEF Take
    <2>2. taken' = inbox[1] /\ 1 \in 1 .. Len(inbox)
      BY <1>1, <2>1
    <2>3. \A j \in 1 .. Len(inbox') : inbox'[j] = inbox[j + 1] /\ j + 1 \in 1 .. Len(inbox)
      BY <1>1, <2>1
    <2>4. Genuine(taken)'
      BY <1>1, <1>2, <2>2 DEF Genuine
    <2>5. ASSUME NEW j \in 1 .. Len(inbox') PROVE Genuine(inbox[j])'
      <3>1. PICK m \in Message : m = inbox[j + 1] /\ Genuine(m)
        BY <1>2, <2>3
      <3>2. Genuine(m)' /\ inbox'[j] = m
        BY <1>1, <2>3, <3>1
      <3> QED
        BY <3>2 DEF Genuine
    <2> QED
      BY <2>4, <2>5 DEF AllGenuine
  <1>6. ASSUME NEW m \in Message, Genuine(m)', inbox' = Append(inbox, m), taken' = taken
        PROVE  AllGenuine'
    <2>1. Genuine(taken)'
      BY <1>1, <1>2, <1>6 DEF Genuine
    <2>2. ASSUME NEW j \in 1 .. Len(inbox') PROVE Genuine(inbox[j])' 
      <3>1. CASE j \in 1 .. Len(inbox)
        BY <1>1, <1>2, <1>6, <3>1 DEF Genuine
      <3>2. CASE j = Len(inbox) + 1
        BY <1>1, <1>6, <3>2 DEF Genuine
      <3> QED
        BY <1>1, <1>6, <3>1, <3>2
    <2> QED
      BY <2>1, <2>2 DEF AllGenuine
  <1>7. CASE AnswerArrives
    <2>1. PICK s \in 1 .. sent, k \in Kind :
            /\ Deliver([kind |-> k, seq |-> s, at |-> IF s = seq THEN age ELSE 0])
            /\ arrived' = arrived \cup {[seq |-> s, kind |-> k]}
            /\ UNCHANGED <<engineVars, sent, timer, taken>>
      BY <1>7 DEF AnswerArrives
    <2>2. PICK m \in Message : m = [kind |-> k, seq |-> s, at |-> IF s = seq THEN age ELSE 0]
      <3>1. s \in 0 .. Attempts /\ (IF s = seq THEN age ELSE 0) \in 0 .. Horizon
        BY EngineAssumption DEF RInv, TypeOK, EngineTypeOK, Horizon
      <3> QED
        BY <3>1 DEF Message
    <2>3. inbox' = Append(inbox, m) /\ taken' = taken
      BY <2>1, <2>2 DEF Deliver
    <2>4. m.seq <= sent' /\ (m.seq = seq' => m.at <= age')
      BY <1>1, <2>1, <2>2 DEF engineVars, RInv, TypeOK, EngineTypeOK, Horizon
    <2>5. [seq |-> m.seq, kind |-> m.kind] \in arrived'
      BY <2>1, <2>2
    <2>6. Genuine(m)'
      BY <2>4, <2>5 DEF Genuine
    <2> QED
      BY <1>6, <2>3, <2>6
  <1>8. CASE ForeignArrives
    <2>1. inbox' = Append(inbox, Nothing) /\ taken' = taken
      BY <1>8 DEF ForeignArrives, Deliver
    <2>2. Genuine(Nothing)'
      BY <1>1, <1>3
    <2> QED
      BY <1>3, <1>6, <2>1, <2>2
  <1>9. CASE RawJudge
    BY <1>4, <1>9 DEF RawJudge
  <1>10. CASE Send \/ RawLoop \/ Arm \/ TimesOut \/ RawStamp
    BY <1>4, <1>10 DEF Send, RawLoop, Arm, TimesOut, RawStamp
  <1>11. CASE Interrupted \/ ReceiveFails \/ Tick \/ UNCHANGED vars
    BY <1>4, <1>11 DEF Interrupted, ReceiveFails, Tick, vars
  <1> QED
    BY <1>5, <1>7, <1>8, <1>9, <1>10, <1>11 DEF Next, ThreadStep

\* One step keeps the parts about clocks and timers.
LEMMA ClocksStep == RInv /\ [Next]_vars => StampOK' /\ WaitOK'
  <1> SUFFICES ASSUME RInv, [Next]_vars PROVE StampOK' /\ WaitOK'
    OBVIOUS
  <1> USE EngineAssumption, RawAssumption
      DEF RInv, TypeOK, EngineTypeOK, Returned, StampOK, WaitOK, AllGenuine, Genuine, NotArmed, Horizon, Message, Outcome
  <1>1. CASE Send
    BY <1>1 DEF Send, SendReturns, OnError, Continue, Settle
  <1>2. CASE RawLoop
    BY <1>2 DEF RawLoop, Loop, BeforeDeadline, Remaining, EndAttempt, AnotherAttempt,
       Continue, Settle
  <1>3. CASE Arm
    BY <1>3 DEF Arm, Floor, ReceiveReturns, EndsWait, OnError, EndAttempt, AnotherAttempt,
       Continue, Settle, engineVars
  <1>4. CASE Take
    BY <1>4 DEF Take, InRecv, ReceiveReturns, EndsWait, OnError, EndAttempt, AnotherAttempt,
       Continue, Settle
  <1>5. CASE TimesOut
    BY <1>5 DEF TimesOut, InRecv, ReceiveReturns, EndsWait, OnError, EndAttempt,
       AnotherAttempt, Continue, Settle
  <1>6. CASE RawStamp
    BY <1>6 DEF RawStamp, Stamp, Continue
  <1>7. CASE RawJudge
    BY <1>7 DEF RawJudge, Judge, ParseReply, Late, EndAttempt, AnotherAttempt, Continue,
       Settle, Nothing, Kind
  <1>8. CASE Interrupted
    BY <1>8 DEF Interrupted, InRecv, ReceiveReturns, EndsWait, OnError, EndAttempt,
       AnotherAttempt, Continue, Settle
  <1>9. CASE ReceiveFails
    BY <1>9 DEF ReceiveFails, InRecv, ReceiveReturns, EndsWait, OnError, EndAttempt,
       AnotherAttempt, Continue, Settle
  <1>10. CASE AnswerArrives
    BY <1>10 DEF AnswerArrives, Deliver, engineVars
  <1>11. CASE ForeignArrives
    BY <1>11 DEF ForeignArrives, Deliver, Nothing, Kind, engineVars
  <1>12. CASE Tick
    <2>1. StampOK'
      BY <1>12 DEF Tick, Passes, Later
    <2>2. timer = NotArmed => WaitOK'
      BY <1>12 DEF Tick, Passes, Later
    <2>3. timer > 0 => WaitOK'
      BY <1>12 DEF Tick, Passes, Later
    <2>4. timer = 0 => WaitOK'
      BY <1>12 DEF Tick, Passes, Later
    <2> QED
      BY <2>1, <2>2, <2>3, <2>4
  <1>13. CASE UNCHANGED vars
    BY <1>13 DEF vars, engineVars
  <1> QED
    BY <1>1, <1>2, <1>3, <1>4, <1>5, <1>6, <1>7, <1>8, <1>9, <1>10, <1>11, <1>12,
       <1>13 DEF Next, ThreadStep

\* One step keeps the latency a measured one.
LEMMA LatencyStep == RInv /\ [Next]_vars => LatencyIsMeasured'
  <1> SUFFICES ASSUME RInv, [Next]_vars PROVE LatencyIsMeasured'
    OBVIOUS
  <1> USE EngineAssumption, RawAssumption
      DEF RInv, TypeOK, EngineTypeOK, Returned, StampOK, LatencyIsMeasured, Horizon, Message, Outcome, ParseReply
  <1>1. CASE Send
    BY <1>1 DEF Send, SendReturns, OnError, Continue, Settle
  <1>2. CASE RawLoop
    BY <1>2 DEF RawLoop, Loop, BeforeDeadline, Remaining, EndAttempt, AnotherAttempt,
       Continue, Settle
  <1>3. CASE Arm
    BY <1>3 DEF Arm, Floor, ReceiveReturns, EndsWait, OnError, EndAttempt, AnotherAttempt,
       Continue, Settle, engineVars
  <1>4. CASE Take
    BY <1>4 DEF Take, InRecv, ReceiveReturns, EndsWait, OnError, EndAttempt, AnotherAttempt,
       Continue, Settle
  <1>5. CASE TimesOut
    BY <1>5 DEF TimesOut, InRecv, ReceiveReturns, EndsWait, OnError, EndAttempt,
       AnotherAttempt, Continue, Settle
  <1>6. CASE RawStamp
    BY <1>6 DEF RawStamp, Stamp, Continue
  <1>7. CASE RawJudge
    BY <1>7 DEF RawJudge, Judge, ParseReply, Late, EndAttempt, AnotherAttempt, Continue,
       Settle, Nothing, Kind
  <1>8. CASE Interrupted
    BY <1>8 DEF Interrupted, InRecv, ReceiveReturns, EndsWait, OnError, EndAttempt,
       AnotherAttempt, Continue, Settle
  <1>9. CASE ReceiveFails
    BY <1>9 DEF ReceiveFails, InRecv, ReceiveReturns, EndsWait, OnError, EndAttempt,
       AnotherAttempt, Continue, Settle
  <1>10. CASE AnswerArrives
    BY <1>10 DEF AnswerArrives, Deliver, engineVars
  <1>11. CASE ForeignArrives
    BY <1>11 DEF ForeignArrives, Deliver, Nothing, Kind, engineVars
  <1>12. CASE Tick
    BY <1>12 DEF Tick, Passes, Later
  <1>13. CASE UNCHANGED vars
    BY <1>13 DEF vars, engineVars
  <1> QED
    BY <1>1, <1>2, <1>3, <1>4, <1>5, <1>6, <1>7, <1>8, <1>9, <1>10, <1>11, <1>12,
       <1>13 DEF Next, ThreadStep

-------------------------------------------------------------------------------
(* The theorems.                                                             *)

\* RInv holds in every reachable state.
THEOREM Inductive == Spec => []RInv
  <1>1. RInv /\ [Next]_vars => RInv'
    BY TypeStep, ControlStep, MessagesStep, ClocksStep, LatencyStep DEF RInv
  <1> QED
    BY InitRInv, <1>1, PTL DEF Spec

\* The receive buffer, the timer and the loop's variables keep their types: no
\* attempt past the last, no timer beyond the timeout.
THEOREM TypeCorrect == Spec => []TypeOK
  <1>1. RInv => TypeOK
    BY DEF RInv
  <1> QED
    BY <1>1, Inductive, PTL

\* A reported latency is that of the attempt's own reply, at least the time it
\* took and at most the timeout, however the thread is scheduled.
THEOREM LatencyTheorem == Spec => []LatencyIsMeasured
  <1>1. RInv => LatencyIsMeasured
    BY DEF RInv
  <1> QED
    BY <1>1, Inductive, PTL

LEMMA RunsFullStep == RInv /\ [Next]_vars => (AttemptEnds => age >= Timeout)
  <1> SUFFICES ASSUME RInv, [Next]_vars, AttemptEnds PROVE age >= Timeout
    OBVIOUS
  <1> USE EngineAssumption DEF RInv, TypeOK, EngineTypeOK, WaitOK, AttemptEnds, Horizon,
      NotArmed
  <1>1. CASE Send
    BY <1>1 DEF Send, SendReturns, OnError, Continue, Settle
  <1>2. CASE RawLoop
    BY <1>2 DEF RawLoop, Loop, BeforeDeadline, Remaining, EndAttempt, AnotherAttempt,
       Continue, Settle
  <1>3. CASE Arm
    BY <1>3 DEF Arm, Floor, ReceiveReturns, EndsWait, OnError, EndAttempt, AnotherAttempt,
       Continue, Settle, engineVars
  <1>4. CASE Take
    BY <1>4 DEF Take, InRecv, ReceiveReturns, EndsWait, OnError, EndAttempt, AnotherAttempt,
       Continue, Settle
  <1>5. CASE TimesOut
    BY <1>5 DEF TimesOut, InRecv, ReceiveReturns, EndsWait, OnError, EndAttempt,
       AnotherAttempt, Continue, Settle
  <1>6. CASE RawStamp
    BY <1>6 DEF RawStamp, Stamp, Continue
  <1>7. CASE RawJudge
    BY <1>7 DEF RawJudge, Judge, ParseReply, Late, EndAttempt, AnotherAttempt, Continue,
       Settle, Kind
  <1>8. CASE Interrupted
    BY <1>8 DEF Interrupted, InRecv, ReceiveReturns, EndsWait, OnError, EndAttempt,
       AnotherAttempt, Continue, Settle
  <1>9. CASE ReceiveFails
    BY <1>9 DEF ReceiveFails, InRecv, ReceiveReturns, EndsWait, OnError, EndAttempt,
       AnotherAttempt, Continue, Settle
  <1>10. CASE AnswerArrives
    BY <1>10 DEF AnswerArrives, Deliver, engineVars
  <1>11. CASE ForeignArrives
    BY <1>11 DEF ForeignArrives, Deliver, engineVars
  <1>12. CASE Tick
    BY <1>12 DEF Tick, Passes, Later
  <1>13. CASE UNCHANGED vars
    BY <1>13 DEF vars, engineVars
  <1> QED
    BY <1>1, <1>2, <1>3, <1>4, <1>5, <1>6, <1>7, <1>8, <1>9, <1>10, <1>11, <1>12,
       <1>13 DEF Next, ThreadStep

\* probe gives an attempt up only when the whole timeout has passed.
THEOREM RunsFull == Spec => AttemptRunsFull
  <1>1. RInv /\ [Next]_vars => [AttemptEnds => age >= Timeout]_engineVars
    BY RunsFullStep
  <1> QED
    BY <1>1, Inductive, PTL DEF Spec, AttemptRunsFull

LEMMA DeadlineStep ==
    RInv /\ [Next]_vars =>
        (outcome = "none" /\ outcome' = "rejected" => pc = "send" \/ InRecv)
  <1> SUFFICES ASSUME RInv, [Next]_vars, outcome = "none", outcome' = "rejected"
               PROVE  pc = "send" \/ InRecv
    OBVIOUS
  <1> USE EngineAssumption DEF RInv, TypeOK, EngineTypeOK
  <1>1. CASE Send
    BY <1>1 DEF Send, SendReturns, OnError, Continue, Settle
  <1>2. CASE RawLoop
    BY <1>2 DEF RawLoop, Loop, BeforeDeadline, Remaining, EndAttempt, AnotherAttempt,
       Continue, Settle
  <1>3. CASE Arm
    BY <1>3 DEF Arm, Floor, ReceiveReturns, EndsWait, OnError, EndAttempt, AnotherAttempt,
       Continue, Settle, engineVars
  <1>4. CASE Take
    BY <1>4 DEF Take, InRecv, ReceiveReturns, EndsWait, OnError, EndAttempt, AnotherAttempt,
       Continue, Settle
  <1>5. CASE TimesOut
    BY <1>5 DEF TimesOut, InRecv, ReceiveReturns, EndsWait, OnError, EndAttempt,
       AnotherAttempt, Continue, Settle
  <1>6. CASE RawStamp
    BY <1>6 DEF RawStamp, Stamp, Continue
  <1>7. CASE RawJudge
    BY <1>7 DEF RawJudge, Judge, ParseReply, Late, EndAttempt, AnotherAttempt, Continue,
       Settle, Kind
  <1>8. CASE Interrupted
    BY <1>8 DEF Interrupted, InRecv, ReceiveReturns, EndsWait, OnError, EndAttempt,
       AnotherAttempt, Continue, Settle
  <1>9. CASE ReceiveFails
    BY <1>9 DEF ReceiveFails, InRecv, ReceiveReturns, EndsWait, OnError, EndAttempt,
       AnotherAttempt, Continue, Settle
  <1>10. CASE AnswerArrives
    BY <1>10 DEF AnswerArrives, Deliver, engineVars
  <1>11. CASE ForeignArrives
    BY <1>11 DEF ForeignArrives, Deliver, engineVars
  <1>12. CASE Tick
    BY <1>12 DEF Tick, Passes, Later
  <1>13. CASE UNCHANGED vars
    BY <1>13 DEF vars, engineVars
  <1> QED
    BY <1>1, <1>2, <1>3, <1>4, <1>5, <1>6, <1>7, <1>8, <1>9, <1>10, <1>11, <1>12,
       <1>13 DEF Next, ThreadStep

\* A receive with no time left is not an error.
THEOREM DeadlineTheorem == Spec => DeadlineIsNoError
  <1>1. RInv /\ [Next]_vars =>
            [outcome = "none" /\ outcome' = "rejected" => pc = "send" \/ InRecv]_vars
    BY DeadlineStep
  <1> QED
    BY <1>1, Inductive, PTL DEF Spec, DeadlineIsNoError

-------------------------------------------------------------------------------
(* An attempt whose thread always had a processor.                           *)

\* Neither the clock nor a timer is further than the deadline and the floor of a
\* millisecond.
PaceOK ==
    ~kept =>
        /\ age <= Timeout + 1
        /\ pc = "receive" => IF timer = NotArmed THEN age + wait <= Timeout
                                                ELSE age + timer <= Timeout + 1

LEMMA PaceStep == RInv /\ PaceOK /\ [Next]_vars => PaceOK'
  <1> SUFFICES ASSUME RInv, PaceOK, [Next]_vars PROVE PaceOK'
    OBVIOUS
  <1> USE EngineAssumption, RawAssumption
      DEF RInv, TypeOK, EngineTypeOK, WaitOK, PaceOK, NotArmed, Horizon
  <1>1. CASE Send
    BY <1>1 DEF Send, SendReturns, OnError, Continue, Settle
  <1>2. CASE RawLoop
    BY <1>2 DEF RawLoop, Loop, BeforeDeadline, Remaining, EndAttempt, AnotherAttempt,
       Continue, Settle
  <1>3. CASE Arm
    BY <1>3 DEF Arm, Floor, ReceiveReturns, EndsWait, OnError, EndAttempt,
       AnotherAttempt, Continue, Settle, engineVars
  <1>4. CASE Take
    BY <1>4 DEF Take, InRecv, ReceiveReturns, EndsWait, OnError, EndAttempt,
       AnotherAttempt, Continue, Settle
  <1>5. CASE TimesOut
    BY <1>5 DEF TimesOut, InRecv, ReceiveReturns, EndsWait, OnError, EndAttempt,
       AnotherAttempt, Continue, Settle
  <1>6. CASE RawStamp
    BY <1>6 DEF RawStamp, Stamp, Continue
  <1>7. CASE RawJudge
    BY <1>7 DEF RawJudge, Judge, ParseReply, Late, EndAttempt, AnotherAttempt,
       Continue, Settle
  <1>8. CASE Interrupted
    BY <1>8 DEF Interrupted, InRecv, ReceiveReturns, EndsWait, OnError, EndAttempt,
       AnotherAttempt, Continue, Settle
  <1>9. CASE ReceiveFails
    BY <1>9 DEF ReceiveFails, InRecv, ReceiveReturns, EndsWait, OnError, EndAttempt,
       AnotherAttempt, Continue, Settle
  <1>10. CASE AnswerArrives
    BY <1>10 DEF AnswerArrives, Deliver, engineVars
  <1>11. CASE ForeignArrives
    BY <1>11 DEF ForeignArrives, Deliver, engineVars
  <1>12. CASE Tick
    <2>1. kept' \/ (~kept /\ Asleep)
      BY <1>12 DEF Tick, Passes
    <2>2. CASE kept'
      BY <2>2
    <2>3. CASE ~kept /\ Asleep
      BY <1>12, <2>3 DEF Tick, Passes, Later, Asleep, InRecv
    <2> QED
      BY <2>1, <2>2, <2>3
  <1>13. CASE UNCHANGED vars
    BY <1>13 DEF vars, engineVars
  <1> QED
    BY <1>1, <1>2, <1>3, <1>4, <1>5, <1>6, <1>7, <1>8, <1>9, <1>10, <1>11, <1>12,
       <1>13 DEF Next, ThreadStep

\* An attempt of a thread that always has a processor lasts its timeout and one
\* tick, however late the attempts before it ended.
THEOREM BoundedTheorem == Spec => []AttemptIsBounded
  <1>1. Init => PaceOK
    BY EngineAssumption DEF Init, EngineInit, PaceOK
  <1>2. PaceOK => AttemptIsBounded
    BY DEF PaceOK, AttemptIsBounded
  <1> QED
    BY <1>1, <1>2, PaceStep, Inductive, PTL DEF Spec

\* Every message in the buffer or in the hands of the thread.
Heard == {inbox[j] : j \in 1 .. Len(inbox)} \cup {taken}

\* The thread holds a message only while it looks at it.
HandOK == pc \notin {"received", "stamped", "done"} => taken = Nothing

\* What answers the current attempt arrived at this very instant: a thread that
\* always has a processor sleeps only once there is nothing left to read.
FreshOK ==
    ~kept /\ pc # "done" => \A m \in Heard : m.seq = seq => m.at = age

LEMMA HandStep == RInv /\ HandOK /\ [Next]_vars => HandOK'
  <1> SUFFICES ASSUME RInv, HandOK, [Next]_vars PROVE HandOK'
    OBVIOUS
  <1> USE DEF RInv, TypeOK, EngineTypeOK, HandOK, Returned
  <1>1. CASE Send
    BY <1>1 DEF Send, SendReturns, OnError, Continue, Settle
  <1>2. CASE RawLoop
    BY <1>2 DEF RawLoop, Loop, BeforeDeadline, Remaining, EndAttempt, AnotherAttempt,
       Continue, Settle
  <1>3. CASE Arm
    BY <1>3 DEF Arm, Floor, ReceiveReturns, EndsWait, OnError, EndAttempt,
       AnotherAttempt, Continue, Settle, engineVars
  <1>4. CASE Take
    BY <1>4 DEF Take, InRecv, ReceiveReturns, EndsWait, OnError, EndAttempt,
       AnotherAttempt, Continue, Settle
  <1>5. CASE TimesOut
    BY <1>5 DEF TimesOut, InRecv, ReceiveReturns, EndsWait, OnError, EndAttempt,
       AnotherAttempt, Continue, Settle
  <1>6. CASE RawStamp
    BY <1>6 DEF RawStamp, Stamp, Continue
  <1>7. CASE RawJudge
    BY <1>7 DEF RawJudge, Judge, ParseReply, Late, EndAttempt, AnotherAttempt,
       Continue, Settle
  <1>8. CASE Interrupted
    BY <1>8 DEF Interrupted, InRecv, ReceiveReturns, EndsWait, OnError, EndAttempt,
       AnotherAttempt, Continue, Settle
  <1>9. CASE ReceiveFails
    BY <1>9 DEF ReceiveFails, InRecv, ReceiveReturns, EndsWait, OnError, EndAttempt,
       AnotherAttempt, Continue, Settle
  <1>10. CASE AnswerArrives
    BY <1>10 DEF AnswerArrives, Deliver, engineVars
  <1>11. CASE ForeignArrives
    BY <1>11 DEF ForeignArrives, Deliver, engineVars
  <1>12. CASE Tick
    BY <1>12 DEF Tick, Passes
  <1>13. CASE UNCHANGED vars
    BY <1>13 DEF vars, engineVars
  <1> QED
    BY <1>1, <1>2, <1>3, <1>4, <1>5, <1>6, <1>7, <1>8, <1>9, <1>10, <1>11, <1>12,
       <1>13 DEF Next, ThreadStep

\* A message is heard already, or it answers nothing, or it arrives in this step.
LEMMA HeardStep ==
    RInv /\ [Next]_vars =>
        \A m \in Heard' :
            \/ m \in Heard
            \/ m = Nothing
            \/ UNCHANGED engineVars /\ m.at = IF m.seq = seq THEN age ELSE 0
  <1> SUFFICES ASSUME RInv, [Next]_vars, NEW m \in Heard', m \notin Heard, m # Nothing
               PROVE  UNCHANGED engineVars /\ m.at = IF m.seq = seq THEN age ELSE 0
    OBVIOUS
  <1>1. inbox \in Seq(Message)
    BY DEF RInv, TypeOK
  <1>2. CASE Take
    <2>1. inbox # <<>> /\ taken' = Head(inbox) /\ inbox' = Tail(inbox)
      BY <1>2 DEF Take
    <2>2. taken' = inbox[1] /\ 1 \in 1 .. Len(inbox)
      BY <1>1, <2>1
    <2>3. \A j \in 1 .. Len(inbox') : inbox'[j] = inbox[j + 1] /\ j + 1 \in 1 .. Len(inbox)
      BY <1>1, <2>1
    <2> QED
      BY <2>2, <2>3 DEF Heard
  <1>3. ASSUME NEW a, inbox' = Append(inbox, a), taken' = taken PROVE m = a
    <2>1. taken' \in Heard
      BY <1>3 DEF Heard
    <2>2. PICK j \in 1 .. Len(inbox') : m = inbox'[j]
      BY <2>1 DEF Heard
    <2>3. j \in 1 .. Len(inbox) => m \in Heard
      BY <1>1, <1>3, <2>2 DEF Heard
    <2> QED
      BY <1>1, <1>3, <2>2, <2>3
  <1>4. CASE AnswerArrives
    <2>1. PICK s \in 1 .. sent, k \in Kind :
            /\ Deliver([kind |-> k, seq |-> s, at |-> IF s = seq THEN age ELSE 0])
            /\ UNCHANGED <<engineVars, taken>>
      BY <1>4 DEF AnswerArrives
    <2>2. m = [kind |-> k, seq |-> s, at |-> IF s = seq THEN age ELSE 0]
      BY <1>3, <2>1 DEF Deliver
    <2> QED
      BY <2>1, <2>2
  <1>5. CASE ForeignArrives
    <2>1. m = Nothing
      BY <1>3, <1>5 DEF ForeignArrives, Deliver
    <2> QED
      BY <2>1
  <1>6. ASSUME inbox' = inbox, taken' = taken \/ taken' = Nothing PROVE FALSE
    BY <1>6 DEF Heard
  <1>7. CASE Send \/ RawLoop \/ Arm \/ TimesOut \/ RawStamp \/ RawJudge
    BY <1>6, <1>7 DEF Send, RawLoop, Arm, TimesOut, RawStamp, RawJudge
  <1>8. CASE Interrupted \/ ReceiveFails \/ Tick \/ UNCHANGED vars
    BY <1>6, <1>8 DEF Interrupted, ReceiveFails, Tick, vars
  <1> QED
    BY <1>2, <1>4, <1>5, <1>7, <1>8 DEF Next, ThreadStep

\* Only time makes an attempt older.
LEMMA SameAge ==
    [Next]_vars /\ ~Tick => seq' = seq + 1 \/ UNCHANGED <<seq, age, kept>>
  <1> SUFFICES ASSUME [Next]_vars, ~Tick PROVE seq' = seq + 1 \/ UNCHANGED <<seq, age, kept>>
    OBVIOUS
  <1>1. CASE Send \/ RawLoop \/ Arm \/ Take \/ TimesOut \/ Interrupted \/ ReceiveFails
    BY <1>1 DEF Send, RawLoop, Arm, Take, TimesOut, Interrupted, ReceiveFails, Loop,
       SendReturns, ReceiveReturns, OnError, EndAttempt, Continue, Settle, engineVars
  <1>2. CASE RawStamp \/ RawJudge
    BY <1>2 DEF RawStamp, RawJudge, Stamp, Judge, EndAttempt, Continue, Settle
  <1>3. CASE AnswerArrives \/ ForeignArrives \/ UNCHANGED vars
    BY <1>3 DEF AnswerArrives, ForeignArrives, vars, engineVars
  <1> QED
    BY <1>1, <1>2, <1>3 DEF Next, ThreadStep

LEMMA FreshStep == RInv /\ HandOK /\ FreshOK /\ [Next]_vars => FreshOK'
  <1> SUFFICES ASSUME RInv, HandOK, FreshOK, [Next]_vars, ~kept', pc' # "done",
                      NEW m \in Heard', m.seq = seq'
               PROVE  m.at = age'
    BY DEF FreshOK
  <1>1. seq \in Nat /\ seq >= 1 /\ sent \in Nat /\ sent <= seq
    BY EngineAssumption DEF RInv, TypeOK, EngineTypeOK, SentOK
  <1>2. pc # "done"
    BY DEF Next, vars, engineVars, ThreadStep, Send, RawLoop, Arm, Take, TimesOut, RawStamp,
       RawJudge, Interrupted, ReceiveFails, AnswerArrives, ForeignArrives, Tick, Deliver,
       SendReturns, Loop, InRecv, Stamp, Judge
  <1>3. m # Nothing
    BY <1>1, Forward DEF Nothing
  <1>4. CASE UNCHANGED engineVars /\ m.at = IF m.seq = seq THEN age ELSE 0
    BY <1>4 DEF engineVars
  <1>5. CASE m \in Heard
    <2>1. m.seq <= sent
      BY <1>5 DEF Heard, RInv, AllGenuine, Genuine
    <2>2. seq' # seq + 1
      BY <1>1, <2>1
    <2>3. CASE Tick
      <3>1. ~kept /\ Asleep /\ seq' = seq
        BY <2>3 DEF Tick, Passes
      <3>2. CASE pc = "send"
        BY <1>1, <2>1, <3>1, <3>2 DEF RInv, SentOK
      <3>3. CASE InRecv
        <4>1. inbox = <<>> /\ taken = Nothing
          BY <3>1, <3>3 DEF Asleep, InRecv, HandOK
        <4> QED
          BY <1>3, <1>5, <4>1 DEF Heard
      <3> QED
        BY <3>1, <3>2, <3>3 DEF Asleep
    <2>4. CASE ~Tick
      BY <1>2, <1>5, <2>2, <2>4, SameAge DEF FreshOK
    <2> QED
      BY <2>3, <2>4
  <1> QED
    BY <1>3, <1>4, <1>5, HeardStep

LEMMA InTimeStep ==
    RInv /\ HandOK /\ FreshOK /\ [Next]_vars =>
        (AttemptEnds /\ ~kept => \A m \in Heard : m.kind \in Kind /\ m.seq = seq => m.at > Timeout)
  <1> SUFFICES ASSUME RInv, HandOK, FreshOK, [Next]_vars, AttemptEnds, ~kept,
                      NEW m \in Heard, m.seq = seq
               PROVE  m.at > Timeout
    OBVIOUS
  <1>1. seq >= 1 /\ age \in Nat /\ Timeout \in Nat
    BY EngineAssumption DEF RInv, TypeOK, EngineTypeOK, Horizon
  <1>2. m # Nothing
    BY <1>1 DEF Nothing
  <1>3. CASE (RawLoop \/ RawJudge) /\ age > Timeout
    <2>1. pc # "done"
      BY <1>3 DEF RawLoop, RawJudge, Loop, Judge
    <2> QED
      BY <1>1, <1>3, <2>1 DEF FreshOK
  <1>4. CASE TimesOut
    <2>1. inbox = <<>> /\ taken = Nothing
      BY <1>4 DEF TimesOut, InRecv, HandOK
    <2> QED
      BY <1>2, <2>1 DEF Heard
  <1>5. CASE (RawLoop \/ RawJudge) /\ ~(age > Timeout)
    BY <1>1, <1>5 DEF RawLoop, RawJudge, Loop, Judge, Late, BeforeDeadline, AttemptEnds,
       Continue, Settle
  <1>6. CASE Send \/ Arm \/ Take \/ RawStamp \/ Interrupted \/ ReceiveFails
    BY <1>6 DEF Send, Arm, Take, RawStamp, Interrupted, ReceiveFails, SendReturns,
       ReceiveReturns, EndsWait, OnError, Stamp, AttemptEnds, Continue, Settle, engineVars
  <1>7. CASE AnswerArrives \/ ForeignArrives \/ Tick \/ UNCHANGED vars
    BY <1>7 DEF AnswerArrives, ForeignArrives, Tick, Passes, AttemptEnds, vars, engineVars
  <1> QED
    BY <1>3, <1>4, <1>5, <1>6, <1>7 DEF Next, ThreadStep

\* In an attempt whose thread always had a processor, no answer that reached the
\* socket in time is left behind when it is given up.
THEOREM InTimeTheorem == Spec => AnswerInTimeDecides
  <1>1. Init => HandOK /\ FreshOK
    BY EngineAssumption DEF Init, EngineInit, HandOK, FreshOK, Heard, Nothing
  <1>2. RInv /\ HandOK /\ FreshOK /\ [Next]_vars => HandOK' /\ FreshOK'
    BY HandStep, FreshStep
  <1>3. RInv /\ HandOK /\ FreshOK /\ [Next]_vars =>
            [AttemptEnds /\ ~kept =>
                \A m \in {inbox[j] : j \in 1 .. Len(inbox)} \cup {taken} :
                    m.kind \in Kind /\ m.seq = seq => m.at > Timeout]_vars
    BY InTimeStep DEF Heard
  <1> QED
    BY <1>1, <1>2, <1>3, Inductive, PTL DEF Spec, AnswerInTimeDecides

-------------------------------------------------------------------------------
(* RawProbe implements ProbeContract.                                        *)

LEMMA ContractInitial == Init => Contract!ContractInit
  BY DEF Init, EngineInit, Contract!ContractInit

\* Every step is one of the contract's or leaves its variables alone.
LEMMA ContractStep ==
    RInv /\ [Next]_vars => [Contract!ContractNext]_Contract!contractVars
  <1> SUFFICES ASSUME RInv, [Next]_vars
               PROVE  Contract!ContractNext \/ UNCHANGED Contract!contractVars
    OBVIOUS
  <1> USE EngineAssumption
      DEF RInv, TypeOK, EngineTypeOK, SentOK, Returned, Contract!ContractNext,
          Contract!contractVars, Contract!Conclude, Contract!Pending
  <1>1. CASE Send
    BY <1>1 DEF Send, SendReturns, OnError, Continue, Settle, Contract!Request
  <1>2. CASE RawLoop
    BY <1>2 DEF RawLoop, Loop, BeforeDeadline, Remaining, EndAttempt, AnotherAttempt,
       Continue, Settle
  <1>3. CASE Arm
    BY <1>3 DEF Arm, Floor, ReceiveReturns, EndsWait, OnError, EndAttempt, AnotherAttempt,
       Continue, Settle, engineVars
  <1>4. CASE Take
    BY <1>4 DEF Take, InRecv, ReceiveReturns, EndsWait, OnError, EndAttempt, AnotherAttempt,
       Continue, Settle
  <1>5. CASE TimesOut
    BY <1>5 DEF TimesOut, InRecv, ReceiveReturns, EndsWait, OnError, EndAttempt,
       AnotherAttempt, Continue, Settle
  <1>6. CASE RawStamp
    BY <1>6 DEF RawStamp, Stamp, Continue
  <1>7. CASE RawJudge
    <2>1. CASE outcome' = "success"
      <3>1. taken.kind = "echo" /\ taken.seq = seq
        BY <1>7, <2>1 DEF RawJudge, Judge, ParseReply, EndAttempt, AnotherAttempt, Continue,
           Settle, Kind
      <3>2. [seq |-> sent, kind |-> "echo"] \in arrived
        BY <1>7, <3>1 DEF RawJudge, Judge, AllGenuine, Genuine, Kind
      <3> QED
        BY <1>7, <2>1, <3>2 DEF RawJudge, Judge, EndAttempt, AnotherAttempt, Continue, Settle
    <2>2. CASE outcome' = "negative"
      <3>1. taken.kind = "error" /\ taken.seq = seq
        BY <1>7, <2>2 DEF RawJudge, Judge, ParseReply, EndAttempt, AnotherAttempt, Continue,
           Settle, Kind
      <3>2. [seq |-> sent, kind |-> "error"] \in arrived
        BY <1>7, <3>1 DEF RawJudge, Judge, AllGenuine, Genuine, Kind
      <3> QED
        BY <1>7, <2>2, <3>2 DEF RawJudge, Judge, EndAttempt, AnotherAttempt, Continue, Settle
    <2>3. CASE outcome' \notin {"success", "negative"}
      BY <1>7, <2>3 DEF RawJudge, Judge, EndAttempt, AnotherAttempt, Continue, Settle
    <2> QED
      BY <2>1, <2>2, <2>3
  <1>8. CASE Interrupted
    BY <1>8 DEF Interrupted, InRecv, ReceiveReturns, EndsWait, OnError, EndAttempt,
       AnotherAttempt, Continue, Settle
  <1>9. CASE ReceiveFails
    BY <1>9 DEF ReceiveFails, InRecv, ReceiveReturns, EndsWait, OnError, EndAttempt,
       AnotherAttempt, Continue, Settle
  <1>10. CASE AnswerArrives
    <2>1. PICK s \in 1 .. sent, k \in Kind :
            arrived' = arrived \cup {[seq |-> s, kind |-> k]} /\ UNCHANGED <<sent, outcome>>
      BY <1>10 DEF AnswerArrives, engineVars
    <2>2. [seq |-> s, kind |-> k] \in Contract!Answer
      BY DEF Contract!Answer, Contract!Kind, Kind
    <2> QED
      BY <2>1, <2>2 DEF Contract!Arrive
  <1>11. CASE ForeignArrives
    BY <1>11 DEF ForeignArrives, Deliver, engineVars
  <1>12. CASE Tick
    BY <1>12 DEF Tick, Passes, Later
  <1>13. CASE UNCHANGED vars
    BY <1>13 DEF vars, engineVars
  <1> QED
    BY <1>1, <1>2, <1>3, <1>4, <1>5, <1>6, <1>7, <1>8, <1>9, <1>10, <1>11, <1>12,
       <1>13 DEF Next, ThreadStep

\* The attempt loop over a raw socket keeps the contract of a probe: it is
\* decided by an answer to its latest request that arrived, or by the system.
THEOREM Refinement == Spec => ImplementsContract
  <1>1. RInv /\ [Next]_vars => [Contract!ContractNext]_Contract!contractVars
    BY ContractStep
  <1> QED
    BY <1>1, ContractInitial, Inductive, PTL DEF Spec, ImplementsContract, Contract!ContractSpec
==============================================================================
