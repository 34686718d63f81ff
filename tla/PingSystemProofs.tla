---------------------------- MODULE PingSystemProofs ----------------------------
(***************************************************************************)
(* Theorems about PingSystem, for any calls, threads, identifiers,         *)
(* attempts and times, as long as the network forgets a packet before its  *)
(* identifier leaves the quarantine.                                       *)
(***************************************************************************)
EXTENDS PingContract, TLAPS

-------------------------------------------------------------------------------
(* The inductive invariant.                                                  *)

\* The steps at which a call holds a lease, and an open socket.
Holding ==
    {"payload", "create", "fallback", "setup", "send", "listen", "close", "drop"}

Open == {"setup", "send", "listen", "close"}

LeaseOK == \A c \in Call : lease[c] # NoId <=> stage[c] \in Holding

SocketOK == \A c \in Call : socket[c] # "none" <=> stage[c] \in Open

\* An identifier has one holder.
UniqueOK ==
    \A c, d \in Call : lease[c] # NoId /\ lease[c] = lease[d] => c = d

\* The queue holds the queued calls, each once.
QueueOK ==
    /\ \A i \in 1 .. Len(queue) : stage[queue[i]] = "queued"
    /\ \A i, j \in 1 .. Len(queue) : queue[i] = queue[j] => i = j

\* An attempt is left when a call is about to send.
SeqOK ==
    \A c \in Call :
        \/ seq[c] < Attempts
        \/ stage[c] \in {"listen", "close", "drop", "returned", "settled"}

\* The process creates raw sockets, or ping sockets: never both.
ModeOK ==
    \A c \in Call :
        /\ socket[c] = "raw" => privileged
        /\ socket[c] = "ping" \/ stage[c] = "fallback" => ~privileged

\* A ping socket has its identifier from the bind until it is closed, and alone.
Bound == {"send", "listen", "close"}

AssignedOK ==
    /\ \A c \in Call :
          assigned[c] # NoId <=> socket[c] = "ping" /\ stage[c] \in Bound
    /\ \A c, d \in Call : assigned[c] # NoId /\ assigned[c] = assigned[d] => c = d

\* A call whose socket is closed opens none again.
Over == {"drop", "returned", "settled"}

\* What is under way was sent not long ago; from a raw socket, by a call that still
\* holds the identifier, or did when the identifier was last given back.
Dated(f) ==
    /\ f.at <= now /\ now - f.at <= MaxDelay
    /\ privileged =>
          \/ lease[f.owner] = f.id
          \/ lastRelease[f.id] # Pool!Never /\ f.at <= lastRelease[f.id]

FlightOK == \A f \in flight : Dated(f)

\* A request under way with an identifier that is held is its holder's.
FlightOwn == privileged => \A f \in flight, c \in Call : lease[c] = f.id => f.owner = c

\* A request under way from a ping socket has the identifier of the socket, or the
\* socket is closed.
PingFlightOK ==
    ~privileged =>
        \A f \in flight : assigned[f.owner] = f.id \/ stage[f.owner] \in Over

\* A message with the identifier of a socket answers the socket's own call, or what a
\* ping socket sent that is closed.
Recognized(c, m) ==
    m.id = WireId(c) => m.owner = c \/ (~privileged /\ stage[m.owner] \in Over)

InboxOK ==
    \A c \in Call : \A m \in inbox[c] :
        /\ socket[c] # "none"
        /\ socket[c] = "ping" => m.id = assigned[c]
        /\ Recognized(c, m)

\* A call that an answer has decided sends no more.
Decided == {"close", "drop", "returned", "settled"}

\* The answer a call may take for its own.
Indistinct(c, m) ==
    ~privileged /\ m.kind = "error" /\ share[m.owner] = share[c] /\ stage[m.owner] \in Over

DeciderOK ==
    \A c \in Call :
        decider[c] # Nobody =>
            /\ decider[c] \in Message
            /\ decider[c].owner = c \/ Indistinct(c, decider[c])
            /\ decider[c].seq = seq[c]
            /\ stage[c] \in Decided

PInv ==
    /\ TypeOK
    /\ LeaseOK
    /\ SocketOK
    /\ UniqueOK
    /\ QueueOK
    /\ SeqOK
    /\ ModeOK
    /\ AssignedOK
    /\ FlightOK
    /\ FlightOwn
    /\ PingFlightOK
    /\ InboxOK
    /\ DeciderOK

-------------------------------------------------------------------------------

LEMMA InitPInv == Init => PInv
  <1> SUFFICES ASSUME Init PROVE PInv
    OBVIOUS
  <1> USE SystemAssumption DEF Init, Pool!PoolInit
  <1>1. TypeOK
    BY DEF TypeOK, Stage, ComputeStage, Result, Pool!Id, Pool!Never
  <1>2. LeaseOK /\ SocketOK /\ UniqueOK /\ QueueOK /\ SeqOK
    BY DEF LeaseOK, SocketOK, UniqueOK, QueueOK, SeqOK, Holding, Open
  <1>3. ModeOK /\ AssignedOK
    BY DEF ModeOK, AssignedOK
  <1>4. FlightOK /\ FlightOwn /\ PingFlightOK /\ InboxOK /\ DeciderOK
    BY DEF FlightOK, FlightOwn, PingFlightOK, InboxOK, DeciderOK
  <1> QED
    BY <1>1, <1>2, <1>3, <1>4 DEF PInv

\* What a call has accords with where it is.
StageOK == LeaseOK /\ SocketOK /\ SeqOK

-------------------------------------------------------------------------------

\* Receive, for a message m that is read.
ReceiveStep(c, m) ==
    /\ stage[c] = "listen"
    /\ inbox' = [inbox EXCEPT ![c] = @ \ {m}]
    /\ \/ /\ Answers(c, m)
          /\ \E r \in {"success", "negative"} : Conclude(c, r)
          /\ decider' = [decider EXCEPT ![c] = m]
          /\ Goto(c, "close")
       \/ UNCHANGED <<stage, result, decider>>
    /\ UNCHANGED <<poolVars, seq, flight, queue, privileged, taskVars>>

LEMMA ReceiveCases ==
    ASSUME NEW c \in Call, Receive(c)
    PROVE  \E m \in inbox[c] : ReceiveStep(c, m)
  BY DEF Receive, ReceiveStep

\* One step keeps the types.
LEMMA TypeStep == PInv /\ [Next]_vars => TypeOK'
  <1> SUFFICES ASSUME PInv, [Next]_vars PROVE TypeOK'
    OBVIOUS
  <1> USE SystemAssumption
      DEF PInv, TypeOK, SeqOK, poolVars, netVars, taskVars, Stage, ComputeStage, Result,
          Pool!Id, Pool!Never
  <1>1. ASSUME NEW c \in Call, Ping(c) PROVE TypeOK'
    BY <1>1 DEF Ping, Goto
  <1>2. ASSUME NEW c \in Call, PingThrows(c) PROVE TypeOK'
    BY <1>2 DEF PingThrows, Goto, Conclude
  <1>3. ASSUME NEW c \in Call, Resolve(c) PROVE TypeOK'
    BY <1>3 DEF Resolve, Goto
  <1>4. ASSUME NEW c \in Call, Parse(c) PROVE TypeOK'
    BY <1>4 DEF Parse, Goto, Conclude
  <1>5. ASSUME NEW c \in Call, Lease(c) PROVE TypeOK'
    BY <1>5 DEF Lease, Goto, Pool!Grant
  <1>6. ASSUME NEW c \in Call, Exhausted(c) PROVE TypeOK'
    BY <1>6 DEF Exhausted, Goto, Conclude
  <1>7. ASSUME NEW c \in Call, RandomFails(c) PROVE TypeOK'
    BY <1>7 DEF RandomFails, Goto, Conclude
  <1>8. ASSUME NEW c \in Call, Payload(c) PROVE TypeOK'
    BY <1>8 DEF Payload, Goto
  <1>9. ASSUME NEW c \in Call, Create(c) PROVE TypeOK'
    BY <1>9 DEF Create, Goto
  <1>10. ASSUME NEW c \in Call, CreateFails(c) PROVE TypeOK'
    BY <1>10 DEF CreateFails, Goto, Conclude
  <1>11. ASSUME NEW c \in Call, Setup(c) PROVE TypeOK'
    <2>1. assigned' \in [Call -> Pool!Id \cup {NoId}]
      BY <1>11 DEF Setup
    <2> QED
      BY <1>11, <2>1 DEF Setup, Goto
  <1>12. ASSUME NEW c \in Call, SetupFails(c) PROVE TypeOK'
    BY <1>12 DEF SetupFails, Goto, Conclude
  <1>13. ASSUME NEW c \in Call, Send(c) PROVE TypeOK'
    <2>1. WireId(c) \in Pool!Id
      BY <1>13 DEF Send, WireId, LeaseOK, Holding, AssignedOK, Bound
    <2>2. seq[c] + 1 \in 1 .. Attempts
      <3>1. seq[c] \in 0 .. Attempts /\ seq[c] < Attempts
        BY <1>13 DEF Send
      <3> QED
        BY <3>1
    <2>3. flight' \subseteq Request
      BY <1>13, <2>1, <2>2 DEF Send, Request
    <2> QED
      BY <1>13, <2>2, <2>3 DEF Send, Goto
  <1>14. ASSUME NEW c \in Call, TransportFails(c) PROVE TypeOK'
    BY <1>14 DEF TransportFails, Goto, Conclude
  <1>15. ASSUME NEW c \in Call, Receive(c) PROVE TypeOK'
    <2>1. PICK m \in inbox[c] : ReceiveStep(c, m)
      BY <1>15, ReceiveCases
    <2>2. m \in Message
      BY <2>1
    <2>3. decider' \in [Call -> Message \cup {Nobody}]
      BY <2>1, <2>2 DEF ReceiveStep
    <2>4. inbox' \in [Call -> SUBSET Message]
      BY <2>1 DEF ReceiveStep
    <2>5. stage' \in [Call -> Stage]
      BY <2>1 DEF ReceiveStep, Goto
    <2>6. result' \in [Call -> Result]
      BY <2>1 DEF ReceiveStep, Conclude
    <2> QED
      BY <2>1, <2>3, <2>4, <2>5, <2>6 DEF ReceiveStep
  <1>16. ASSUME NEW c \in Call, AttemptOver(c) PROVE TypeOK'
    BY <1>16 DEF AttemptOver, AttemptLeft, Goto, Conclude
  <1>17. ASSUME NEW c \in Call, Close(c) PROVE TypeOK'
    BY <1>17 DEF Close, Goto
  <1>18. ASSUME NEW c \in Call, Drop(c) PROVE TypeOK'
    BY <1>18 DEF Drop, Goto, Pool!Return
  <1>19. CASE Dispatch
    BY <1>19 DEF Dispatch, Goto
  <1>20. CASE Answer
    <2>1. PICK f \in flight, k \in {"echo", "error"} :
             inbox' = [d \in Call |-> IF Hears(d, MessageOf(f, k))
                                         THEN inbox[d] \cup {MessageOf(f, k)}
                                         ELSE inbox[d]]
      BY <1>20 DEF Answer, AnswerTo
    <2>2. MessageOf(f, k) \in Message
      BY DEF MessageOf, Request, Message
    <2>3. inbox' \in [Call -> SUBSET Message]
      BY <2>1, <2>2
    <2> QED
      BY <1>20, <2>3 DEF Answer, AnswerTo
  <1>21. CASE Tick
    BY <1>21 DEF Tick, Pool!Advance
  <1>22. CASE UNCHANGED vars
    BY <1>22 DEF vars
  <1> QED
    BY <1>1, <1>2, <1>3, <1>4, <1>5, <1>6, <1>7, <1>8, <1>9, <1>10, <1>11, <1>12,
       <1>13, <1>14, <1>15, <1>16, <1>17, <1>18, <1>19, <1>20, <1>21, <1>22
       DEF Next, Act, Compute, Fail

\* One step keeps what a call has in accord with where it is.
LEMMA StageStep == PInv /\ [Next]_vars => StageOK'
  <1> SUFFICES ASSUME PInv, [Next]_vars PROVE StageOK'
    OBVIOUS
  <1> USE SystemAssumption
      DEF PInv, TypeOK, StageOK, LeaseOK, SocketOK, SeqOK, Holding, Open,
          poolVars, netVars, taskVars, Pool!Id, Stage, ComputeStage
  <1>1. ASSUME NEW c \in Call, Ping(c) PROVE StageOK'
    BY <1>1 DEF Ping, Goto
  <1>2. ASSUME NEW c \in Call, PingThrows(c) PROVE StageOK'
    BY <1>2 DEF PingThrows, Goto, Conclude
  <1>3. ASSUME NEW c \in Call, Resolve(c) PROVE StageOK'
    BY <1>3 DEF Resolve, Goto
  <1>4. ASSUME NEW c \in Call, Parse(c) PROVE StageOK'
    <2>1. stage[c] = "parse" /\ \E s \in {"lease", "returned"} : Goto(c, s)
      BY <1>4 DEF Parse
    <2> QED
      BY <1>4, <2>1 DEF Parse, Goto
  <1>5. ASSUME NEW c \in Call, Lease(c) PROVE StageOK'
    BY <1>5 DEF Lease, Goto, Pool!Grant
  <1>6. ASSUME NEW c \in Call, Exhausted(c) PROVE StageOK'
    BY <1>6 DEF Exhausted, Goto, Conclude
  <1>7. ASSUME NEW c \in Call, RandomFails(c) PROVE StageOK'
    BY <1>7 DEF RandomFails, Goto, Conclude
  <1>8. ASSUME NEW c \in Call, Payload(c) PROVE StageOK'
    BY <1>8 DEF Payload, Goto
  <1>9. ASSUME NEW c \in Call, Create(c) PROVE StageOK'
    BY <1>9 DEF Create, Goto
  <1>10. ASSUME NEW c \in Call, CreateFails(c) PROVE StageOK'
    BY <1>10 DEF CreateFails, Goto, Conclude
  <1>11. ASSUME NEW c \in Call, Setup(c) PROVE StageOK'
    BY <1>11 DEF Setup, Goto
  <1>12. ASSUME NEW c \in Call, SetupFails(c) PROVE StageOK'
    BY <1>12 DEF SetupFails, Goto, Conclude
  <1>13. ASSUME NEW c \in Call, Send(c) PROVE StageOK'
    BY <1>13 DEF Send, Goto
  <1>14. ASSUME NEW c \in Call, TransportFails(c) PROVE StageOK'
    BY <1>14 DEF TransportFails, Goto, Conclude
  <1>15. ASSUME NEW c \in Call, Receive(c) PROVE StageOK'
    <2>1. PICK m \in inbox[c] : ReceiveStep(c, m)
      BY <1>15, ReceiveCases
    <2>2. stage[c] = "listen" /\ UNCHANGED <<lease, seq, privileged, socket>>
      BY <2>1 DEF ReceiveStep
    <2>3. CASE Goto(c, "close")
      BY <2>2, <2>3 DEF Goto
    <2>4. CASE UNCHANGED stage
      BY <2>2, <2>4
    <2> QED
      BY <2>1, <2>3, <2>4 DEF ReceiveStep
  <1>16. ASSUME NEW c \in Call, AttemptOver(c) PROVE StageOK'
    <2>1. stage[c] = "listen" /\ UNCHANGED <<lease, seq, privileged, socket>>
      BY <1>16 DEF AttemptOver
    <2>2. CASE seq[c] < Attempts /\ Goto(c, "send")
      BY <2>1, <2>2 DEF Goto
    <2>3. CASE Goto(c, "close")
      BY <2>1, <2>3 DEF Goto
    <2> QED
      BY <1>16, <2>2, <2>3 DEF AttemptOver, AttemptLeft
  <1>17. ASSUME NEW c \in Call, Close(c) PROVE StageOK'
    BY <1>17 DEF Close, Goto
  <1>18. ASSUME NEW c \in Call, Drop(c) PROVE StageOK'
    BY <1>18 DEF Drop, Goto, Pool!Return
  <1>19. CASE Dispatch
    <2>1. PICK c \in Call : stage[c] = "queued" /\ Goto(c, "parse")
      BY <1>19 DEF Dispatch, QueueOK
    <2> QED
      BY <1>19, <2>1 DEF Dispatch, Goto
  <1>20. CASE Answer
    BY <1>20 DEF Answer, AnswerTo
  <1>21. CASE Tick
    BY <1>21 DEF Tick, Pool!Advance
  <1>22. CASE UNCHANGED vars
    BY <1>22 DEF vars
  <1> QED
    BY <1>1, <1>2, <1>3, <1>4, <1>5, <1>6, <1>7, <1>8, <1>9, <1>10, <1>11, <1>12,
       <1>13, <1>14, <1>15, <1>16, <1>17, <1>18, <1>19, <1>20, <1>21, <1>22
       DEF Next, Act, Compute, Fail

\* An identifier is granted to nobody else while it is held.
LEMMA UniqueStep == PInv /\ [Next]_vars => UniqueOK'
  <1> SUFFICES ASSUME PInv, [Next]_vars PROVE UniqueOK'
    OBVIOUS
  <1> USE DEF PInv, TypeOK, UniqueOK
  <1>1. CASE UNCHANGED lease
    BY <1>1
  <1>2. ASSUME NEW c \in Call, Lease(c) PROVE UniqueOK'
    <2>1. PICK i \in Pool!Id : Pool!Available(i) /\ lease' = [lease EXCEPT ![c] = i]
      BY <1>2 DEF Lease, Pool!Grant
    <2>2. \A d \in Call : lease[d] # i
      BY <2>1 DEF Pool!Available, Pool!Held
    <2> QED
      BY <2>1, <2>2
  <1>3. ASSUME NEW c \in Call, Drop(c) PROVE UniqueOK'
    <2>1. lease' = [lease EXCEPT ![c] = NoId]
      BY <1>3 DEF Drop, Pool!Return
    <2> QED
      BY <2>1
  <1>4. ASSUME NEW c \in Call,
               \/ Ping(c) \/ PingThrows(c) \/ Resolve(c) \/ Parse(c) \/ Exhausted(c)
               \/ RandomFails(c) \/ Payload(c) \/ Create(c) \/ CreateFails(c) \/ Setup(c)
               \/ SetupFails(c) \/ Send(c) \/ TransportFails(c) \/ Receive(c) \/ AttemptOver(c)
               \/ Close(c)
        PROVE  UNCHANGED lease
    BY <1>4 DEF poolVars, netVars, Ping, PingThrows, Resolve, Parse, Exhausted,
       RandomFails, Payload, Create, CreateFails, Setup, SetupFails, Send,
       TransportFails, Receive, AttemptOver, Close
  <1>5. ASSUME Dispatch \/ Answer \/ Tick \/ (UNCHANGED vars)
        PROVE  UNCHANGED lease
    BY <1>5 DEF poolVars, netVars, Dispatch, Answer, AnswerTo, Tick, Pool!Advance, vars
  <1> QED
    BY <1>1, <1>2, <1>3, <1>4, <1>5 DEF Next, Act, Compute, Fail

\* Only Ping and Dispatch change who is queued.
LEMMA QueueStep == PInv /\ [Next]_vars => QueueOK'
  <1> SUFFICES ASSUME PInv, [Next]_vars PROVE QueueOK'
    OBVIOUS
  <1> USE DEF PInv, TypeOK, QueueOK
  <1>1. ASSUME UNCHANGED queue, NEW c \in Call, stage[c] # "queued",
               \A d \in Call \ {c} : stage'[d] = stage[d]
        PROVE  QueueOK'
    <2>1. \A i \in 1 .. Len(queue) : queue[i] \in Call \ {c}
      BY <1>1
    <2> QED
      BY <1>1, <2>1
  <1>2. ASSUME NEW c \in Call, Ping(c) PROVE QueueOK'
    <2>1. stage[c] = "new" /\ stage' = [stage EXCEPT ![c] = "queued"]
          /\ queue' = Append(queue, c)
      BY <1>2 DEF Ping, Goto
    <2>2. /\ Len(queue') = Len(queue) + 1
          /\ queue'[Len(queue) + 1] = c
          /\ \A i \in 1 .. Len(queue) : queue'[i] = queue[i] /\ queue[i] \in Call
      BY <2>1
    <2> QED
      BY <2>1, <2>2
  <1>3. CASE Dispatch
    <2>1. Len(queue) > 0 /\ Head(queue) = queue[1]
      BY <1>3 DEF Dispatch
    <2>2. stage' = [stage EXCEPT ![queue[1]] = "parse"]
      BY <1>3, <2>1 DEF Dispatch, Goto
    <2>3. /\ Len(queue') = Len(queue) - 1
          /\ \A i \in 1 .. Len(queue') : queue'[i] = queue[i + 1]
      BY <1>3, <2>1 DEF Dispatch
    <2>4. \A i \in 1 .. Len(queue') : i + 1 \in 1 .. Len(queue) /\ i + 1 # 1
      BY <2>3
    <2>5. \A i \in 1 .. Len(queue) : queue[i] \in Call
      OBVIOUS
    <2>6. \A i \in 1 .. Len(queue') : queue[i + 1] # queue[1]
      BY <2>1, <2>4
    <2>7. ASSUME NEW i \in 1 .. Len(queue') PROVE stage'[queue'[i]] = "queued"
      <3>1. queue'[i] = queue[i + 1] /\ i + 1 \in 1 .. Len(queue)
        BY <2>3, <2>4
      <3>2. queue[i + 1] \in Call /\ queue[i + 1] # queue[1]
        BY <2>5, <2>6, <3>1
      <3>3. stage[queue[i + 1]] = "queued"
        BY <3>1
      <3> QED
        BY <2>2, <3>1, <3>2, <3>3
    <2>8. ASSUME NEW i \in 1 .. Len(queue'), NEW j \in 1 .. Len(queue'),
                 queue'[i] = queue'[j]
          PROVE  i = j
      <3>1. queue[i + 1] = queue[j + 1]
        BY <2>3, <2>8
      <3>2. i + 1 \in 1 .. Len(queue) /\ j + 1 \in 1 .. Len(queue)
        BY <2>4
      <3>3. i + 1 = j + 1
        BY <3>1, <3>2
      <3> QED
        BY <2>3, <3>3
    <2> QED
      BY <2>7, <2>8
  <1>4. ASSUME NEW c \in Call,
               \/ PingThrows(c) \/ Resolve(c) \/ Parse(c) \/ Lease(c) \/ Exhausted(c)
               \/ RandomFails(c) \/ Payload(c) \/ Create(c)
        PROVE  /\ UNCHANGED queue /\ stage[c] # "queued"
               /\ \A d \in Call \ {c} : stage'[d] = stage[d]
    BY <1>4 DEF Goto, PingThrows, Resolve, Parse, Lease, Exhausted, RandomFails,
       Payload, Create
  <1>5. ASSUME NEW c \in Call,
               \/ CreateFails(c) \/ Setup(c) \/ SetupFails(c) \/ Send(c) \/ TransportFails(c)
               \/ AttemptOver(c) \/ Close(c) \/ Drop(c)
        PROVE  /\ UNCHANGED queue /\ stage[c] # "queued"
               /\ \A d \in Call \ {c} : stage'[d] = stage[d]
    BY <1>5 DEF Goto, CreateFails, Setup, SetupFails, Send, TransportFails,
       AttemptOver, Close, Drop
  <1>6. ASSUME NEW c \in Call,
               Receive(c)
        PROVE  /\ UNCHANGED queue /\ stage[c] # "queued"
               /\ \A d \in Call \ {c} : stage'[d] = stage[d]
    BY <1>6 DEF Goto, Receive
  <1>7. ASSUME Answer \/ Tick \/ (UNCHANGED vars)
        PROVE  QueueOK'
    BY <1>7 DEF Answer, AnswerTo, Tick, vars
  <1> QED
    BY <1>1, <1>2, <1>3, <1>4, <1>5, <1>6, <1>7 DEF Next, Act, Compute, Fail

\* The steps of a call c leave alone where the other calls are.
LEMMA Alone ==
    ASSUME TypeOK, NEW c \in Call, Act(c)
    PROVE  \A d \in Call \ {c} : stage'[d] = stage[d]
  <1> USE DEF TypeOK
  <1>1. CASE \/ Ping(c) \/ PingThrows(c) \/ Resolve(c) \/ Parse(c) \/ Lease(c)
             \/ Exhausted(c) \/ RandomFails(c) \/ Payload(c) \/ Create(c)
    BY <1>1 DEF Goto, Ping, PingThrows, Resolve, Parse, Lease, Exhausted, RandomFails,
       Payload, Create
  <1>2. CASE \/ CreateFails(c) \/ Setup(c) \/ SetupFails(c) \/ Send(c)
             \/ TransportFails(c) \/ AttemptOver(c) \/ Close(c) \/ Drop(c)
    BY <1>2 DEF Goto, CreateFails, Setup, SetupFails, Send, TransportFails,
       AttemptOver, Close, Drop
  <1>3. CASE Receive(c)
    BY <1>3 DEF Goto, Receive
  <1> QED
    BY <1>1, <1>2, <1>3 DEF Act, Compute, Fail

\* A call that is over stays so.
LEMMA OverStays ==
    ASSUME PInv, [Next]_vars
    PROVE  \A d \in Call : stage[d] \in Over => stage'[d] \in Over
  <1> USE DEF PInv, TypeOK, Over
  <1>1. ASSUME NEW c \in Call, Act(c) PROVE stage[c] \in Over => stage'[c] \in Over
    <2>1. CASE Resolve(c) \/ Drop(c)
      BY <2>1 DEF Resolve, Drop, Goto
    <2>2. CASE \/ Ping(c) \/ PingThrows(c) \/ Parse(c) \/ Lease(c)
               \/ Exhausted(c) \/ RandomFails(c) \/ Payload(c) \/ Create(c)
      BY <2>2 DEF Ping, PingThrows, Parse, Lease, Exhausted, RandomFails, Payload, Create
    <2>3. CASE \/ CreateFails(c) \/ Setup(c) \/ SetupFails(c) \/ Send(c)
               \/ TransportFails(c) \/ Receive(c) \/ AttemptOver(c) \/ Close(c)
      BY <2>3 DEF CreateFails, Setup, SetupFails, Send, TransportFails, Receive,
         AttemptOver, Close
    <2> QED
      BY <1>1, <2>1, <2>2, <2>3 DEF Act, Compute, Fail
  <1>2. CASE Dispatch
    <2>1. PICK c \in Call : stage[c] = "queued" /\ Goto(c, "parse")
      BY <1>2 DEF Dispatch, QueueOK
    <2> QED
      BY <2>1 DEF Goto
  <1>3. CASE Answer \/ Tick \/ UNCHANGED vars
    BY <1>3 DEF Answer, AnswerTo, Tick, vars
  <1> QED
    BY <1>1, <1>2, <1>3, Alone DEF Next

\* What a process may do stays, and a payload is drawn once.
LEMMA Steady ==
    ASSUME PInv, [Next]_vars
    PROVE  /\ UNCHANGED privileged
           /\ \A d \in Call : stage[d] # "payload" => share'[d] = share[d]
  <1> USE DEF PInv, TypeOK, taskVars
  <1>1. ASSUME NEW c \in Call, Act(c)
        PROVE  /\ UNCHANGED privileged
               /\ \A d \in Call : stage[d] # "payload" => share'[d] = share[d]
    <2>1. CASE Payload(c)
      BY <2>1 DEF Payload
    <2>2. CASE \/ Ping(c) \/ PingThrows(c) \/ Resolve(c) \/ Parse(c) \/ Lease(c)
               \/ Exhausted(c) \/ RandomFails(c) \/ Create(c)
      BY <2>2 DEF Ping, PingThrows, Resolve, Parse, Lease, Exhausted, RandomFails, Create
    <2>3. CASE \/ CreateFails(c) \/ Setup(c) \/ SetupFails(c) \/ Send(c)
               \/ TransportFails(c) \/ Receive(c) \/ AttemptOver(c) \/ Close(c) \/ Drop(c)
      BY <2>3 DEF CreateFails, Setup, SetupFails, Send, TransportFails, Receive,
         AttemptOver, Close, Drop
    <2> QED
      BY <1>1, <2>1, <2>2, <2>3 DEF Act, Compute, Fail
  <1>2. CASE Dispatch \/ Answer \/ Tick \/ UNCHANGED vars
    BY <1>2 DEF Dispatch, Answer, AnswerTo, Tick, vars
  <1> QED
    BY <1>1, <1>2 DEF Next

\* A raw socket is a privileged process's, a ping socket another's.
LEMMA ModeStep == PInv /\ [Next]_vars => ModeOK'
  <1> SUFFICES ASSUME PInv, [Next]_vars PROVE ModeOK'
    OBVIOUS
  <1> USE DEF PInv, TypeOK, ModeOK, taskVars
  <1>1. UNCHANGED privileged
    BY Steady
  <1>2. ASSUME NEW c \in Call, Act(c),
               /\ socket'[c] = "raw" => privileged
               /\ socket'[c] = "ping" \/ stage'[c] = "fallback" => ~privileged,
               \A d \in Call \ {c} : socket'[d] = socket[d]
        PROVE  ModeOK'
    BY <1>1, <1>2, Alone
  <1>3. ASSUME NEW c \in Call, Create(c) PROVE ModeOK'
    <2>1. /\ socket'[c] = "raw" => privileged
          /\ socket'[c] = "ping" \/ stage'[c] = "fallback" => ~privileged
          /\ \A d \in Call \ {c} : socket'[d] = socket[d]
      BY <1>3 DEF Create, Goto
    <2> QED
      BY <1>2, <1>3, <2>1 DEF Act, Compute
  <1>4. ASSUME NEW c \in Call, Close(c) \/ SetupFails(c) PROVE ModeOK'
    <2>1. /\ socket'[c] = "none" /\ stage'[c] # "fallback"
          /\ \A d \in Call \ {c} : socket'[d] = socket[d]
      BY <1>4 DEF Close, SetupFails, Goto
    <2> QED
      BY <1>2, <1>4, <2>1 DEF Act, Compute, Fail
  <1>5. ASSUME NEW c \in Call, Act(c), UNCHANGED socket, stage'[c] # "fallback" PROVE ModeOK'
    BY <1>2, <1>5
  <1>6. ASSUME NEW c \in Call,
               \/ Ping(c) \/ PingThrows(c) \/ Resolve(c) \/ Parse(c) \/ Lease(c)
               \/ Exhausted(c) \/ RandomFails(c) \/ Payload(c)
        PROVE  UNCHANGED socket /\ stage'[c] # "fallback"
    BY <1>6 DEF Goto, Ping, PingThrows, Resolve, Parse, Lease, Exhausted, RandomFails, Payload
  <1>7. ASSUME NEW c \in Call,
               \/ CreateFails(c) \/ Setup(c) \/ Send(c) \/ TransportFails(c)
               \/ Receive(c) \/ AttemptOver(c) \/ Drop(c)
        PROVE  UNCHANGED socket /\ stage'[c] # "fallback"
    BY <1>7 DEF Goto, CreateFails, Setup, Send, TransportFails, Receive, AttemptOver, Drop
  <1>8. CASE Dispatch
    <2>1. PICK c \in Call : stage[c] = "queued" /\ Goto(c, "parse")
      BY <1>8 DEF Dispatch, QueueOK
    <2> QED
      BY <1>1, <1>8, <2>1 DEF Dispatch, Goto
  <1>9. CASE Answer \/ Tick \/ UNCHANGED vars
    BY <1>9 DEF Answer, AnswerTo, Tick, vars
  <1> QED
    BY <1>3, <1>4, <1>5, <1>6, <1>7, <1>8, <1>9 DEF Next, Act, Compute, Fail

\* The kernel gives an identifier to one open socket, and takes it back as it closes.
LEMMA AssignedStep == PInv /\ [Next]_vars => AssignedOK'
  <1> SUFFICES ASSUME PInv, [Next]_vars PROVE AssignedOK'
    OBVIOUS
  <1> USE DEF PInv, TypeOK, AssignedOK, Bound, taskVars
  <1>1. ASSUME NEW c \in Call, Act(c), UNCHANGED <<socket, assigned>>,
               stage[c] \in Bound <=> stage'[c] \in Bound
        PROVE  AssignedOK'
    BY <1>1, Alone
  <1>2. ASSUME NEW c \in Call, Create(c) PROVE AssignedOK'
    <2>1. /\ stage[c] \notin Bound /\ stage'[c] \notin Bound /\ UNCHANGED assigned
          /\ \A d \in Call \ {c} : socket'[d] = socket[d] /\ stage'[d] = stage[d]
      BY <1>2 DEF Create, Goto
    <2> QED
      BY <2>1
  <1>3. ASSUME NEW c \in Call, Setup(c) PROVE AssignedOK'
    <2>1. /\ stage[c] = "setup" /\ stage'[c] = "send" /\ UNCHANGED socket
          /\ \A d \in Call \ {c} : stage'[d] = stage[d]
      BY <1>3 DEF Setup, Goto
    <2>2. CASE socket[c] = "ping"
      <3>1. PICK i \in Pool!Id : /\ \A d \in Call : assigned[d] # i
                                 /\ assigned' = [assigned EXCEPT ![c] = i]
        BY <1>3, <2>2 DEF Setup
      <3>2. i # NoId
        BY SystemAssumption DEF Pool!Id
      <3> QED
        BY <2>1, <2>2, <3>1, <3>2
    <2>3. CASE socket[c] # "ping"
      <3>1. UNCHANGED assigned
        BY <1>3, <2>3 DEF Setup
      <3> QED
        BY <2>1, <2>3, <3>1
    <2> QED
      BY <2>2, <2>3
  <1>4. ASSUME NEW c \in Call, SetupFails(c) PROVE AssignedOK'
    <2>1. /\ stage[c] = "setup" /\ stage'[c] = "drop" /\ UNCHANGED assigned
          /\ socket'[c] = "none"
          /\ \A d \in Call \ {c} : socket'[d] = socket[d] /\ stage'[d] = stage[d]
      BY <1>4 DEF SetupFails, Goto
    <2> QED
      BY <2>1
  <1>5. ASSUME NEW c \in Call, Close(c) PROVE AssignedOK'
    <2>1. /\ socket'[c] = "none" /\ assigned' = [assigned EXCEPT ![c] = NoId]
          /\ \A d \in Call \ {c} : socket'[d] = socket[d] /\ stage'[d] = stage[d]
      BY <1>5 DEF Close, Goto
    <2> QED
      BY <2>1
  <1>6. ASSUME NEW c \in Call,
               \/ Ping(c) \/ PingThrows(c) \/ Resolve(c) \/ Parse(c) \/ Lease(c)
               \/ Exhausted(c) \/ RandomFails(c) \/ Payload(c)
        PROVE  /\ UNCHANGED <<socket, assigned>>
               /\ stage[c] \in Bound <=> stage'[c] \in Bound
    BY <1>6 DEF Goto, Ping, PingThrows, Resolve, Parse, Lease, Exhausted, RandomFails, Payload
  <1>7. ASSUME NEW c \in Call,
               \/ CreateFails(c) \/ Send(c) \/ TransportFails(c)
               \/ Receive(c) \/ AttemptOver(c) \/ Drop(c)
        PROVE  /\ UNCHANGED <<socket, assigned>>
               /\ stage[c] \in Bound <=> stage'[c] \in Bound
    BY <1>7 DEF Goto, CreateFails, Send, TransportFails, Receive, AttemptOver, Drop
  <1>8. CASE Dispatch
    <2>1. PICK c \in Call : stage[c] = "queued" /\ Goto(c, "parse")
      BY <1>8 DEF Dispatch, QueueOK
    <2> QED
      BY <1>8, <2>1 DEF Dispatch, Goto
  <1>9. CASE Answer \/ Tick \/ UNCHANGED vars
    BY <1>9 DEF Answer, AnswerTo, Tick, vars
  <1> QED
    BY <1>1, <1>2, <1>3, <1>4, <1>5, <1>6, <1>7, <1>8, <1>9 DEF Next, Act, Compute, Fail

\* A ping socket keeps its identifier as long as it is open.
LEMMA PingFlightStep == PInv /\ [Next]_vars => PingFlightOK'
  <1> SUFFICES ASSUME PInv, [Next]_vars, ~privileged PROVE PingFlightOK'
    BY Steady DEF PingFlightOK
  <1> USE DEF PInv, TypeOK, taskVars
  <1>1. ASSUME NEW f \in flight
        PROVE  /\ f.owner \in Call /\ f.id \in Pool!Id /\ f.id # NoId
               /\ assigned[f.owner] = f.id \/ stage[f.owner] \in Over
    BY SystemAssumption DEF PingFlightOK, Request, Pool!Id
  <1>2. ASSUME flight' \subseteq flight, UNCHANGED assigned PROVE PingFlightOK'
    BY <1>1, <1>2, OverStays DEF PingFlightOK
  <1>3. ASSUME NEW c \in Call, Setup(c) PROVE PingFlightOK'
    <2>1. /\ UNCHANGED flight /\ assigned[c] = NoId
          /\ \A d \in Call \ {c} : assigned'[d] = assigned[d]
      BY <1>3 DEF Setup, AssignedOK, Bound, netVars
    <2>2. stage[c] \notin Over
      BY <1>3 DEF Setup, Over
    <2> QED
      BY <1>1, <2>1, <2>2, OverStays DEF PingFlightOK
  <1>4. ASSUME NEW c \in Call, Close(c) PROVE PingFlightOK'
    <2>1. /\ UNCHANGED flight /\ stage'[c] \in Over
          /\ \A d \in Call \ {c} : assigned'[d] = assigned[d]
      BY <1>4 DEF Close, Goto, Over
    <2> QED
      BY <1>1, <2>1, OverStays DEF PingFlightOK
  <1>5. ASSUME NEW c \in Call, Send(c) PROVE PingFlightOK'
    <2> DEFINE r == [owner |-> c, id |-> WireId(c), seq |-> seq[c] + 1, at |-> now]
    <2>1. flight' = flight \cup {r} /\ UNCHANGED assigned
      BY <1>5 DEF Send
    <2>2. WireId(c) = assigned[c]
      BY <1>5 DEF Send, WireId, ModeOK, SocketOK, Open
    <2>3. r.owner = c /\ r.id = assigned[c]
      BY <2>2
    <2> HIDE DEF r
    <2> QED
      BY <1>1, <2>1, <2>3, OverStays DEF PingFlightOK
  <1>6. ASSUME NEW c \in Call,
               \/ Ping(c) \/ PingThrows(c) \/ Resolve(c) \/ Parse(c) \/ Lease(c)
               \/ Exhausted(c) \/ RandomFails(c) \/ Payload(c) \/ Create(c)
        PROVE  flight' \subseteq flight /\ UNCHANGED assigned
    BY <1>6 DEF netVars, Ping, PingThrows, Resolve, Parse, Lease, Exhausted, RandomFails,
       Payload, Create
  <1>7. ASSUME NEW c \in Call,
               \/ CreateFails(c) \/ SetupFails(c) \/ TransportFails(c) \/ Receive(c)
               \/ AttemptOver(c) \/ Drop(c)
        PROVE  flight' \subseteq flight /\ UNCHANGED assigned
    BY <1>7 DEF netVars, CreateFails, SetupFails, TransportFails, Receive, AttemptOver, Drop
  <1>8. ASSUME Dispatch \/ Answer \/ Tick \/ UNCHANGED vars
        PROVE  flight' \subseteq flight /\ UNCHANGED assigned
    BY <1>8 DEF netVars, Dispatch, Answer, AnswerTo, Tick, vars
  <1> QED
    BY <1>2, <1>3, <1>4, <1>5, <1>6, <1>7, <1>8 DEF Next, Act, Compute, Fail

\* The network forgets a request before its identifier is granted to another call:
\* the quarantine at work.
LEMMA FlightStep == PInv /\ [Next]_vars => FlightOK' /\ FlightOwn'
  <1> SUFFICES ASSUME PInv, [Next]_vars PROVE FlightOK' /\ FlightOwn'
    OBVIOUS
  <1> USE DEF PInv, TypeOK
  <1>p. UNCHANGED privileged
    BY Steady
  <1>1. CASE UNCHANGED <<now, lease, lastRelease, flight>>
    BY <1>1, <1>p DEF FlightOK, FlightOwn, Dated
  <1>2. ASSUME NEW c \in Call, Lease(c) PROVE FlightOK' /\ FlightOwn'
    <2>1. PICK i \in Pool!Id : Pool!Available(i) /\ lease' = [lease EXCEPT ![c] = i]
      BY <1>2 DEF Lease, Pool!Grant
    <2>2. lease[c] = NoId /\ UNCHANGED <<now, lastRelease, flight>>
      BY <1>2 DEF Lease, Pool!Grant, netVars
    <2>3. ASSUME NEW f \in flight, privileged PROVE f.id # i
      <3> SUFFICES ASSUME f.id = i PROVE FALSE
        OBVIOUS
      <3>1. f.owner \in Call /\ f.at \in Nat /\ f \in Request
        BY DEF Request
      <3>2. lease[f.owner] # i
        BY <2>1, <3>1 DEF Pool!Available, Pool!Held
      <3>3. lastRelease[i] # Pool!Never /\ f.at <= lastRelease[i]
        BY <2>3, <3>2 DEF FlightOK, Dated
      <3>4. now - lastRelease[i] >= Quarantine
        BY <2>1, <3>3, SystemAssumption DEF Pool!Available, Pool!Withheld, Pool!Never
      <3>5. now - f.at <= MaxDelay
        BY DEF FlightOK, Dated
      <3> QED
        BY <3>1, <3>3, <3>4, <3>5, SystemAssumption DEF Pool!Never
    <2>4. ASSUME NEW f \in flight PROVE Dated(f)'
      <3>1. f.owner \in Call /\ f.id # NoId
        BY SystemAssumption DEF Request, Pool!Id
      <3>2. lease[f.owner] = f.id => lease'[f.owner] = f.id
        BY <2>1, <2>2, <3>1
      <3> QED
        BY <1>p, <2>2, <3>2 DEF FlightOK, Dated
    <2>5. FlightOK'
      BY <2>2, <2>4 DEF FlightOK
    <2>6. FlightOwn'
      BY <1>p, <2>1, <2>2, <2>3 DEF FlightOwn
    <2> QED
      BY <2>5, <2>6
  <1>3. ASSUME NEW c \in Call, Drop(c) PROVE FlightOK' /\ FlightOwn'
    <2>1. /\ lease[c] # NoId /\ lease[c] \in Pool!Id
          /\ lease' = [lease EXCEPT ![c] = NoId]
          /\ lastRelease' = [lastRelease EXCEPT ![lease[c]] = now]
          /\ UNCHANGED <<now, flight>>
      BY <1>3 DEF Drop, Pool!Return, netVars
    <2>2. ASSUME NEW f \in flight PROVE f.owner \in Call /\ f.id # NoId
      BY SystemAssumption DEF Request, Pool!Id
    <2>3. ASSUME NEW f \in flight PROVE Dated(f)'
      <3>1. f.at <= now /\ now - f.at <= MaxDelay /\ f.id \in Pool!Id
        BY DEF FlightOK, Dated, Request
      <3>2. CASE f.id = lease[c]
        <4>1. lastRelease'[f.id] = now
          BY <2>1, <3>2
        <4>2. now # Pool!Never
          BY DEF Pool!Never
        <4> QED
          BY <1>p, <2>1, <3>1, <4>1, <4>2 DEF Dated
      <3>3. CASE f.id # lease[c]
        <4>1. lastRelease'[f.id] = lastRelease[f.id]
          BY <2>1, <3>1, <3>3
        <4>2. lease[f.owner] = f.id => lease'[f.owner] = f.id
          BY <2>1, <2>2, <3>3
        <4>3. privileged =>
                \/ lease[f.owner] = f.id
                \/ lastRelease[f.id] # Pool!Never /\ f.at <= lastRelease[f.id]
          BY DEF FlightOK, Dated
        <4> QED
          BY <1>p, <2>1, <3>1, <4>1, <4>2, <4>3 DEF Dated
      <3> QED
        BY <3>2, <3>3
    <2>4. FlightOK'
      BY <2>1, <2>3 DEF FlightOK
    <2>5. FlightOwn'
      BY <1>p, <2>1, <2>2 DEF FlightOwn
    <2> QED
      BY <2>4, <2>5
  <1>4. ASSUME NEW c \in Call, Send(c) PROVE FlightOK' /\ FlightOwn'
    <2> DEFINE r == [owner |-> c, id |-> WireId(c), seq |-> seq[c] + 1, at |-> now]
    <2>1. flight' = flight \cup {r} /\ UNCHANGED <<now, lease, lastRelease>>
      BY <1>4 DEF Send, poolVars
    <2>2. MaxDelay \in Nat
      BY SystemAssumption
    <2>3. privileged => WireId(c) = lease[c] /\ lease[c] # NoId
      BY <1>4 DEF Send, WireId, ModeOK, LeaseOK, Holding
    <2>4. ASSUME NEW f, f = r PROVE Dated(f)'
      <3>1. f.at = now /\ f.id = WireId(c) /\ f.owner = c
        BY <2>4
      <3> HIDE DEF r
      <3> QED
        BY <1>p, <2>1, <2>2, <2>3, <3>1 DEF Dated
    <2>5. \A f \in flight : Dated(f)'
      BY <1>p, <2>1 DEF FlightOK, Dated
    <2>6. FlightOK'
      BY <2>1, <2>4, <2>5 DEF FlightOK
    <2>7. ASSUME NEW d \in Call, privileged, lease[d] = WireId(c) PROVE d = c
      BY <2>3, <2>7 DEF UniqueOK
    <2>8. FlightOwn'
      BY <1>p, <2>1, <2>7 DEF FlightOwn
    <2> QED
      BY <2>6, <2>8
  <1>5. CASE Tick
    <2>1. now' = now + 1 /\ flight' = {f \in flight : now' - f.at <= MaxDelay}
          /\ UNCHANGED <<lease, lastRelease>>
      BY <1>5 DEF Tick, Pool!Advance
    <2>2. ASSUME NEW f \in flight' PROVE Dated(f)'
      <3>1. f \in flight /\ f.at \in Int /\ now' - f.at <= MaxDelay
        BY <2>1 DEF Request
      <3>2. Dated(f)
        BY <3>1 DEF FlightOK
      <3> QED
        BY <1>p, <2>1, <3>1, <3>2 DEF Dated
    <2>3. FlightOK'
      BY <2>2 DEF FlightOK
    <2>4. FlightOwn'
      BY <1>p, <2>1 DEF FlightOwn
    <2> QED
      BY <2>3, <2>4
  <1>6. ASSUME NEW c \in Call,
               \/ Ping(c) \/ PingThrows(c) \/ Resolve(c) \/ Parse(c) \/ Exhausted(c)
               \/ RandomFails(c) \/ Payload(c) \/ Create(c) \/ CreateFails(c) \/ Setup(c)
               \/ SetupFails(c) \/ TransportFails(c) \/ Receive(c) \/ AttemptOver(c) \/ Close(c)
        PROVE  UNCHANGED <<now, lease, lastRelease, flight>>
    BY <1>6 DEF poolVars, netVars, Ping, PingThrows, Resolve, Parse, Exhausted,
       RandomFails, Payload, Create, CreateFails, Setup, SetupFails,
       TransportFails, Receive, AttemptOver, Close
  <1>7. ASSUME Dispatch \/ Answer \/ (UNCHANGED vars)
        PROVE  UNCHANGED <<now, lease, lastRelease, flight>>
    BY <1>7 DEF poolVars, netVars, Dispatch, Answer, AnswerTo, vars
  <1> QED
    BY <1>1, <1>2, <1>3, <1>4, <1>5, <1>6, <1>7 DEF Next, Act, Compute, Fail

\* A socket hears a message with its own identifier only when it answers its call,
\* or a ping socket that is closed.
LEMMA InboxStep == PInv /\ [Next]_vars => InboxOK'
  <1> SUFFICES ASSUME PInv, [Next]_vars PROVE InboxOK'
    OBVIOUS
  <1> USE DEF PInv, TypeOK, taskVars
  <1> DEFINE Fine(c, m) ==
          /\ socket[c] # "none"
          /\ socket[c] = "ping" => m.id = assigned[c]
          /\ Recognized(c, m)
  <1>p. /\ UNCHANGED privileged
        /\ \A d \in Call : stage[d] \in Over => stage'[d] \in Over
    BY Steady, OverStays
  <1>m. ASSUME NEW c \in Call, NEW m \in inbox[c]
        PROVE  m.owner \in Call /\ m.id \in Pool!Id /\ m.id # NoId /\ Fine(c, m)
    BY SystemAssumption DEF InboxOK, Message, Pool!Id
  <1>f. ASSUME NEW c \in Call, NEW m \in inbox[c],
               lease'[c] = lease[c], socket'[c] = socket[c], assigned'[c] = assigned[c]
        PROVE  Fine(c, m)'
    BY <1>f, <1>m, <1>p DEF Recognized, WireId
  <1>1. ASSUME UNCHANGED <<lease, socket, assigned, inbox>> PROVE InboxOK'
    BY <1>1, <1>f DEF InboxOK
  <1>o. ASSUME NEW c \in Call, inbox'[c] = {},
               \A d \in Call \ {c} : /\ lease'[d] = lease[d] /\ socket'[d] = socket[d]
                                     /\ assigned'[d] = assigned[d] /\ inbox'[d] = inbox[d]
        PROVE  InboxOK'
    BY <1>o, <1>f DEF InboxOK
  <1>2. ASSUME NEW c \in Call, Lease(c) PROVE InboxOK'
    <2>1. inbox[c] = {} /\ UNCHANGED <<socket, assigned, inbox>>
      BY <1>2 DEF Lease, InboxOK, SocketOK, Open, netVars
    <2>2. \A d \in Call \ {c} : lease'[d] = lease[d]
      BY <1>2 DEF Lease, Pool!Grant
    <2> QED
      BY <1>o, <2>1, <2>2
  <1>3. ASSUME NEW c \in Call, Drop(c) PROVE InboxOK'
    <2>1. inbox[c] = {} /\ UNCHANGED <<socket, assigned, inbox>>
      BY <1>3 DEF Drop, InboxOK, SocketOK, Open, netVars
    <2>2. \A d \in Call \ {c} : lease'[d] = lease[d]
      BY <1>3 DEF Drop, Pool!Return
    <2> QED
      BY <1>o, <2>1, <2>2
  <1>4. ASSUME NEW c \in Call, Create(c) PROVE InboxOK'
    <2>1. inbox[c] = {} /\ UNCHANGED <<lease, assigned, inbox>>
      BY <1>4 DEF Create, InboxOK, SocketOK, Open, netVars, poolVars
    <2>2. \A d \in Call \ {c} : socket'[d] = socket[d]
      BY <1>4 DEF Create
    <2> QED
      BY <1>o, <2>1, <2>2
  <1>5. ASSUME NEW c \in Call, Setup(c) PROVE InboxOK'
    <2>1. UNCHANGED <<lease, socket, inbox>> /\ assigned[c] = NoId
      BY <1>5 DEF Setup, AssignedOK, Bound, netVars, poolVars
    <2>2. CASE socket[c] = "ping"
      <3>1. inbox[c] = {}
        BY <1>m, <2>1, <2>2
      <3>2. \A d \in Call \ {c} : assigned'[d] = assigned[d]
        BY <1>5 DEF Setup
      <3> QED
        BY <1>o, <2>1, <3>1, <3>2
    <2>3. CASE socket[c] # "ping"
      <3>1. UNCHANGED assigned
        BY <1>5, <2>3 DEF Setup
      <3> QED
        BY <1>1, <2>1, <3>1
    <2> QED
      BY <2>2, <2>3
  <1>6. ASSUME NEW c \in Call, SetupFails(c) \/ Close(c) PROVE InboxOK'
    <2>1. inbox'[c] = {} /\ UNCHANGED lease
      BY <1>6 DEF SetupFails, Close, poolVars
    <2>2. \A d \in Call \ {c} :
             socket'[d] = socket[d] /\ assigned'[d] = assigned[d] /\ inbox'[d] = inbox[d]
      BY <1>6 DEF SetupFails, Close
    <2> QED
      BY <1>o, <2>1, <2>2
  <1>7. ASSUME NEW c \in Call, Receive(c) PROVE InboxOK'
    <2>1. PICK m \in inbox[c] : ReceiveStep(c, m)
      BY <1>7, ReceiveCases
    <2>2. /\ inbox' = [inbox EXCEPT ![c] = inbox[c] \ {m}]
          /\ UNCHANGED <<lease, socket, assigned>>
      BY <2>1 DEF ReceiveStep, poolVars
    <2>3. \A d \in Call : inbox'[d] \subseteq inbox[d]
      BY <2>2
    <2> QED
      BY <1>f, <2>2, <2>3 DEF InboxOK
  <1>8. CASE Answer
    <2>1. PICK f \in flight, k \in {"echo", "error"} :
             inbox' = [d \in Call |-> IF Hears(d, MessageOf(f, k))
                                         THEN inbox[d] \cup {MessageOf(f, k)}
                                         ELSE inbox[d]]
      BY <1>8 DEF Answer, AnswerTo
    <2>2. UNCHANGED <<lease, socket, assigned, stage>>
      BY <1>8 DEF Answer, AnswerTo, poolVars
    <2>3. f.owner \in Call /\ f.id \in Pool!Id /\ f.id # NoId
      BY SystemAssumption DEF Request, Pool!Id
    <2>4. ASSUME NEW d \in Call, Hears(d, MessageOf(f, k)) PROVE Fine(d, MessageOf(f, k))
      <3>1. CASE socket[d] = "ping"
        <4>1. ~privileged /\ f.id = assigned[d] /\ WireId(d) = assigned[d]
          BY <2>4, <3>1 DEF Hears, MessageOf, ModeOK, WireId
        <4>2. assigned[f.owner] = f.id \/ stage[f.owner] \in Over
          BY <4>1 DEF PingFlightOK
        <4>3. assigned[f.owner] = f.id => f.owner = d
          BY <2>3, <4>1 DEF AssignedOK
        <4> QED
          BY <3>1, <4>1, <4>2, <4>3 DEF MessageOf, Recognized
      <3>2. CASE socket[d] = "raw"
        <4>1. privileged /\ WireId(d) = lease[d]
          BY <3>2 DEF ModeOK, WireId
        <4>2. lease[d] = f.id => f.owner = d
          BY <4>1 DEF FlightOwn
        <4> QED
          BY <3>2, <4>1, <4>2 DEF MessageOf, Recognized
      <3> QED
        BY <2>4, <3>1, <3>2 DEF Hears
    <2>5. ASSUME NEW d \in Call, NEW m \in inbox'[d] PROVE Fine(d, m)
      BY <1>m, <2>1, <2>4, <2>5
    <2> QED
      BY <1>p, <2>2, <2>5 DEF InboxOK, Recognized, WireId
  <1>9. ASSUME NEW c \in Call,
               \/ Ping(c) \/ PingThrows(c) \/ Resolve(c) \/ Parse(c) \/ Exhausted(c)
               \/ RandomFails(c) \/ Payload(c) \/ CreateFails(c) \/ Send(c)
               \/ TransportFails(c) \/ AttemptOver(c)
        PROVE  UNCHANGED <<lease, socket, assigned, inbox>>
    BY <1>9 DEF poolVars, netVars, Ping, PingThrows, Resolve, Parse, Exhausted,
       RandomFails, Payload, CreateFails, Send, TransportFails,
       AttemptOver
  <1>10. ASSUME Dispatch \/ Tick \/ (UNCHANGED vars)
        PROVE  UNCHANGED <<lease, socket, assigned, inbox>>
    BY <1>10 DEF poolVars, netVars, Dispatch, Tick, Pool!Advance, vars
  <1> QED
    BY <1>1, <1>2, <1>3, <1>4, <1>5, <1>6, <1>7, <1>8, <1>9, <1>10
       DEF Next, Act, Compute, Fail

\* The message that decides a call is the call's own, or one that a ping socket cannot
\* tell from its own, and the call sends no more.
LEMMA DeciderStep == PInv /\ [Next]_vars => DeciderOK'
  <1> SUFFICES ASSUME PInv, [Next]_vars PROVE DeciderOK'
    OBVIOUS
  <1> USE DEF PInv, TypeOK
  <1>p. /\ UNCHANGED privileged
        /\ \A d \in Call : stage[d] \in Over => stage'[d] \in Over
        /\ \A d \in Call : stage[d] # "payload" => share'[d] = share[d]
    BY Steady, OverStays
  <1>i. ASSUME NEW d \in Call, NEW m \in Message, stage[d] # "payload", Indistinct(d, m)
        PROVE  Indistinct(d, m)'
    <2>1. m.owner \in Call /\ stage[m.owner] \in Over
      BY <1>i DEF Indistinct, Message
    <2>2. share'[m.owner] = share[m.owner] /\ share'[d] = share[d]
      BY <1>i, <1>p, <2>1 DEF Over
    <2> QED
      BY <1>i, <1>p, <2>1, <2>2 DEF Indistinct
  <1>d. ASSUME NEW d \in Call, decider[d] # Nobody, decider'[d] = decider[d],
               seq'[d] = seq[d], stage'[d] \in Decided
        PROVE  /\ decider'[d] \in Message
               /\ decider'[d].owner = d \/ Indistinct(d, decider[d])'
               /\ decider'[d].seq = seq'[d] /\ stage'[d] \in Decided
    <2>1. /\ decider[d] \in Message /\ decider[d].seq = seq[d] /\ stage[d] \in Decided
          /\ decider[d].owner = d \/ Indistinct(d, decider[d])
      BY <1>d DEF DeciderOK
    <2>2. PICK m \in Message : m = decider[d]
      BY <2>1
    <2>3. Indistinct(d, m) => Indistinct(d, m)'
      BY <1>i, <2>1 DEF Decided
    <2>4. decider'[d] = m
      BY <1>d, <2>2
    <2>5. m.owner = d \/ Indistinct(d, m)'
      BY <2>1, <2>2, <2>3
    <2>6. m.owner = d \/ Indistinct(d, decider[d])'
      BY <2>4, <2>5 DEF Indistinct
    <2> QED
      BY <1>d, <2>1, <2>2, <2>4, <2>6
  <1>1. ASSUME UNCHANGED <<decider, seq>>, NEW c \in Call,
               decider[c] # Nobody => stage'[c] \in Decided,
               \A d \in Call \ {c} : stage'[d] = stage[d]
        PROVE  DeciderOK'
    <2>1. ASSUME NEW d \in Call, decider[d] # Nobody PROVE stage'[d] \in Decided
      BY <1>1, <2>1 DEF DeciderOK
    <2> QED
      BY <1>1, <1>d, <2>1 DEF DeciderOK
  <1>2. ASSUME NEW c \in Call, Receive(c) PROVE DeciderOK'
    <2>1. PICK m \in inbox[c] : ReceiveStep(c, m)
      BY <1>2, ReceiveCases
    <2>2. UNCHANGED seq /\ stage[c] = "listen"
      BY <2>1 DEF ReceiveStep
    <2>3. CASE UNCHANGED <<stage, result, decider>>
      <3>1. \A d \in Call : decider[d] # Nobody => stage'[d] \in Decided
        BY <2>3 DEF DeciderOK
      <3> QED
        BY <1>d, <2>2, <2>3, <3>1 DEF DeciderOK
    <2>4. CASE Answers(c, m) /\ decider' = [decider EXCEPT ![c] = m] /\ Goto(c, "close")
      <3>1. /\ m \in Message /\ m.seq = seq[c] /\ m.id = WireId(c)
            /\ m.kind \in {"echo", "error"}
            /\ m.owner = c \/ (~privileged /\ stage[m.owner] \in Over)
        BY <2>4 DEF Answers, InboxOK, Recognized, Message
      <3>2. m.owner = c \/ Indistinct(c, m)
        BY <2>4, <3>1 DEF Answers, Indistinct
      <3>3. m.owner = c \/ Indistinct(c, m)'
        BY <1>i, <2>2, <3>1, <3>2
      <3>4. decider'[c] = m /\ stage'[c] \in Decided
        BY <2>4 DEF Goto, Decided
      <3>5. \A d \in Call \ {c} : decider'[d] = decider[d] /\ stage'[d] = stage[d]
        BY <2>4 DEF Goto
      <3>6. /\ decider'[c] \in Message
            /\ decider'[c].owner = c \/ Indistinct(c, decider[c])'
            /\ decider'[c].seq = seq'[c] /\ stage'[c] \in Decided
        BY <2>2, <3>1, <3>3, <3>4 DEF Indistinct
      <3>7. \A d \in Call \ {c} : decider[d] # Nobody => stage'[d] \in Decided
        BY <3>5 DEF DeciderOK
      <3> QED
        BY <1>d, <2>2, <3>5, <3>6, <3>7 DEF DeciderOK
    <2> QED
      BY <2>1, <2>3, <2>4 DEF ReceiveStep
  <1>3. ASSUME NEW c \in Call, Send(c) PROVE DeciderOK'
    <2>1. UNCHANGED decider /\ decider[c] = Nobody
      BY <1>3 DEF Send, DeciderOK, Decided
    <2>2. \A d \in Call \ {c} : seq'[d] = seq[d] /\ stage'[d] = stage[d]
      BY <1>3 DEF Send, Goto
    <2>3. \A d \in Call \ {c} : decider[d] # Nobody => stage'[d] \in Decided
      BY <2>2 DEF DeciderOK
    <2> QED
      BY <1>d, <2>1, <2>2, <2>3 DEF DeciderOK
  <1>4. ASSUME NEW c \in Call,
               \/ Ping(c) \/ PingThrows(c) \/ Parse(c) \/ Lease(c) \/ Exhausted(c)
               \/ RandomFails(c) \/ Payload(c) \/ Create(c) \/ CreateFails(c)
        PROVE  /\ UNCHANGED <<decider, seq>>
               /\ decider[c] # Nobody => stage'[c] \in Decided
               /\ \A d \in Call \ {c} : stage'[d] = stage[d]
    <2>1. stage[c] \notin Decided /\ UNCHANGED <<decider, seq>>
      BY <1>4 DEF Decided, netVars, Ping, PingThrows, Parse, Lease, Exhausted,
         RandomFails, Payload, Create, CreateFails
    <2>2. decider[c] = Nobody
      BY <2>1 DEF DeciderOK, Decided
    <2>3. \A d \in Call \ {c} : stage'[d] = stage[d]
      BY <1>4 DEF Goto, Ping, PingThrows, Parse, Lease, Exhausted, RandomFails,
         Payload, Create, CreateFails
    <2> QED
      BY <2>1, <2>2, <2>3
  <1>5. ASSUME NEW c \in Call,
               \/ Setup(c) \/ SetupFails(c) \/ TransportFails(c) \/ AttemptOver(c) \/ Resolve(c)
               \/ Close(c) \/ Drop(c)
        PROVE  /\ UNCHANGED <<decider, seq>>
               /\ decider[c] # Nobody => stage'[c] \in Decided
               /\ \A d \in Call \ {c} : stage'[d] = stage[d]
    BY <1>5 DEF DeciderOK, Decided, Goto, netVars, Setup, SetupFails,
       TransportFails, AttemptOver, Resolve, Close, Drop
  <1>6. CASE Dispatch
    <2>1. PICK c \in Call : stage[c] = "queued" /\ Goto(c, "parse")
      BY <1>6 DEF Dispatch, QueueOK
    <2>2. decider[c] = Nobody
      BY <2>1 DEF DeciderOK, Decided
    <2>3. \A d \in Call \ {c} : stage'[d] = stage[d]
      BY <2>1 DEF Goto
    <2> QED
      BY <1>1, <1>6, <2>2, <2>3 DEF Dispatch, netVars
  <1>7. ASSUME Answer \/ Tick \/ (UNCHANGED vars)
        PROVE  DeciderOK'
    <2>1. UNCHANGED <<decider, seq, stage>>
      BY <1>7 DEF Answer, AnswerTo, Tick, vars, netVars
    <2>2. \A d \in Call : decider[d] # Nobody => stage'[d] \in Decided
      BY <2>1 DEF DeciderOK
    <2> QED
      BY <1>d, <2>1, <2>2 DEF DeciderOK
  <1> QED
    BY <1>1, <1>2, <1>3, <1>4, <1>5, <1>6, <1>7 DEF Next, Act, Compute, Fail

-------------------------------------------------------------------------------
(* The theorems.                                                             *)

LEMMA StepPInv == PInv /\ [Next]_vars => PInv'
  BY TypeStep, StageStep, UniqueStep, QueueStep, ModeStep, AssignedStep, FlightStep,
     PingFlightStep, InboxStep, DeciderStep DEF PInv, StageOK

\* PInv holds in every state of the system.
THEOREM Inductive == Spec => []PInv
  BY InitPInv, StepPInv, PTL DEF Spec

\* Every variable of the system keeps its type: among others, no call makes more
\* attempts than Options.attempts.
THEOREM TypeCorrect == Spec => []TypeOK
  <1>1. PInv => TypeOK
    BY DEF PInv
  <1> QED
    BY Inductive, <1>1, PTL

\* No answer to an earlier attempt, to another call or to the previous holder of its
\* identifier decides a call on a raw socket, though it hears them all, and a minimal
\* error tells them apart by nothing but identifier, sequence number and a checksum that
\* may collide: the quarantine of src/identifier.rs is enough.  On a ping socket, whose
\* identifier the kernel may give away at once, that holds but for the error to a call
\* that is over, and then only if the checksums collide.
THEOREM OwnOutcome == Spec => []OutcomeIsOwn
  <1>1. PInv => OutcomeIsOwn
    <2> SUFFICES ASSUME PInv, NEW c \in Call, decider[c] # Nobody
                 PROVE  /\ decider[c].seq = seq[c]
                        /\ decider[c].owner = c \/ Confused(c, decider[c])
      BY DEF OutcomeIsOwn
    <2>1. /\ decider[c] \in Message /\ decider[c].seq = seq[c]
          /\ decider[c].owner = c \/ Indistinct(c, decider[c])
      BY DEF PInv, DeciderOK
    <2>2. ASSUME Indistinct(c, decider[c]) PROVE Confused(c, decider[c])
      <3>1. decider[c].owner \in Call /\ stage[decider[c].owner] \in Over
        BY <2>1, <2>2 DEF Indistinct, Message
      <3>2. socket[decider[c].owner] = "none"
        BY <3>1 DEF PInv, SocketOK, Open, Over
      <3> QED
        BY <2>2, <3>2 DEF Indistinct, Confused
    <2> QED
      BY <2>1, <2>2
  <1> QED
    BY Inductive, <1>1, PTL

\* On every path through PingTask::compute, failures included, a socket is open
\* only under a lease, and a lease is held only inside compute.
THEOREM LeaseOutlivesSocket == Spec => []SocketWithinLease
  <1>1. PInv => SocketWithinLease
    BY DEF PInv, LeaseOK, SocketOK, Holding, Open, ComputeStage, Running,
       SocketWithinLease
  <1> QED
    BY Inductive, <1>1, PTL

-------------------------------------------------------------------------------
(* Each call keeps ProbeContract.                                            *)

\* A call has no outcome before it is done with the probe.
ResultOK == \A c \in Call : stage[c] \notin Decided => result[c] = "none"

\* A request under way is one that was sent.
FlightSeqOK == \A f \in flight : f.seq <= seq[f.owner]

\* What is in a socket has arrived.
ArrivedOK ==
    /\ arrived \in [Call -> SUBSET [seq : 1 .. Attempts, kind : {"echo", "error"}]]
    /\ \A c \in Call : \A m \in inbox[c] :
          [seq |-> m.seq, kind |-> m.kind] \in arrived[m.owner]

CInv ==
    /\ PInv
    /\ ResultOK
    /\ FlightSeqOK
    /\ ArrivedOK

\* The history changes nothing.
LEMMA StepOfSystem == [CallsNext]_callsVars => [Next]_vars
  BY DEF CallsNext, callsVars, Next, Arrive, Answer

-------------------------------------------------------------------------------

\* The steps of a call that leave its requests and its outcome alone.
Quiet(c) ==
    \/ Ping(c) \/ Lease(c) \/ Payload(c) \/ Create(c) \/ Setup(c)
    \/ Close(c) \/ Drop(c) \/ Resolve(c)

LEMMA QuietFacts ==
    ASSUME NEW c \in Call, Quiet(c)
    PROVE  /\ UNCHANGED <<seq, flight, result>>
           /\ inbox' \in {inbox, [inbox EXCEPT ![c] = {}]}
           /\ \E s : Goto(c, s) /\ (stage[c] \in Decided => s \in Decided)
  BY DEF Quiet, Ping, Lease, Payload, Create, Setup, Close, Drop, Resolve, netVars, Goto, Decided

\* The steps that may end a probe without an answer.
Ends(c) ==
    \/ PingThrows(c) \/ Parse(c) \/ Exhausted(c) \/ RandomFails(c) \/ CreateFails(c)
    \/ SetupFails(c) \/ TransportFails(c) \/ AttemptOver(c)

LEMMA EndsFacts ==
    ASSUME NEW c \in Call, Ends(c)
    PROVE  /\ UNCHANGED <<seq, flight>>
           /\ inbox' \in {inbox, [inbox EXCEPT ![c] = {}]}
           /\ stage[c] \notin Decided
           /\ \/ UNCHANGED result /\ \E s \in Stage : Goto(c, s)
              \/ /\ \E s \in Decided : Goto(c, s)
                 /\ \/ \E r \in {"unreachable", "rejected"} : Conclude(c, r)
                    \/ ~AttemptLeft(c) /\ Conclude(c, "timeout")
  <1> USE DEF Decided, Stage, ComputeStage, netVars
  <1>1. CASE PingThrows(c)
    BY <1>1 DEF PingThrows
  <1>2. CASE Parse(c)
    BY <1>2 DEF Parse
  <1>3. CASE Exhausted(c)
    BY <1>3 DEF Exhausted
  <1>4. CASE RandomFails(c)
    BY <1>4 DEF RandomFails
  <1>5. CASE CreateFails(c)
    BY <1>5 DEF CreateFails
  <1>6. CASE SetupFails(c)
    BY <1>6 DEF SetupFails
  <1>7. CASE TransportFails(c)
    BY <1>7 DEF TransportFails
  <1>8. CASE AttemptOver(c)
    BY <1>8 DEF AttemptOver
  <1> QED
    BY <1>1, <1>2, <1>3, <1>4, <1>5, <1>6, <1>7, <1>8 DEF Ends

\* Every step of a call is one of these, or sends, or receives.
LEMMA ActCases ==
    ASSUME NEW c \in Call, Act(c)
    PROVE  Quiet(c) \/ Ends(c) \/ Send(c) \/ Receive(c)
  BY DEF Act, Compute, Fail, Quiet, Ends

\* What others do does not concern a call.
LEMMA Dispatched ==
    ASSUME PInv, Dispatch
    PROVE  /\ UNCHANGED <<seq, flight, result, inbox>>
           /\ \E c \in Call : stage[c] \notin Decided /\ \E s : Goto(c, s)
  <1>1. PICK c \in Call : stage[c] = "queued" /\ Goto(c, "parse")
    BY DEF Dispatch, PInv, TypeOK, QueueOK
  <1> QED
    BY <1>1 DEF Dispatch, netVars, Decided
\* A call is without an outcome until it is done with the probe.
LEMMA ResultStep == CInv /\ [Next]_vars => ResultOK'
  <1> SUFFICES ASSUME CInv, [Next]_vars PROVE ResultOK'
    OBVIOUS
  <1> USE DEF CInv, PInv, TypeOK, ResultOK
  <1>1. ASSUME NEW c \in Call, Quiet(c) PROVE ResultOK'
    <2>1. PICK s : Goto(c, s) /\ (stage[c] \in Decided => s \in Decided)
      BY <1>1, QuietFacts
    <2>2. UNCHANGED result
      BY <1>1, QuietFacts
    <2> QED
      BY <2>1, <2>2 DEF Goto
  <1>2. ASSUME NEW c \in Call, Ends(c) PROVE ResultOK'
    <2>1. stage[c] \notin Decided
      BY <1>2, EndsFacts
    <2>2. CASE UNCHANGED result /\ \E s \in Stage : Goto(c, s)
      BY <2>1, <2>2 DEF Goto
    <2>3. CASE /\ \E s \in Decided : Goto(c, s)
               /\ \E r : Conclude(c, r)
      BY <2>3 DEF Goto, Conclude
    <2> QED
      BY <1>2, <2>2, <2>3, EndsFacts
  <1>3. ASSUME NEW c \in Call, Send(c) PROVE ResultOK'
    BY <1>3 DEF Send, Goto, Decided
  <1>4. ASSUME NEW c \in Call, Receive(c) PROVE ResultOK'
    <2>1. PICK m \in inbox[c] : ReceiveStep(c, m)
      BY <1>4, ReceiveCases
    <2>2. CASE UNCHANGED <<stage, result, decider>>
      BY <2>2
    <2>3. CASE Goto(c, "close") /\ \E r : Conclude(c, r)
      BY <2>3 DEF Goto, Conclude, Decided
    <2> QED
      BY <2>1, <2>2, <2>3 DEF ReceiveStep
  <1>5. CASE Dispatch
    <2>1. PICK c \in Call : stage[c] \notin Decided /\ \E s : Goto(c, s)
      BY <1>5, Dispatched
    <2>2. UNCHANGED result
      BY <1>5, Dispatched
    <2> QED
      BY <2>1, <2>2 DEF Goto
  <1>6. ASSUME Answer \/ Tick \/ UNCHANGED vars PROVE ResultOK'
    BY <1>6 DEF Answer, AnswerTo, Tick, vars
  <1> QED
    BY <1>1, <1>2, <1>3, <1>4, <1>5, <1>6, ActCases DEF Next

\* No request is under way that its call has not sent.
LEMMA FlightSeqStep == CInv /\ [Next]_vars => FlightSeqOK'
  <1> SUFFICES ASSUME CInv, [Next]_vars PROVE FlightSeqOK'
    OBVIOUS
  <1> USE DEF CInv, PInv, TypeOK, FlightSeqOK
  <1>1. CASE UNCHANGED <<seq, flight>>
    BY <1>1
  <1>2. ASSUME NEW c \in Call, Quiet(c) \/ Ends(c) PROVE UNCHANGED <<seq, flight>>
    BY <1>2, QuietFacts, EndsFacts
  <1>3. ASSUME NEW c \in Call, Send(c) PROVE FlightSeqOK'
    <2> DEFINE r == [owner |-> c, id |-> WireId(c), seq |-> seq[c] + 1, at |-> now]
    <2>1. seq' = [seq EXCEPT ![c] = @ + 1] /\ flight' = flight \cup {r}
      BY <1>3 DEF Send
    <2>2. r.owner = c /\ r.seq = seq[c] + 1
      OBVIOUS
    <2>3. seq[c] \in Nat /\ seq'[c] = seq[c] + 1 /\ \A d \in Call \ {c} : seq'[d] = seq[d]
      BY <2>1
    <2>4. ASSUME NEW f \in flight PROVE f.owner \in Call /\ f.seq \in Nat /\ f.seq <= seq[f.owner]
      BY DEF Request
    <2>5. ASSUME NEW f \in flight PROVE f.seq <= seq'[f.owner]
      <3>1. PICK o \in Call : o = f.owner /\ f.seq \in Nat /\ f.seq <= seq[o]
        BY <2>4
      <3>2. CASE o = c
        BY <2>3, <3>1, <3>2
      <3>3. CASE o # c
        BY <2>3, <3>1, <3>3
      <3> QED
        BY <3>2, <3>3
    <2> HIDE DEF r
    <2> QED
      BY <2>1, <2>2, <2>3, <2>5
  <1>4. ASSUME NEW c \in Call, Receive(c) PROVE UNCHANGED <<seq, flight>>
    BY <1>4 DEF Receive
  <1>5. ASSUME Dispatch \/ Answer \/ UNCHANGED vars PROVE UNCHANGED <<seq, flight>>
    BY <1>5, Dispatched DEF Answer, AnswerTo, vars, netVars
  <1>6. CASE Tick
    BY <1>6 DEF Tick
  <1> QED
    BY <1>1, <1>2, <1>3, <1>4, <1>5, <1>6, ActCases DEF Next

\* A socket has only what has arrived.
LEMMA ArrivedStep == CInv /\ [CallsNext]_callsVars => ArrivedOK'
  <1> SUFFICES ASSUME CInv, [CallsNext]_callsVars PROVE ArrivedOK'
    OBVIOUS
  <1> USE DEF CInv, PInv, TypeOK, ArrivedOK
  <1>1. ASSUME UNCHANGED arrived, NEW c \in Call,
               inbox'[c] \subseteq inbox[c], \A d \in Call \ {c} : inbox'[d] = inbox[d]
        PROVE  ArrivedOK'
    BY <1>1
  <1>2. ASSUME UNCHANGED <<arrived, inbox>> PROVE ArrivedOK'
    BY <1>2
  <1>3. ASSUME NEW c \in Call, Quiet(c) \/ Ends(c), UNCHANGED arrived PROVE ArrivedOK'
    <2>1. inbox' \in {inbox, [inbox EXCEPT ![c] = {}]}
      BY <1>3, QuietFacts, EndsFacts
    <2>2. inbox'[c] \subseteq inbox[c] /\ \A d \in Call \ {c} : inbox'[d] = inbox[d]
      BY <2>1
    <2> QED
      BY <1>1, <1>3, <2>2
  <1>4. ASSUME NEW c \in Call, Send(c), UNCHANGED arrived PROVE ArrivedOK'
    BY <1>2, <1>4 DEF Send
  <1>5. ASSUME NEW c \in Call, Receive(c), UNCHANGED arrived PROVE ArrivedOK'
    <2>1. PICK m \in inbox[c] : inbox' = [inbox EXCEPT ![c] = inbox[c] \ {m}]
      BY <1>5 DEF Receive
    <2> QED
      BY <1>1, <1>5, <2>1
  <1>6. ASSUME NEW f \in flight, NEW k \in {"echo", "error"}, Arrive(f, k) PROVE ArrivedOK'
    <2> DEFINE a == [seq |-> f.seq, kind |-> k]
    <2>1. /\ inbox' = [d \in Call |-> IF Hears(d, MessageOf(f, k))
                                         THEN inbox[d] \cup {MessageOf(f, k)}
                                         ELSE inbox[d]]
          /\ arrived' = [arrived EXCEPT ![f.owner] = @ \cup {a}]
      BY <1>6 DEF Arrive, AnswerTo
    <2>2. f.owner \in Call /\ a \in [seq : 1 .. Attempts, kind : {"echo", "error"}]
      BY DEF Request
    <2>3. arrived' \in [Call -> SUBSET [seq : 1 .. Attempts, kind : {"echo", "error"}]]
      BY <2>1, <2>2
    <2>4. a \in arrived'[f.owner] /\ \A d \in Call : arrived[d] \subseteq arrived'[d]
      BY <2>1, <2>2
    <2>5. ASSUME NEW d \in Call, NEW m \in inbox'[d]
          PROVE  [seq |-> m.seq, kind |-> m.kind] \in arrived'[m.owner]
      <3>1. CASE m \in inbox[d]
        <4>1. m.owner \in Call
          BY <3>1 DEF Message
        <4> QED
          BY <2>4, <3>1, <4>1
      <3>2. CASE m = MessageOf(f, k)
        BY <2>4, <3>2 DEF MessageOf
      <3> QED
        BY <2>1, <2>5, <3>1, <3>2
    <2> QED
      BY <2>3, <2>5
  <1>7. ASSUME Dispatch \/ Tick, UNCHANGED arrived PROVE ArrivedOK'
    BY <1>2, <1>7, Dispatched DEF Tick
  <1>8. CASE UNCHANGED callsVars
    BY <1>2, <1>8 DEF callsVars, vars, netVars
  <1> QED
    BY <1>3, <1>4, <1>5, <1>6, <1>7, <1>8, ActCases DEF CallsNext
\* To a call, each step of the system is a step of its contract, or none at all, or
\* the one in which a ping socket is misled.
LEMMA ContractStep ==
    CInv /\ [CallsNext]_callsVars =>
        \A c \in Call :
            \/ Probe(c)!ContractNext \/ UNCHANGED Probe(c)!contractVars
            \/ Misled(c)
  <1> DEFINE Kept(c) == \/ Probe(c)!ContractNext \/ UNCHANGED Probe(c)!contractVars
                        \/ Misled(c)
  <1> SUFFICES ASSUME CInv, [CallsNext]_callsVars, NEW c \in Call PROVE Kept(c)
    OBVIOUS
  <1> USE DEF CInv, PInv, TypeOK, Probe!contractVars
  <1>1. CASE UNCHANGED <<seq, result, arrived>>
    BY <1>1
  <1>2. ASSUME NEW d \in Call, Quiet(d), UNCHANGED arrived PROVE Kept(c)
    BY <1>1, <1>2, QuietFacts
  <1>3. ASSUME NEW d \in Call, Ends(d), UNCHANGED arrived PROVE Kept(c)
    <2>1. stage[d] \notin Decided /\ UNCHANGED <<seq, arrived>>
      BY <1>3, EndsFacts
    <2>2. CASE UNCHANGED result
      BY <1>1, <2>1, <2>2
    <2>3. ASSUME NEW r, Conclude(d, r), c # d PROVE Kept(c)
      BY <2>1, <2>3 DEF Conclude
    <2>4. ASSUME NEW r, Conclude(d, r), c = d PROVE result[c] = "none" /\ result'[c] = r
      BY <2>1, <2>4 DEF Conclude, ResultOK
    <2>5. ASSUME NEW r \in {"unreachable", "rejected"}, Conclude(d, r), c = d PROVE Kept(c)
      <3>1. Probe(c)!Conclude
        BY <2>1, <2>4, <2>5 DEF Probe!Conclude, Probe!Pending
      <3> QED
        BY <3>1 DEF Probe!ContractNext
    <2>6. ASSUME ~AttemptLeft(d), Conclude(d, "timeout"), c = d PROVE Kept(c)
      <3>1. seq[c] = Attempts
        <4>1. seq[c] \in 0 .. Attempts /\ ~(seq[c] < Attempts)
          BY <2>6 DEF AttemptLeft
        <4> QED
          BY <4>1, SystemAssumption
      <3>2. Probe(c)!Conclude
        BY <2>1, <2>4, <2>6, <3>1 DEF Probe!Conclude, Probe!Pending
      <3> QED
        BY <3>2 DEF Probe!ContractNext
    <2>7. \/ UNCHANGED result
          \/ \E r \in {"unreachable", "rejected"} : Conclude(d, r)
          \/ ~AttemptLeft(d) /\ Conclude(d, "timeout")
      BY <1>3, EndsFacts
    <2> HIDE DEF Kept
    <2> QED
      BY <2>2, <2>3, <2>5, <2>6, <2>7
  <1>4. ASSUME NEW d \in Call, Send(d), UNCHANGED arrived PROVE Kept(c)
    <2>1. seq' = [seq EXCEPT ![d] = @ + 1] /\ stage[d] = "send" /\ UNCHANGED result
      BY <1>4 DEF Send
    <2>2. CASE c # d
      BY <1>4, <2>1, <2>2
    <2>3. CASE c = d
      <3>1. seq'[c] = seq[c] + 1 /\ result[c] = "none" /\ seq[c] < Attempts
        BY <2>1, <2>3 DEF ResultOK, SeqOK, Decided
      <3>2. Probe(c)!Request
        BY <1>4, <2>1, <3>1 DEF Probe!Request, Probe!Pending
      <3> QED
        BY <3>2 DEF Probe!ContractNext
    <2> QED
      BY <2>2, <2>3
  <1>5. ASSUME NEW d \in Call, Receive(d), UNCHANGED arrived PROVE Kept(c)
    <2>1. PICK m \in inbox[d] :
             /\ stage[d] = "listen" /\ UNCHANGED seq
             /\ \/ /\ Answers(d, m)
                   /\ Conclude(d, IF m.kind = "echo" THEN "success" ELSE "negative")
                   /\ decider' = [decider EXCEPT ![d] = m]
                \/ UNCHANGED result
      BY <1>5 DEF Receive
    <2>2. CASE UNCHANGED result
      BY <1>1, <1>5, <2>1, <2>2
    <2>3. ASSUME Answers(d, m),
                 Conclude(d, IF m.kind = "echo" THEN "success" ELSE "negative"),
                 decider' = [decider EXCEPT ![d] = m]
          PROVE  Kept(c)
      <3>1. CASE c # d
        BY <1>5, <2>1, <2>3, <3>1 DEF Conclude
      <3>2. CASE c = d
        <4>1. /\ m \in Message /\ m.owner \in Call /\ m.seq = seq[c]
              /\ m.kind \in {"echo", "error"}
              /\ m.owner = c \/ (~privileged /\ stage[m.owner] \in Over)
          BY <2>3, <3>2 DEF Answers, InboxOK, Recognized, Message
        <4>2. [seq |-> seq[c], kind |-> m.kind] \in arrived[m.owner]
          <5>1. [seq |-> m.seq, kind |-> m.kind] \in arrived[m.owner]
            BY <3>2 DEF ArrivedOK
          <5> QED
            BY <4>1, <5>1
        <4>3. /\ result[c] = "none"
              /\ result'[c] = IF m.kind = "echo" THEN "success" ELSE "negative"
          BY <2>1, <2>3, <3>2 DEF Conclude, ResultOK, Decided
        <4>4. CASE m.owner = c
          <5>1. Probe(c)!Conclude
            BY <1>5, <2>1, <4>1, <4>2, <4>3, <4>4 DEF Probe!Conclude, Probe!Pending
          <5> QED
            BY <5>1 DEF Probe!ContractNext
        <4>5. CASE m.owner # c
          <5>1. m.kind = "error" /\ share[m.owner] = share[c]
            BY <2>3, <3>2, <4>1, <4>5 DEF Answers
          <5>2. socket[m.owner] = "none"
            BY <4>1, <4>5 DEF SocketOK, Open, Over
          <5>3. Confused(c, m)
            BY <4>1, <4>5, <5>1, <5>2 DEF Confused
          <5>4. decider'[c] = m /\ m # Nobody
            BY <2>3, <3>2, <5>1 DEF Nobody
          <5>5. Misled(c)
            BY <1>5, <2>1, <4>2, <4>3, <5>1, <5>3, <5>4 DEF Misled, Confused
          <5> QED
            BY <5>5
        <4> QED
          BY <4>4, <4>5
      <3> QED
        BY <3>1, <3>2
    <2> QED
      BY <2>1, <2>2, <2>3
  <1>6. ASSUME NEW f \in flight, NEW k \in {"echo", "error"}, Arrive(f, k) PROVE Kept(c)
    <2> DEFINE a == [seq |-> f.seq, kind |-> k]
    <2>1. arrived' = [arrived EXCEPT ![f.owner] = @ \cup {a}] /\ UNCHANGED <<seq, result>>
      BY <1>6 DEF Arrive, AnswerTo
    <2>2. f.owner \in Call /\ f.seq \in 1 .. Attempts /\ f.seq <= seq[f.owner]
      BY DEF Request, FlightSeqOK
    <2>3. CASE c # f.owner
      BY <2>1, <2>3 DEF ArrivedOK
    <2>4. CASE c = f.owner
      <3>1. arrived'[c] = arrived[c] \cup {a}
        BY <2>1, <2>4 DEF ArrivedOK
      <3>2. a \in Probe(c)!Answer /\ a.seq <= seq[c]
        BY <2>2, <2>4 DEF Probe!Answer, Probe!Kind
      <3>3. Probe(c)!Arrive
        BY <2>1, <3>1, <3>2 DEF Probe!Arrive
      <3> QED
        BY <3>3 DEF Probe!ContractNext
    <2> QED
      BY <2>3, <2>4
  <1>7. ASSUME Dispatch \/ Tick, UNCHANGED arrived PROVE Kept(c)
    BY <1>1, <1>7, Dispatched DEF Tick
  <1>8. CASE UNCHANGED callsVars
    BY <1>1, <1>8 DEF callsVars, vars, netVars
  <1> HIDE DEF Kept
  <1> QED
    BY <1>2, <1>3, <1>4, <1>5, <1>6, <1>7, <1>8, ActCases DEF CallsNext

\* CInv holds in every state of the system with its history.
THEOREM ContractInductive == CallsSpec => []CInv
  <1>1. CallsInit => CInv
    <2> SUFFICES ASSUME CallsInit PROVE CInv
      OBVIOUS
    <2>1. PInv
      BY InitPInv DEF CallsInit
    <2>2. ResultOK /\ FlightSeqOK /\ ArrivedOK
      BY DEF CallsInit, Init, ResultOK, FlightSeqOK, ArrivedOK
    <2> QED
      BY <2>1, <2>2 DEF CInv
  <1>2. CInv /\ [CallsNext]_callsVars => CInv'
    BY StepPInv, StepOfSystem, ResultStep, FlightSeqStep, ArrivedStep DEF CInv
  <1> QED
    BY <1>1, <1>2, PTL DEF CallsSpec

\* Each call, whatever the others do, behaves as ProbeContract says: it sends one
\* request after the other while it is undecided, an answer of that kind to its latest
\* request has arrived when it succeeds or fails, and it times out after its last.  The
\* exception is the error that a ping socket cannot tell from its own.
THEOREM ContractTheorem == CallsSpec => CallsKeepContract
  <1>1. CallsInit => \A c \in Call : Probe(c)!ContractInit
    BY DEF CallsInit, Init, Probe!ContractInit
  <1>2. CInv /\ [CallsNext]_callsVars =>
          [\A c \in Call :
              \/ Probe(c)!ContractNext \/ UNCHANGED Probe(c)!contractVars
              \/ Misled(c)]_callsVars
    BY ContractStep
  <1> QED
    BY <1>1, <1>2, ContractInductive, PTL DEF CallsSpec, CallsKeepContract
================================================================================
