----------------------------- MODULE AnswersProofs -----------------------------
(***************************************************************************)
(* Theorems about Answers, for every set of addresses, identifiers,        *)
(* sequence numbers and payloads.                                          *)
(***************************************************************************)
EXTENDS Answers, TLAPS

\* The forms in which a message comes in.
IsEchoMessage(m) ==
    /\ m.origin = "icmp" /\ m.fault = "none"
    /\ m.type = (IF m.echo.kind = "reply" THEN ReplyType ELSE RequestType) /\ m.code = 0
    /\ m.source = m.echo.from /\ m.dest = m.echo.to /\ m.cut = "whole"

IsError(m) ==
    /\ m.origin = "icmp" /\ m.fault \in Fault
    /\ \E signal \in Signals(m.fault) : m.type = signal[1] /\ m.code = signal[2]
    /\ m.dest = m.echo.from /\ m.cut \in Cut

IsLocal(m) ==
    /\ m.origin = "local" /\ m.fault \in {"size", "other"}
    /\ m.type = 0
    /\ m.echo.kind = "request" /\ m.echo.id = Own.id /\ m.echo.from = Own.from
    /\ m.dest = m.echo.from /\ m.cut = "whole" /\ m.intact

MessageOK(m) ==
    /\ m.origin # "none"
    /\ m.echo \in Packet
    /\ IsEchoMessage(m) \/ IsError(m) \/ IsLocal(m)

\* Both decisions were made on the message that came in.
AInv ==
    /\ message = None \/ MessageOK(message)
    /\ \/ raw = Undecided /\ ping = Undecided
       \/ /\ message # None
          /\ raw = RawDecision(message) /\ raw # Undecided
          /\ ping = PingDecision(message) /\ ping # Undecided

-------------------------------------------------------------------------------

LEMMA ReasonIsDecided == ASSUME NEW t, NEW c PROVE Reason(t, c) # Undecided
  BY DEF Reason, Undecided

LEMMA AlwaysDecides ==
    ASSUME NEW m PROVE RawDecision(m) # Undecided /\ PingDecision(m) # Undecided
  BY ReasonIsDecided DEF RawDecision, PingDecision, ParseMessage, ParseError, Undecided

LEMMA InitAInv == Init => AInv
  BY DEF Init, AInv

\* What a message is depends on the family and the target, which stay.
LEMMA SameMessage ==
    ASSUME NEW m, UNCHANGED <<v6, target>>, MessageOK(m) PROVE MessageOK(m)'
  <1>1. /\ ReplyType' = ReplyType /\ RequestType' = RequestType /\ Own' = Own
        /\ \A fault : Signals(fault)' = Signals(fault)
    BY DEF ReplyType, RequestType, Own, Signals
  <1> QED
    BY <1>1 DEF MessageOK, IsEchoMessage, IsError, IsLocal

\* ... and so does what it decides.
LEMMA SameDecision ==
    ASSUME NEW m, UNCHANGED <<v6, target>>, message' = m
    PROVE  /\ RawDecision(message)' = RawDecision(m)
           /\ PingDecision(message)' = PingDecision(m)
           /\ MessageOK(m) => MessageOK(message)'
  <1>1. RawDecision(m)' = RawDecision(m) /\ PingDecision(m)' = PingDecision(m)
    <2>1. /\ ReplyType' = ReplyType /\ RequestType' = RequestType /\ Own' = Own /\ v6' = v6
          /\ \A t, c : Reason(t, c)' = Reason(t, c)
      BY DEF ReplyType, RequestType, Own, Reason
    <2>2. /\ QuotesOwn(m)' <=> QuotesOwn(m)
          /\ RecordsOwn(m)' <=> RecordsOwn(m)
          /\ Verifies(m)' <=> Verifies(m)
      BY <2>1 DEF Verifies, QuotesOwn, Matches, SameChecksum, RecordsOwn
    <2>3. ParseMessage(m)' = ParseMessage(m) /\ ParseError(m)' = ParseError(m)
      BY <2>1, <2>2 DEF ParseMessage, Matches, ParseError
    <2> QED
      BY <2>1, <2>3 DEF RawDecision, PingDecision, IsEcho, Queued
  <1>2. /\ RawDecision(message)' = RawDecision(m)' /\ PingDecision(message)' = PingDecision(m)'
        /\ MessageOK(m)' => MessageOK(message)'
    BY DEF RawDecision, PingDecision, ParseMessage, Verifies, QuotesOwn, Matches,
       SameChecksum, ParseError, RecordsOwn, IsEcho, Queued, MessageOK, IsEchoMessage, IsError,
       IsLocal
  <1> QED
    BY <1>1, <1>2, SameMessage

LEMMA ArrivesStep ==
    ASSUME NEW origin \in {"icmp", "local"}, NEW signal, NEW source, NEW dest,
           NEW echo \in Packet, NEW cut, NEW fault,
           message = None, AInv,
           Arrives(origin, signal, source, dest, echo, cut, fault),
           \/ /\ origin = "icmp" /\ fault = "none" /\ cut = "whole"
              /\ signal = <<IF echo.kind = "reply" THEN ReplyType ELSE RequestType, 0>>
              /\ source = echo.from /\ dest = echo.to
           \/ /\ origin = "icmp" /\ fault \in Fault /\ cut \in Cut
              /\ signal \in Signals(fault) /\ dest = echo.from
           \/ /\ origin = "local" /\ fault \in {"size", "other"} /\ cut = "whole"
              /\ signal = <<0, 0>> /\ dest = echo.from
              /\ echo.kind = "request" /\ echo.id = Own.id /\ echo.from = Own.from
    PROVE  AInv'
  <1>1. raw' = Undecided /\ ping' = Undecided /\ UNCHANGED <<v6, target>>
    BY DEF Arrives, AInv
  <1>2. PICK m : m = message'
    OBVIOUS
  <1>3. /\ m.origin = origin /\ m.type = signal[1] /\ m.code = signal[2] /\ m.source = source
        /\ m.dest = dest /\ m.echo = echo /\ m.cut = cut /\ m.intact = TRUE /\ m.fault = fault
    BY <1>2 DEF Arrives
  <1>4. MessageOK(m)
    BY <1>3 DEF MessageOK, IsEchoMessage, IsError, IsLocal
  <1>5. MessageOK(m)'
    BY <1>1, <1>4, SameMessage
  <1>6. MessageOK(message)'
    BY <1>2, <1>5 DEF MessageOK, IsEchoMessage, IsError, IsLocal
  <1> QED
    BY <1>1, <1>6 DEF AInv

LEMMA AInvStep == AInv /\ [Next]_vars => AInv'
  <1> SUFFICES ASSUME AInv, [Next]_vars PROVE AInv'
    OBVIOUS
  <1>1. CASE EchoArrives
    <2>1. PICK p \in Packet :
            Arrives("icmp", <<IF p.kind = "reply" THEN ReplyType ELSE RequestType, 0>>,
                    p.from, p.to, p, "whole", "none")
      BY <1>1 DEF EchoArrives
    <2>2. message = None
      BY <1>1 DEF EchoArrives
    <2> QED
      BY <2>1, <2>2, ArrivesStep
  <1>2. CASE ErrorArrives
    <2>1. PICK p \in Packet, fault \in Fault, cut \in Cut, source \in Address :
            \E signal \in Signals(fault) :
                Arrives("icmp", signal, source, p.from, p, cut, fault)
      BY <1>2 DEF ErrorArrives
    <2>2. PICK signal \in Signals(fault) :
            Arrives("icmp", signal, source, p.from, p, cut, fault)
      BY <2>1
    <2>3. message = None
      BY <1>2 DEF ErrorArrives
    <2> QED
      BY <2>2, <2>3, ArrivesStep
  <1>3. CASE LocalError
    <2>1. PICK p \in Packet, fault \in {"size", "other"} :
            /\ p.kind = "request" /\ p.id = Own.id /\ p.from = Own.from
            /\ Arrives("local", <<0, 0>>, p.from, p.from, p, "whole", fault)
      BY <1>3 DEF LocalError
    <2>2. message = None
      BY <1>3 DEF LocalError
    <2> QED
      BY <2>1, <2>2, ArrivesStep
  <1>4. CASE Damage
    <2>1. raw = Undecided /\ message # None /\ message.origin = "icmp"
      BY <1>4 DEF Damage, None
    <2>2. PICK m : m = message'
      OBVIOUS
    <2>3. MessageOK(message) /\ m = [message EXCEPT !.intact = FALSE]
      BY <1>4, <2>1, <2>2 DEF Damage, AInv
    <2>4. /\ m.origin = message.origin /\ m.type = message.type /\ m.code = message.code
          /\ m.source = message.source /\ m.dest = message.dest /\ m.echo = message.echo
          /\ m.cut = message.cut /\ m.fault = message.fault
      BY <2>3
    <2>5. MessageOK(m)
      BY <2>1, <2>3, <2>4 DEF MessageOK, IsEchoMessage, IsError, IsLocal
    <2>6. MessageOK(message)'
      BY <1>4, <2>2, <2>5, SameMessage DEF Damage, MessageOK, IsEchoMessage, IsError, IsLocal
    <2>7. raw' = Undecided /\ ping' = Undecided
      BY <1>4, <2>1 DEF Damage, AInv
    <2> QED
      BY <2>6, <2>7 DEF AInv
  <1>5. CASE Decide
    <2>1. PICK m : m = message
      OBVIOUS
    <2>2. m # None /\ MessageOK(m) /\ UNCHANGED <<v6, target>> /\ message' = m
      BY <1>5, <2>1 DEF Decide, AInv
    <2>3. raw' = RawDecision(m) /\ ping' = PingDecision(m)
      BY <1>5, <2>1 DEF Decide
    <2>4. /\ raw' = RawDecision(message)' /\ ping' = PingDecision(message)'
          /\ MessageOK(message)' /\ message' # None
      BY <2>2, <2>3, SameDecision
    <2>5. raw' # Undecided /\ ping' # Undecided
      BY <2>3, AlwaysDecides
    <2> QED
      BY <2>4, <2>5 DEF AInv, Undecided, None
  <1>6. CASE UNCHANGED vars
    <2>1. UNCHANGED <<v6, target>> /\ message' = message /\ raw' = raw /\ ping' = ping
      BY <1>6 DEF vars
    <2>2. PICK m : m = message
      OBVIOUS
    <2>3. /\ RawDecision(message)' = RawDecision(m) /\ PingDecision(message)' = PingDecision(m)
          /\ MessageOK(m) => MessageOK(message)'
      BY <2>1, <2>2, SameDecision
    <2>4. CASE message = None
      BY <2>1, <2>4 DEF AInv, None, Undecided
    <2>5. CASE message # None
      <3>1. MessageOK(message)'
        BY <2>2, <2>3, <2>5 DEF AInv
      <3>2. \/ raw = Undecided /\ ping = Undecided
            \/ /\ raw = RawDecision(m) /\ raw # Undecided
               /\ ping = PingDecision(m) /\ ping # Undecided
        BY <2>2 DEF AInv
      <3>3. \/ raw' = Undecided /\ ping' = Undecided
            \/ /\ raw' = RawDecision(message)' /\ raw' # Undecided
               /\ ping' = PingDecision(message)' /\ ping' # Undecided
        BY <2>1, <2>3, <3>2
      <3> QED
        BY <2>1, <2>5, <3>1, <3>3 DEF AInv, Undecided, None
    <2> QED
      BY <2>4, <2>5
  <1> QED
    BY <1>1, <1>2, <1>3, <1>4, <1>5, <1>6 DEF Next

\* AInv holds in every reachable state.
THEOREM Inductive == Spec => []AInv
  BY InitAInv, AInvStep, PTL DEF Spec

-------------------------------------------------------------------------------
(* A message of each form, and what it decides.                              *)

LEMMA TypesApart ==
    /\ ReplyType # RequestType
    /\ \A fault \in Fault : \A signal \in Signals(fault) :
          signal[1] # ReplyType /\ signal[1] # RequestType
  <1>1. CASE v6
    BY <1>1 DEF ReplyType, RequestType, Fault, Signals
  <1>2. CASE ~v6
    BY <1>2 DEF ReplyType, RequestType, Fault, Signals
  <1> QED
    BY <1>1, <1>2

\* A reason names the fault that a signal is for.
LEMMA ReasonNames ==
    ASSUME NEW fault \in Fault, NEW signal \in Signals(fault)
    PROVE  Reason(signal[1], signal[2]) = Named(fault)
  <1>1. CASE fault = "network"
    BY <1>1 DEF Signals, Reason, Named
  <1>2. CASE fault = "host"
    BY <1>2 DEF Signals, Reason, Named
  <1>3. CASE fault = "prohibited"
    BY <1>3 DEF Signals, Reason, Named
  <1>4. CASE fault = "port"
    BY <1>4 DEF Signals, Reason, Named
  <1>5. CASE fault = "size"
    BY <1>5 DEF Signals, Reason, Named
  <1>6. CASE fault = "hops"
    BY <1>6 DEF Signals, Reason, Named
  <1>7. CASE fault = "parameter"
    BY <1>7 DEF Signals, Reason, Named
  <1>8. CASE fault = "redirect"
    BY <1>8 DEF Signals, Reason, Named
  <1> QED
    BY <1>1, <1>2, <1>3, <1>4, <1>5, <1>6, <1>7, <1>8 DEF Fault

LEMMA EchoTypesNameNothing ==
    Reason(ReplyType, 0) = "none" /\ Reason(RequestType, 0) = "none"
  BY DEF Reason, ReplyType, RequestType

\* An Echo message decides if it is the target's reply to the own request.
LEMMA EchoDecides ==
    ASSUME NEW m, MessageOK(m), IsEchoMessage(m)
    PROVE  /\ RawDecision(m) = PingDecision(m)
           /\ RawDecision(m) = IF m.intact /\ m.echo = OwnReply THEN "echo" ELSE "none"
  <1>1. m.echo \in Packet
    BY DEF MessageOK
  <1>2. m.echo = OwnReply <=>
            /\ m.echo.kind = "reply" /\ m.echo.from = target /\ m.echo.to = Local
            /\ m.echo.id = Id /\ m.echo.seq = Seq /\ m.echo.payload = Own.payload
    <2>1. OwnReply = [kind |-> "reply", from |-> target, to |-> Local, id |-> Id, seq |-> Seq,
                      payload |-> Own.payload]
      BY DEF OwnReply, Own
    <2>2. PICK k \in {"request", "reply"}, f \in Address, t \in Address, i \in Ident,
              s \in Sequence, p \in Payload :
             m.echo = [kind |-> k, from |-> f, to |-> t, id |-> i, seq |-> s, payload |-> p]
      BY <1>1, Zenon DEF Packet
    <2> QED
      BY <2>1, <2>2
  <1>3. CASE m.echo.kind = "reply"
    <2>1. m.type = ReplyType
      BY <1>3 DEF IsEchoMessage
    <2>2. ParseMessage(m) = IF /\ m.intact /\ (v6 => m.dest = Local)
                               /\ m.source = target /\ m.echo.id = Id /\ m.echo.seq = Seq
                               /\ m.echo.payload = Own.payload
                               THEN "echo" ELSE "none"
      BY <2>1 DEF ParseMessage, Verifies, Matches, IsEchoMessage, Own
    <2> QED
      BY <1>2, <1>3, <2>1, <2>2 DEF RawDecision, PingDecision, IsEcho, IsEchoMessage, Own
  <1>4. CASE m.echo.kind # "reply"
    <2>1. m.type = RequestType /\ m.type # ReplyType /\ m.code = 0
      BY <1>4, TypesApart DEF IsEchoMessage
    <2>2. ParseMessage(m) = "none"
      BY <2>1, EchoTypesNameNothing DEF ParseMessage
    <2> QED
      BY <1>2, <1>4, <2>1, <2>2 DEF RawDecision, PingDecision, IsEcho, IsEchoMessage
  <1> QED
    BY <1>3, <1>4

\* What identifies the own request in a quote.
QuoteOfOwn(m) ==
    /\ m.cut # "stump"
    /\ m.echo.kind = "request" /\ m.echo.from = Local /\ m.echo.to = target
    /\ m.echo.id = Id /\ m.echo.seq = Seq /\ m.echo.payload.sum = OwnSum
    /\ Shown(m.echo, m.cut) = Shown(Own, m.cut)

\* An error decides if it quotes the own request, and says what its type says.
LEMMA ErrorDecides ==
    ASSUME NEW m, MessageOK(m), IsError(m)
    PROVE  /\ RawDecision(m) = PingDecision(m)
           /\ RawDecision(m) =
                IF m.intact /\ QuoteOfOwn(m) THEN Named(m.fault) ELSE "none"
  <1>1. PICK signal \in Signals(m.fault) : m.type = signal[1] /\ m.code = signal[2]
    BY DEF IsError
  <1>2. /\ m.type # ReplyType /\ m.type # RequestType
        /\ Reason(m.type, m.code) = Named(m.fault)
    BY <1>1, TypesApart, ReasonNames DEF IsError
  <1>3. m.dest = m.echo.from /\ m.origin = "icmp"
    BY DEF IsError
  <1>4. QuotesOwn(m) <=> QuoteOfOwn(m)
    BY DEF QuotesOwn, QuoteOfOwn, Matches, SameChecksum, Own
  <1>5. RawDecision(m) = IF m.intact /\ QuoteOfOwn(m) THEN Named(m.fault) ELSE "none"
    BY <1>2, <1>3, <1>4 DEF RawDecision, ParseMessage, Verifies, QuoteOfOwn, Own
  <1>6. Queued(m) /\ RecordsOwn(m) <=> m.intact /\ QuoteOfOwn(m)
    BY <1>3 DEF Queued, RecordsOwn, QuoteOfOwn, Matches, SameChecksum, Own
  <1>7. PingDecision(m) = IF m.intact /\ QuoteOfOwn(m) THEN Named(m.fault) ELSE "none"
    BY <1>2, <1>3, <1>6 DEF PingDecision, ParseError, IsEcho
  <1> QED
    BY <1>5, <1>7

\* An error of the host itself decides on a ping socket only.
LEMMA LocalDecides ==
    ASSUME NEW m, MessageOK(m), IsLocal(m)
    PROVE  /\ RawDecision(m) = "none"
           /\ PingDecision(m) =
                IF QuoteOfOwn(m) /\ m.fault = "size" THEN "Packet too big" ELSE "none"
  <1>1. Queued(m) /\ ~IsEcho(m) /\ m.origin # "icmp"
    BY DEF IsLocal, Queued, IsEcho
  <1>2. RecordsOwn(m) <=> QuoteOfOwn(m)
    BY DEF IsLocal, RecordsOwn, QuoteOfOwn, Matches, SameChecksum, Own
  <1> QED
    BY <1>1, <1>2 DEF RawDecision, PingDecision, ParseError

-------------------------------------------------------------------------------
(* The theorems.                                                             *)

\* A ping socket decides every message of the network as a raw socket does.
THEOREM Agreement == Spec => []TransportsAgree
  <1>1. AInv => TransportsAgree
    <2> SUFFICES ASSUME AInv, raw # Undecided, message.origin = "icmp" PROVE raw = ping
      BY DEF TransportsAgree
    <2>1. PICK m : m = message
      OBVIOUS
    <2>2. MessageOK(m) /\ raw = RawDecision(m) /\ ping = PingDecision(m)
      BY <2>1 DEF AInv
    <2>3. IsEchoMessage(m) \/ IsError(m)
      BY <2>1, <2>2 DEF MessageOK, IsLocal
    <2> QED
      BY <2>2, <2>3, EchoDecides, ErrorDecides
  <1> QED
    BY <1>1, Inductive, PTL

\* The own request's answers decide, and name the fault.
THEOREM OwnAnswers == Spec => []OwnAnswersDecide
  <1>1. AInv => OwnAnswersDecide
    <2> SUFFICES ASSUME AInv, raw # Undecided, message.intact
                 PROVE  /\ message.type = ReplyType /\ message.echo = OwnReply => raw = "echo"
                        /\ message.fault # "none" /\ message.echo = Own /\ message.cut # "stump" =>
                              Named(message.fault) =
                                  IF message.origin = "local" THEN ping ELSE raw
      BY DEF OwnAnswersDecide
    <2>1. PICK m : m = message
      OBVIOUS
    <2>2. MessageOK(m) /\ raw = RawDecision(m) /\ ping = PingDecision(m) /\ m.intact
      BY <2>1 DEF AInv
    <2>3. m.echo = Own /\ m.cut # "stump" => QuoteOfOwn(m)
      BY DEF QuoteOfOwn, Own
    <2>4. CASE IsEchoMessage(m)
      <3>1. m.fault = "none"
        BY <2>4 DEF IsEchoMessage
      <3> QED
        BY <2>1, <2>2, <2>4, <3>1, EchoDecides
    <2>5. CASE IsError(m)
      <3>1. m.origin # "local" /\ m.type # ReplyType
        BY <2>5, TypesApart DEF IsError
      <3> QED
        BY <2>1, <2>2, <2>3, <2>5, <3>1, ErrorDecides
    <2>6. CASE IsLocal(m)
      <3>1. m.echo # OwnReply
        BY <2>6 DEF IsLocal, OwnReply, Own
      <3>2. m.origin = "local"
        BY <2>6 DEF IsLocal
      <3>3. Named(m.fault) = IF m.fault = "size" THEN "Packet too big" ELSE "none"
        BY <2>6 DEF IsLocal, Named
      <3> QED
        BY <2>1, <2>2, <2>3, <2>6, <3>1, <3>2, <3>3, LocalDecides
    <2> QED
      BY <2>2, <2>4, <2>5, <2>6 DEF MessageOK
  <1> QED
    BY <1>1, Inductive, PTL

\* Nothing decides but the own request's answers.
THEOREM OnlyOwn == Spec => []OnlyOwnDecides
  <1>1. AInv => OnlyOwnDecides
    <2> SUFFICES ASSUME AInv, NEW decision \in {raw, ping} \ {Undecided, "none"}
                 PROVE  /\ message.intact
                        /\ IF decision = "echo"
                              THEN message.origin = "icmp" /\ message.echo = OwnReply
                              ELSE /\ \E p \in Payload : message.echo = [Own EXCEPT !.payload = p]
                                   /\ message.echo.payload.sum = Own.payload.sum
                                   /\ Shown(message.echo, message.cut) = Shown(Own, message.cut)
      BY DEF OnlyOwnDecides
    <2>1. PICK m : m = message
      OBVIOUS
    <2>2. MessageOK(m) /\ raw = RawDecision(m) /\ ping = PingDecision(m)
      BY <2>1 DEF AInv
    <2>3. QuoteOfOwn(m) =>
            /\ \E p \in Payload : m.echo = [Own EXCEPT !.payload = p]
            /\ m.echo.payload.sum = Own.payload.sum
            /\ Shown(m.echo, m.cut) = Shown(Own, m.cut)
      <3> SUFFICES ASSUME QuoteOfOwn(m)
                   PROVE  /\ \E p \in Payload : m.echo = [Own EXCEPT !.payload = p]
                          /\ m.echo.payload.sum = Own.payload.sum
                          /\ Shown(m.echo, m.cut) = Shown(Own, m.cut)
        OBVIOUS
      <3>1. m.echo \in Packet /\ m.echo.payload \in Payload
        BY <2>2 DEF MessageOK, Packet
      <3>2. m.echo = [Own EXCEPT !.payload = m.echo.payload]
        BY <3>1 DEF QuoteOfOwn, Own, Packet
      <3> QED
        BY <3>1, <3>2 DEF QuoteOfOwn, Own
    <2>4. CASE IsEchoMessage(m)
      <3>1. m.origin = "icmp"
        BY <2>4 DEF IsEchoMessage
      <3> QED
        BY <2>1, <2>2, <2>4, <3>1, EchoDecides
    <2>5. CASE IsError(m)
      <3>1. Named(m.fault) # "echo"
        BY DEF Named
      <3> QED
        BY <2>1, <2>2, <2>3, <2>5, <3>1, ErrorDecides
    <2>6. CASE IsLocal(m)
      <3>1. m.intact
        BY <2>6 DEF IsLocal
      <3> QED
        BY <2>1, <2>2, <2>3, <2>6, <3>1, LocalDecides
    <2> QED
      BY <2>2, <2>4, <2>5, <2>6 DEF MessageOK
  <1> QED
    BY <1>1, Inductive, PTL
===============================================================================
