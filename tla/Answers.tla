-------------------------------- MODULE Answers --------------------------------
(***************************************************************************)
(* What decides a probe: parse, parse_ping_echo and parse_message of       *)
(* src/packet.rs on a raw socket, parse_error of src/linux.rs with the     *)
(* kernel's error queue on a ping socket.                                  *)
(*                                                                         *)
(* The host exchanges Echo messages for many pings.  One ICMP message      *)
(* comes in, and both transports look at it: a raw socket is given the     *)
(* message, a ping socket what the kernel makes of it.  A payload is what  *)
(* the checksum sees of it (two payloads may look alike to that) and the   *)
(* two halves that a router may have cut from its quote; EchoCodec,        *)
(* QuotedV6 and MacosHeader have the bytes.                                *)
(***************************************************************************)
EXTENDS Integers

CONSTANTS
    Address,   \* the addresses in use
    Ident,     \* the Echo identifiers in use
    Sequence,  \* the sequence numbers in use
    Sums,      \* the payloads' shares of a checksum
    Parts,     \* what half a payload may be
    Local,     \* what the request of the current attempt has
    Id,
    Seq,
    OwnSum,
    OwnFirst,
    OwnRest

Payload == [sum : Sums, first : Parts, rest : Parts]

\* Echo messages, of this probe and of anyone, in both directions.
Packet ==
    [kind : {"request", "reply"}, from : Address, to : Address, id : Ident, seq : Sequence,
     payload : Payload]

ASSUME AnswersAssumption ==
    /\ Local \in Address /\ Id \in Ident /\ Seq \in Sequence
    /\ OwnSum \in Sums /\ {OwnFirst, OwnRest} \subseteq Parts

VARIABLES
    v6,       \* the family
    target,   \* the target, which may be the host itself
    message,  \* the ICMP message that came in
    raw,      \* what it decides on a raw socket
    ping      \* what it decides on a ping socket

vars == <<v6, target, message, raw, ping>>

\* The request of the current attempt.
Own ==
    [kind |-> "request", from |-> Local, to |-> target, id |-> Id, seq |-> Seq,
     payload |-> [sum |-> OwnSum, first |-> OwnFirst, rest |-> OwnRest]]

\* How much of the Echo message an error quotes: less than its header, the header
\* alone, half the payload too, or all of it.
Cut == {"stump", "header", "half", "whole"}

Shown(p, cut) ==
    CASE cut = "whole" -> <<p.payload.first, p.payload.rest>>
      [] cut = "half"  -> <<p.payload.first>>
      [] OTHER         -> <<>>

\* Types and codes, RFC 792 and RFC 4443.
RequestType == IF v6 THEN 128 ELSE 8

ReplyType == IF v6 THEN 129 ELSE 0

\* What a router or a host complains about, and the types and codes it says that with.
Fault ==
    {"network", "host", "prohibited", "port", "size", "hops", "parameter", "redirect"}

Signals(fault) ==
    CASE fault = "network"    -> IF v6 THEN {<<1, 0>>} ELSE {<<3, 0>>}
      [] fault = "host"       -> IF v6 THEN {<<1, 3>>} ELSE {<<3, 1>>}
      [] fault = "prohibited" -> IF v6 THEN {<<1, 1>>} ELSE {<<3, 9>>, <<3, 10>>, <<3, 13>>}
      [] fault = "port"       -> IF v6 THEN {<<1, 4>>} ELSE {<<3, 2>>, <<3, 3>>}
      [] fault = "size"       -> IF v6 THEN {<<2, 0>>} ELSE {<<3, 4>>}
      [] fault = "hops"       -> IF v6 THEN {<<3, 0>>, <<3, 1>>} ELSE {<<11, 0>>, <<11, 1>>}
      [] fault = "parameter"  -> IF v6 THEN {<<4, 0>>, <<4, 1>>} ELSE {<<12, 0>>, <<12, 1>>}
      [] fault = "redirect"   -> IF v6 THEN {<<137, 0>>} ELSE {<<5, 1>>}

None == [origin |-> "none"]

Undecided == "undecided"

Init ==
    /\ v6 \in BOOLEAN
    /\ target \in Address
    /\ message = None
    /\ raw = Undecided
    /\ ping = Undecided

-------------------------------------------------------------------------------
(* What comes in.                                                            *)

Arrives(origin, signal, source, dest, echo, cut, fault) ==
    /\ message' = [origin |-> origin, type |-> signal[1], code |-> signal[2],
                   source |-> source, dest |-> dest, echo |-> echo, cut |-> cut,
                   intact |-> TRUE, fault |-> fault]
    /\ UNCHANGED <<v6, target, raw, ping>>

\* An Echo message itself: a reply, or a request that loops back.
EchoArrives ==
    /\ message = None
    /\ \E p \in Packet :
          Arrives("icmp", <<IF p.kind = "reply" THEN ReplyType ELSE RequestType, 0>>,
                  p.from, p.to, p, "whole", "none")

\* An error about an Echo message that this host sent, from anywhere.
ErrorArrives ==
    /\ message = None
    /\ \E p \in Packet, fault \in Fault, cut \in Cut, source \in Address :
          \E signal \in Signals(fault) :
              Arrives("icmp", signal, source, p.from, p, cut, fault)

\* The kernel has an error of its own about a request of this socket.
LocalError ==
    /\ message = None
    /\ \E p \in Packet, fault \in {"size", "other"} :
          /\ p.kind = "request" /\ p.id = Own.id /\ p.from = Own.from
          /\ Arrives("local", <<0, 0>>, p.from, p.from, p, "whole", fault)

\* The message was damaged on its way.
Damage ==
    /\ message.origin = "icmp" /\ message.intact /\ raw = Undecided
    /\ message' = [message EXCEPT !.intact = FALSE]
    /\ UNCHANGED <<v6, target, raw, ping>>

-------------------------------------------------------------------------------
(* The decision.                                                             *)

\* Mutant: one table for both families.
ReasonV4(type, code) ==
    CASE type = 3 /\ code = 0  -> "Network unreachable"
      [] type = 3 /\ code # 0  -> "Destination unreachable"
      [] type = 11             -> "Time exceeded"
      [] OTHER                 -> "none"

Reason(type, code) ==
    IF v6
        THEN CASE type = 1 /\ code = 0           -> "Network unreachable"
               [] type = 1 /\ code = 1           -> "Communication administratively prohibited"
               [] type = 1 /\ code = 3           -> "Host unreachable"
               [] type = 1 /\ code \notin {0, 1, 3} -> "Destination unreachable"
               [] type = 2                       -> "Packet too big"
               [] type = 3                       -> "Time exceeded"
               [] type = 4                       -> "Parameter problem"
               [] OTHER                          -> "none"
        ELSE CASE type = 3 /\ code = 0           -> "Network unreachable"
               [] type = 3 /\ code = 1           -> "Host unreachable"
               [] type = 3 /\ code = 4           -> "Packet too big"
               [] type = 3 /\ code \in {9, 10, 13} -> "Communication administratively prohibited"
               [] type = 3 /\ code \notin {0, 1, 4, 9, 10, 13} -> "Destination unreachable"
               [] type = 11                      -> "Time exceeded"
               [] type = 12                      -> "Parameter problem"
               [] OTHER                          -> "none"

Matches(p) == p.id = Own.id /\ p.seq = Own.seq

\* The pseudo-header has the local address of the probe for its target.
Verifies(m) == m.intact /\ (v6 => m.dest = Own.from)

\* Mutant: the identifier and the sequence number correlate a short quote.
Uncorrelated(p) == TRUE

\* The checksum of a request covers the addresses in IPv6 only.
SameChecksum(p) ==
    /\ p.kind = Own.kind /\ Matches(p) /\ p.payload.sum = Own.payload.sum
    /\ v6 => p.from = Own.from /\ p.to = Own.to

QuotesOwn(m) ==
    /\ m.cut # "stump"
    /\ m.echo.from = Own.from /\ m.echo.to = Own.to
    /\ m.echo.kind = "request"
    /\ Matches(m.echo)
    /\ SameChecksum(m.echo)
    /\ Shown(m.echo, m.cut) = Shown(Own, m.cut)

ParseMessage(m) ==
    IF ~Verifies(m) THEN "none"
    ELSE IF m.type = ReplyType
        THEN IF /\ m.code = 0
                /\ m.source = Own.to
                /\ Matches(m.echo)
                /\ m.echo.payload = Own.payload
                THEN "echo" ELSE "none"
        ELSE IF QuotesOwn(m) THEN Reason(m.type, m.code) ELSE "none"

\* parse: an IPv4 message comes with its header.
RawDecision(m) ==
    IF m.origin = "icmp" /\ (v6 \/ m.dest = Own.from) THEN ParseMessage(m) ELSE "none"

\* A record of the error queue, if the kernel makes one of the message for this
\* socket, which has the identifier and is bound to the local address.
Queued(m) ==
    /\ m.intact /\ m.cut # "stump"
    /\ m.echo.kind = "request" /\ m.echo.id = Own.id /\ m.dest = Own.from

AnyDestination(m) ==  \* Mutant: the record's destination is not compared.
    m.cut # "stump" /\ SameChecksum(m.echo) /\ Shown(m.echo, m.cut) = Shown(Own, m.cut)

\* The quoted bytes are a prefix of the request, for its destination.
RecordsOwn(m) ==
    /\ m.echo.to = Own.to
    /\ m.cut # "stump"
    /\ SameChecksum(m.echo) /\ Shown(m.echo, m.cut) = Shown(Own, m.cut)

ParseError(m) ==
    IF ~RecordsOwn(m) THEN "none"
    ELSE IF m.origin = "icmp" THEN Reason(m.type, m.code)
    ELSE IF m.fault = "size" THEN "Packet too big" ELSE "none"

IsEcho(m) == m.origin = "icmp" /\ m.type \in {RequestType, ReplyType}

\* The kernel hands a ping socket the replies to its identifier, as data, and
\* the errors about its requests, as records.
PingDecision(m) ==
    IF IsEcho(m)
        THEN IF m.type = ReplyType /\ m.intact /\ m.dest = Own.from /\ m.echo.id = Own.id
                THEN ParseMessage(m) ELSE "none"
        ELSE IF Queued(m) THEN ParseError(m) ELSE "none"

Decide ==
    /\ message # None
    /\ raw = Undecided
    /\ raw' = RawDecision(message)
    /\ ping' = PingDecision(message)
    /\ UNCHANGED <<v6, target, message>>

Next == EchoArrives \/ ErrorArrives \/ LocalError \/ Damage \/ Decide

Spec == Init /\ [][Next]_vars

-------------------------------------------------------------------------------

\* The answer to the own request.
OwnReply ==
    [kind |-> "reply", from |-> Own.to, to |-> Own.from, id |-> Own.id, seq |-> Own.seq,
     payload |-> Own.payload]

\* A probe is decided by the target's reply to the request of this attempt or by
\* an error about it, undamaged.  A request that differs in anything but payload
\* bytes that the quote leaves out and the checksum does not see, the answer to
\* one, a request that loops back, and an error about a reply that the host sent
\* itself decide nothing.
OnlyOwnDecides ==
    \A decision \in {raw, ping} \ {Undecided, "none"} :
        /\ message.intact
        /\ IF decision = "echo"
              THEN message.origin = "icmp" /\ message.echo = OwnReply
              ELSE /\ \E p \in Payload : message.echo = [Own EXCEPT !.payload = p]
                   /\ message.echo.payload.sum = Own.payload.sum
                   /\ Shown(message.echo, message.cut) = Shown(Own, message.cut)

\* What a negative answer says.
Named(fault) ==
    CASE fault = "network"    -> "Network unreachable"
      [] fault = "host"       -> "Host unreachable"
      [] fault = "prohibited" -> "Communication administratively prohibited"
      [] fault = "port"       -> "Destination unreachable"
      [] fault = "size"       -> "Packet too big"
      [] fault = "hops"       -> "Time exceeded"
      [] fault = "parameter"  -> "Parameter problem"
      [] OTHER                -> "none"

\* The target's reply to the request decides the probe, and so does an error about
\* it that quotes its header at least; what it says names the fault, whichever of
\* the two families signalled it.  A ping socket also hears of a request that the
\* host itself finds too big, and of no other trouble of the host.
OwnAnswersDecide ==
    raw # Undecided /\ message.intact =>
        /\ message.type = ReplyType /\ message.echo = OwnReply => raw = "echo"
        /\ message.fault # "none" /\ message.echo = Own /\ message.cut # "stump" =>
              Named(message.fault) = IF message.origin = "local" THEN ping ELSE raw

\* A ping socket decides every message as a raw socket does.
TransportsAgree == raw # Undecided /\ message.origin = "icmp" => raw = ping
===============================================================================
