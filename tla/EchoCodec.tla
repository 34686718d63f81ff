------------------------------- MODULE EchoCodec -------------------------------
(***************************************************************************)
(* Echo messages of src/packet.rs: checksum, checksum_v6, echo, matches    *)
(* and parse_message.                                                      *)
(*                                                                         *)
(* A message is a sequence of bytes, of a byte with Base values, as what a *)
(* one's-complement checksum sees of a message and what it misses is a     *)
(* matter of carries and of odd lengths.  The payload grows byte by byte   *)
(* from nothing, so that every payload up to MaxPayload is looked at.      *)
(***************************************************************************)
EXTENDS Bytes, Sequences

CONSTANTS
    RequestV4,   \* the message types (8, 0, 128, 129)
    ReplyV4,
    RequestV6,
    ReplyV6,
    Local,       \* the addresses of the pseudo-header, each of one word
    Target,
    Ids,         \* the identifiers and sequence numbers that are looked at
    Seqs,
    MaxPayload   \* bound on the payload

ASSUME CodecAssumption ==
    /\ {RequestV4, ReplyV4, RequestV6, ReplyV6} \subseteq Byte
    /\ RequestV4 # ReplyV4 /\ RequestV6 # ReplyV6
    /\ {Local, Target} \subseteq Word
    /\ Ids \subseteq Word /\ Seqs \subseteq Word
    /\ MaxPayload \in Nat /\ MaxPayload + 8 \in Word

VARIABLES
    v6,      \* the address family
    id,      \* the identifier
    seq,     \* the sequence number
    payload  \* the payload

vars == <<v6, id, seq, payload>>

Init ==
    /\ v6 \in BOOLEAN
    /\ id \in Ids
    /\ seq \in Seqs
    /\ payload = <<>>

Extend ==
    /\ Len(payload) < MaxPayload
    /\ \E b \in Byte : payload' = Append(payload, b)
    /\ UNCHANGED <<v6, id, seq>>

Next == Extend

Spec == Init /\ [][Next]_vars

-------------------------------------------------------------------------------
(* The checksum.                                                             *)

\* An odd length is filled up with a zero.
WordOf(bytes, j) ==
    bytes[2 * j - 1] * Base + (IF 2 * j <= Len(bytes) THEN bytes[2 * j] ELSE 0)

Words(bytes) == (Len(bytes) + 1) \div 2

Sum(bytes) ==
    LET sum[j \in 0 .. Words(bytes)] == IF j = 0 THEN 0 ELSE sum[j - 1] + WordOf(bytes, j)
    IN  sum[Words(bytes)]

\* Mutant: the carry is added once, which may carry again.
FoldedOnce(s) == ((s % (Base * Base)) + (s \div (Base * Base))) % (Base * Base)

\* The carries are added until there are none.
Folded(s) ==
    LET fold[x \in 0 .. s] ==
            IF x < Base * Base THEN x ELSE fold[(x % (Base * Base)) + (x \div (Base * Base))]
    IN  fold[s]

Checksum(bytes) == Base * Base - 1 - Folded(Sum(bytes))

\* The pseudo-header: the addresses, the length, and the protocol number.
PseudoHeader(source, target, length) ==
    Big(source) \o Big(target) \o <<0, 0>> \o Big(length) \o <<0, 0, 0, 58 % Base>>

ChecksumV6(source, target, bytes) ==
    Checksum(PseudoHeader(source, target, Len(bytes)) \o bytes)

ChecksumBetween(source, target, bytes) ==
    IF v6 THEN ChecksumV6(source, target, bytes) ELSE Checksum(bytes)

-------------------------------------------------------------------------------
(* Messages.                                                                 *)

\* A message with its checksum filled in.
Signed(source, target, type, data) ==
    LET bare == <<type, 0, 0, 0>> \o Big(id) \o Big(seq) \o data
        sum == Big(ChecksumBetween(source, target, bare))
    IN  [bare EXCEPT ![3] = sum[1], ![4] = sum[2]]

\* echo: the request with this payload.
Echo(data) == Signed(Local, Target, IF v6 THEN RequestV6 ELSE RequestV4, data)

Matches(bytes) ==
    Len(bytes) >= 8 /\ SubSeq(bytes, 5, 6) = Big(id) /\ SubSeq(bytes, 7, 8) = Big(seq)

Unsigned(source, bytes) == TRUE  \* Mutant: the checksum is not verified.

Verifies(source, bytes) == ChecksumBetween(source, Local, bytes) = 0

Rest(bytes) == SubSeq(bytes, 9, Len(bytes))

\* parse_message, for a message that came from source.
AcceptsReply(source, bytes) ==
    /\ Len(bytes) >= 8
    /\ Verifies(source, bytes)
    /\ bytes[1] = IF v6 THEN ReplyV6 ELSE ReplyV4
    /\ bytes[2] = 0
    /\ source = Target
    /\ Matches(bytes)
    /\ Rest(bytes) = payload

\* Mutant: a minimal quote is matched by its identifier and sequence number.
AnyRequest(quoted) == TRUE

SameChecksum(quoted) == SubSeq(quoted, 3, 4) = SubSeq(Echo(payload), 3, 4)

\* parse_message, for the start of a request that an error quotes, once the
\* addresses of the quote are those of the request.
AcceptsQuote(quoted) ==
    /\ Matches(quoted)
    /\ quoted[1] = (IF v6 THEN RequestV6 ELSE RequestV4)
    /\ quoted[2] = 0
    /\ SameChecksum(quoted)
    /\ Len(Rest(quoted)) <= Len(payload)
    /\ Rest(quoted) = SubSeq(payload, 1, Len(Rest(quoted)))

-------------------------------------------------------------------------------

\* What the target answers: the payload comes back under a checksum of its own.
Reply == Signed(Target, Local, IF v6 THEN ReplyV6 ELSE ReplyV4, payload)

\* What an error quotes: the request, cut off anywhere behind its header.
Quotes(request) == {SubSeq(request, 1, k) : k \in 8 .. Len(request)}

\* The target's reply and every quote of the request are accepted, for payloads
\* of any length, odd ones included, and whatever carries their sums have.
OwnAnswersAccepted ==
    /\ AcceptsReply(Target, Reply)
    /\ \A q \in Quotes(Echo(payload)) : AcceptsQuote(q)

\* A reply damaged in one byte is not accepted, be it a byte of the header, the
\* checksum or the payload.
DamageIsSeen ==
    \A j \in 1 .. Len(Reply) : \A b \in Byte \ {Reply[j]} :
        ~AcceptsReply(Target, [Reply EXCEPT ![j] = b])

\* A request that differs in one payload byte has its quotes refused, also those
\* with no payload in them, by its checksum alone.
QuotesAreToldApart ==
    \A j \in 1 .. Len(payload) : \A b \in Byte \ {payload[j]} :
        \A q \in Quotes(Echo([payload EXCEPT ![j] = b])) : ~AcceptsQuote(q)
===============================================================================
