------------------------------ MODULE MacosHeader ------------------------------
(***************************************************************************)
(* IPv4 headers on macOS, normalize_macos_ipv4 and ipv4 of src/packet.rs.  *)
(*                                                                         *)
(* Darwin hands a received IPv4 packet to its raw and datagram ICMP        *)
(* sockets with the length and fragment fields in host order and the       *)
(* header taken off the length, and with the length quoted by an ICMP      *)
(* error in host order too.  Raw::receive puts the wire form back before   *)
(* ipv4 cuts the ICMP message out of the packet, and out of a quote.       *)
(***************************************************************************)
EXTENDS Bytes

CONSTANTS
    Sizes,    \* the sizes of a received packet that are looked at
    Lengths,  \* the lengths a quoted header may state
    Types     \* the ICMP types of a received packet

ASSUME MacosAssumption ==
    /\ Base % 8 = 0
    /\ Sizes \subseteq Word
    /\ Lengths \subseteq Word
    /\ Types \subseteq Byte

VARIABLES
    wire,   \* the packet as it was sent
    bytes,  \* the packet in the buffer of recv_from
    stage   \* "sent", "received", or "normalized"

macosVars == <<wire, bytes, stage>>

\* The machines Darwin runs on are little-endian.
Native(x) == <<x % Base, x \div Base>>

FromNative(f) == f[1] + f[2] * Base

Swapped(f) == Big(FromNative(f))

\* Not a fragment; "do not fragment"; "more fragments"; a later fragment.
Fragments == {<<0, 0>>, <<Base \div 4, 0>>, <<Base \div 8, 0>>, <<0, 1>>}

Header(lengths) ==
    [version : {4, 6}, words : {4, 5, 6}, total : {Big(l) : l \in lengths},
     fragment : Fragments, protocol : {1, 17}]

\* What the kernel gives to an ICMP socket over IPv4.
Delivered == {h \in Header(Sizes) : h.version = 4 /\ h.words >= 5 /\ h.protocol = 1}

\* A packet: its size, its header, its ICMP type, and what stands where an error
\* quotes a header.
Sent ==
    {p \in [size : Sizes, header : Delivered, type : Types, quote : Header(Lengths)] :
        /\ FromBig(p.header.total) = p.size
        /\ p.size >= 4 * p.header.words}

HeaderSize(h) == 4 * h.words

MacosInit ==
    /\ wire \in Sent
    /\ bytes = wire
    /\ stage = "sent"

-------------------------------------------------------------------------------

HeaderWith(h, total, fragment) == [h EXCEPT !.total = total, !.fragment = fragment]

\* A packet with the fields that Darwin changes.
WithFields(p, total, fragment, quoted) ==
    [p EXCEPT !.header = HeaderWith(@, total, fragment), !.quote.total = quoted]

\* What the kernel makes of the packet: of an error of these types it converts the
\* length of whatever stands in the place of the quote, if anything does.
Darwin(p, types) ==
    WithFields(p, Native(FromBig(p.header.total) - HeaderSize(p.header)),
               Native(FromBig(p.header.fragment)),
               IF p.type \in types THEN Native(FromBig(p.quote.total)) ELSE p.quote.total)

\* The types that darwin_received of the tests converts the quote of.
Converted == {3, 11, 12}

ErrorsKnown == {3, 4, 5, 11}  \* Mutant: a type is forgotten.

\* The types that normalize_macos_ipv4 converts the quote of.
Errors == {3, 4, 5, 11, 12}

\* For the types on which the test and the code differ, the kernel may do either.
Receive ==
    /\ stage = "sent"
    /\ \E types \in {Converted, Converted \cup {4, 5}} : bytes' = Darwin(wire, types)
    /\ stage' = "received"
    /\ UNCHANGED wire

HasQuote(p) == p.size >= HeaderSize(p.header) + 28

\* The guards of the code: an error that quotes an IPv4 header.
QuotesIpv4(p) == p.type \in Errors /\ HasQuote(p) /\ p.quote.version = 4

\* The early returns: not an IPv4 header with eight bytes behind it, or a length
\* that no 16-bit field has once the header is added.
Recognized(p) ==
    /\ p.size >= 20 /\ p.header.version = 4
    /\ HeaderSize(p.header) >= 20 /\ p.size >= HeaderSize(p.header) + 8
    /\ FromNative(p.header.total) + HeaderSize(p.header) < Base * Base

NormalForm(p) ==
    IF Recognized(p)
        THEN WithFields(p, Big(FromNative(p.header.total) + HeaderSize(p.header)),
                        Swapped(p.header.fragment),
                        IF QuotesIpv4(p) THEN Swapped(p.quote.total) ELSE p.quote.total)
        ELSE p

Normalize ==
    /\ stage = "received"
    /\ bytes' = NormalForm(bytes)
    /\ stage' = "normalized"
    /\ UNCHANGED wire

MacosNext == Receive \/ Normalize

MacosSpec == MacosInit /\ [][MacosNext]_macosVars

-------------------------------------------------------------------------------

Nothing == <<0, 0>>

\* The mask 0x3fff drops the "do not fragment" flag and the reserved one.
IsFragment(f) == f[1] % (Base \div 4) # 0 \/ f[2] # 0

\* Where ipv4 finds the ICMP message: its first byte and the end of it.
Ipv4(h, size, quoted) ==
    LET first == HeaderSize(h)
        length == FromBig(h.total)
    IN  IF \/ size < 20 \/ h.version # 4 \/ h.protocol # 1
           \/ first < 20 \/ first > size \/ length < first + 8 \/ IsFragment(h.fragment)
           \/ ~quoted /\ length > size
           THEN Nothing
           ELSE <<first, IF length < size THEN length ELSE size>>

\* The types that reason of packet.rs has a name for: no other quote is looked at.
Faults == {3, 11, 12}

\* The message of a packet, and the message its quote holds.
Message(p) == Ipv4(p.header, p.size, FALSE)

QuotedMessage(p) ==
    IF p.type \in Faults /\ Message(p) # Nothing
        THEN Ipv4(p.quote, Message(p)[2] - Message(p)[1] - 8, TRUE)
        ELSE Nothing

\* Every packet is read on macOS as it was sent: the same message is found in it, and
\* the same message in the quote of every error that could decide a probe.  The kernel
\* and normalize_macos_ipv4 need not agree on what they convert: where they differ, in a
\* quote that is too short, not IPv4, or of another type, nothing is read.
ReadAsSent ==
    stage = "normalized" =>
        Message(bytes) = Message(wire) /\ QuotedMessage(bytes) = QuotedMessage(wire)
===============================================================================
