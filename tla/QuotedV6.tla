------------------------------- MODULE QuotedV6 -------------------------------
(***************************************************************************)
(* quoted_v6 of src/packet.rs: the walk over the extension headers of an   *)
(* IPv6 packet that an ICMPv6 error quotes, to the Echo request in it.     *)
(*                                                                         *)
(* Extension headers are multiples of four bytes long and the walk reads   *)
(* no more of one than its first four, so a packet is a sequence of words. *)
(* It is counted from the end of the fixed header.  A sender lays a packet *)
(* out header by header, a router cuts its quote off anywhere, and a word  *)
(* that is no header's first looks like one that an ICMPv6 message follows. *)
(***************************************************************************)
EXTENDS Integers, Sequences

CONSTANTS
    MaxHeaders,  \* bound on the extension headers of a packet
    MaxLength,   \* bound on a header's length field (255)
    Rounds       \* the headers the walk looks at, the last included (16)

ASSUME QuotedAssumption ==
    /\ MaxHeaders \in Nat
    /\ MaxLength \in Nat
    /\ Rounds \in Nat \ {0}

VARIABLES
    chain,      \* the extension headers of the packet, first to last
    starts,     \* where each begins, and at last where they end
    upper,      \* the protocol they carry
    available,  \* the words that the quote has and its length field admits
    next,       \* the type of the header at offset
    offset,     \* where the walk is
    rounds,     \* the headers it looked at
    result      \* "sending", "walking", or what quoted_v6 returned

packet == <<chain, starts, upper>>
vars == <<packet, available, next, offset, rounds, result>>

Extension == {"options", "fragment", "auth"}

Upper == {"icmp6", "tcp"}

\* "part" says that a fragment header has an offset or the more-fragments flag.
Header ==
    [type : {"options", "auth"}, length : 0 .. MaxLength, part : {FALSE}]
        \cup [type : {"fragment"}, length : {0}, part : BOOLEAN]

Init ==
    /\ chain = <<>>
    /\ starts = <<0>>
    /\ upper \in Upper
    /\ available = 0
    /\ next = upper
    /\ offset = 0
    /\ rounds = 0
    /\ result = "sending"

-------------------------------------------------------------------------------
(* The packet.                                                               *)

\* The size of a header, in words: RFC 8200 counts in units of eight bytes
\* without the first, RFC 4302 in units of four without the first two.
SizeOf(h) ==
    CASE h.type = "auth"     -> h.length + 2
      [] h.type = "options"  -> 2 * (h.length + 1)
      [] h.type = "fragment" -> 2

End == starts[Len(chain) + 1]

TypeAfter(k) == IF k = Len(chain) THEN upper ELSE chain[k + 1].type

AddHeader ==
    /\ result = "sending"
    /\ Len(chain) < MaxHeaders
    /\ \E h \in Header :
          /\ chain' = Append(chain, h)
          /\ starts' = Append(starts, End + SizeOf(h))
    /\ UNCHANGED <<upper, available, next, offset, rounds, result>>

\* The first header's type is in the fixed header.
Quote ==
    /\ result = "sending"
    /\ available' \in 0 .. End + 2
    /\ next' = TypeAfter(0)
    /\ result' = "walking"
    /\ UNCHANGED <<packet, offset, rounds>>

Filler == [next |-> "icmp6", length |-> 0, part |-> FALSE]

\* The word of the packet at an offset.
WordAt(o) ==
    IF \E k \in 1 .. Len(chain) : starts[k] = o
        THEN LET k == CHOOSE k \in 1 .. Len(chain) : starts[k] = o
             IN  [next |-> TypeAfter(k), length |-> chain[k].length, part |-> chain[k].part]
        ELSE Filler

-------------------------------------------------------------------------------
(* The walk.                                                                 *)

Return(r) == result' = r /\ UNCHANGED <<next, offset>>

\* Mutant: the authentication header is counted like the others.
SizeLikeOptions(type, w) == IF type = "fragment" THEN 2 ELSE 2 * (w.length + 1)

\* The size the walk takes, in words, of a header of this type.
Size(type, w) ==
    CASE type = "options"  -> 2 * (w.length + 1)
      [] type = "fragment" -> 2
      [] type = "auth"     -> w.length + 2

Unchecked(o) == TRUE  \* Mutant: the end of the packet is not looked at.

Inside(o) == o <= available

\* The walk does not go on: no header that it knows, too short a rest, a fragment,
\* or a header that is longer than the rest.
Stops(w) ==
    \/ next \notin Extension
    \/ available - offset < 2
    \/ next = "fragment" /\ w.part
    \/ ~Inside(offset + Size(next, w))

\* One round of the loop.
Look ==
    /\ result = "walking"
    /\ rounds < Rounds
    /\ rounds' = rounds + 1
    /\ LET w == WordAt(offset)
       IN  IF next = "icmp6" THEN Return("found")
           ELSE IF Stops(w) THEN Return("none")
           ELSE /\ next' = w.next
                /\ offset' = offset + Size(next, w)
                /\ UNCHANGED result
    /\ UNCHANGED <<packet, available>>

GiveUp ==
    /\ result = "walking"
    /\ rounds = Rounds
    /\ Return("none")
    /\ UNCHANGED <<packet, available, rounds>>

Next == AddHeader \/ Quote \/ Look \/ GiveUp

Spec == Init /\ [][Next]_vars

-------------------------------------------------------------------------------

\* The walk never leaves the packet, wherever it was cut off and whatever the
\* length fields say.
TypeOK ==
    /\ chain \in Seq(Header)
    /\ starts \in Seq(Nat) /\ Len(starts) = Len(chain) + 1
    /\ upper \in Upper
    /\ available \in Nat
    /\ next \in Extension \cup Upper
    /\ offset \in 0 .. available
    /\ rounds \in 0 .. Rounds
    /\ result \in {"sending", "walking", "found", "none"}

\* The packet has an ICMPv6 message at its start, not in a fragment, its headers
\* are all there, and there are not too many of them.
HasMessage ==
    /\ upper = "icmp6"
    /\ \A k \in 1 .. Len(chain) : ~chain[k].part
    /\ End <= available
    /\ Len(chain) < Rounds

\* The walk finds the message the sender put there, and nothing else: neither
\* the body of a fragment nor the inside of a header passes for it.
FindsMessage ==
    /\ result = "found" => HasMessage /\ offset = End
    /\ result = "none" => ~HasMessage
===============================================================================
