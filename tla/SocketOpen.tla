------------------------------ MODULE SocketOpen ------------------------------
(***************************************************************************)
(* How concurrent calls open their sockets: open, macos_socket,            *)
(* linux_socket and Raw::from_socket of src/engine.rs, Ping::open of       *)
(* src/linux.rs.                                                           *)
(*                                                                         *)
(* Between two steps the host may gain or lose addresses, and other calls  *)
(* and the rest of the process take descriptors; each step may fail.  A    *)
(* system call that concerns the call's own socket only, like the one for  *)
(* the TTL, is one step with its neighbour: nobody sees what is between    *)
(* them, and its failure is the step's.  An address stands for one of      *)
(* either family: the sockets of a call have one family.                   *)
(***************************************************************************)
EXTENDS Integers, FiniteSets

CONSTANTS
    Call,        \* the calls that open sockets
    Address,     \* the addresses that the host may have
    Identifier,  \* the identifiers that the kernel gives to ping sockets
    Limit,       \* the number of descriptors
    Any,         \* the unspecified address
    None         \* no address or identifier

ASSUME SocketAssumption ==
    /\ IsFiniteSet(Call)
    /\ Limit \in Nat
    /\ Any \notin Address
    /\ None \notin Address \cup {Any} \cup Identifier

VARIABLES
    platform,  \* the operating system
    v6,        \* the family of each call's target
    host,      \* the addresses that the host has now
    others,    \* the number of descriptors the rest of the process has
    at,        \* where open is, in each call
    socket,    \* the type of its ICMP socket
    route,     \* is its route socket open
    local,     \* the address that open returns, for the checksum and for replies
    bound,     \* the address that the ICMP socket is bound to
    number,    \* the identifier the kernel gave to the ping socket
    id,        \* the identifier that the transport uses
    recverr,   \* does the ping socket queue errors
    had,       \* history: the types of the sockets the call created
    denied     \* history: was the call refused a raw socket

world == <<platform, v6, host, others>>
names == <<local, bound, number, id, recverr>>
history == <<had, denied>>
vars == <<world, at, socket, route, names, history>>

SetupStage == {"route", "connect", "bind", "identifier", "timeout"}

Stage == {"create", "fallback", "open", "failed", "closed"} \cup SetupStage

TypeOK ==
    /\ platform \in {"linux", "macos", "windows"}
    /\ v6 \in [Call -> BOOLEAN]
    /\ host \subseteq Address
    /\ others \in 0 .. Limit
    /\ at \in [Call -> Stage]
    /\ socket \in [Call -> {"none", "raw", "datagram"}]
    /\ route \in [Call -> BOOLEAN]
    /\ local \in [Call -> Address \cup {None}]
    /\ bound \in [Call -> Address \cup {Any, None}]
    /\ number \in [Call -> Identifier \cup {None}]
    /\ id \in [Call -> Identifier \cup {None}]
    /\ recverr \in [Call -> BOOLEAN]
    /\ had \in [Call -> SUBSET {"raw", "datagram"}]
    /\ denied \in [Call -> BOOLEAN]

Init ==
    /\ platform \in {"linux", "macos", "windows"}
    /\ v6 \in [Call -> BOOLEAN]
    /\ host \in SUBSET Address
    /\ others = 0
    /\ at = [c \in Call |-> "create"]
    /\ socket = [c \in Call |-> "none"]
    /\ route = [c \in Call |-> FALSE]
    /\ local = [c \in Call |-> None]
    /\ bound = [c \in Call |-> None]
    /\ number = [c \in Call |-> None]
    /\ id = [c \in Call |-> None]
    /\ recverr = [c \in Call |-> FALSE]
    /\ had = [c \in Call |-> {}]
    /\ denied = [c \in Call |-> FALSE]

-------------------------------------------------------------------------------
(* The kernel.                                                               *)

InUse ==
    others + Cardinality({c \in Call : socket[c] # "none"}) + Cardinality({c \in Call : route[c]})

Spare == InUse < Limit

\* Identifiers are exclusive among the open sockets.
FreeIdentifier == {i \in Identifier : \A c \in Call : number[c] # i}

AddressChanges ==
    /\ host' \in SUBSET Address \ {host}
    /\ UNCHANGED <<platform, v6, others, at, socket, route, names, history>>

OthersOpenOrClose ==
    /\ \/ Spare /\ others' = others + 1
       \/ others > 0 /\ others' = others - 1
    /\ UNCHANGED <<platform, v6, host, at, socket, route, names, history>>

-------------------------------------------------------------------------------
(* Creation.                                                                 *)

Goto(c, stage) == at' = [at EXCEPT ![c] = stage]

Created(c, type) ==
    /\ Spare
    /\ socket' = [socket EXCEPT ![c] = type]
    /\ had' = [had EXCEPT ![c] = @ \cup {type}]
    /\ Goto(c, "route")
    /\ UNCHANGED denied

FallsBack(c) == platform = "linux" \/ (platform = "macos" /\ ~v6[c])

\* The kernel looks at permissions first, and for a free descriptor then.
Create(c) ==
    /\ \/ at[c] = "create" /\ Created(c, "raw")
       \/ /\ at[c] = "create"
          /\ denied' = [denied EXCEPT ![c] = TRUE]
          /\ Goto(c, IF FallsBack(c) THEN "fallback" ELSE "failed")
          /\ UNCHANGED <<socket, had>>
       \/ at[c] = "fallback" /\ Created(c, "datagram")
    /\ UNCHANGED <<world, route, names>>

CreateFails(c) ==
    /\ at[c] \in {"create", "fallback"}
    /\ Goto(c, "failed")
    /\ UNCHANGED <<world, socket, route, names, history>>

-------------------------------------------------------------------------------
(* Setup: TTL, route, bind, and on a ping socket identifier and errors.      *)

IsPing(c) == platform = "linux" /\ socket[c] = "datagram"

OpenRoute(c) ==
    /\ at[c] = "route"
    /\ Spare
    /\ route' = [route EXCEPT ![c] = TRUE]
    /\ Goto(c, "connect")
    /\ UNCHANGED <<world, socket, names, history>>

\* The kernel selects one of the host's addresses with the route.
RouteAddresses == host

Connect(c) ==
    /\ at[c] = "connect"
    /\ \E a \in RouteAddresses : local' = [local EXCEPT ![c] = a]
    /\ Goto(c, "bind")
    /\ UNCHANGED <<world, socket, route, bound, number, id, recverr, history>>

BindAny(c) == Any  \* Mutant: the source is left to the kernel.

BindTo(c) == local[c]

\* An address that the host has lost since cannot be bound to.
Bind(c) ==
    /\ at[c] = "bind"
    /\ BindTo(c) \in host \cup {Any}
    /\ bound' = [bound EXCEPT ![c] = BindTo(c)]
    /\ IF IsPing(c)
          THEN /\ \E i \in FreeIdentifier : number' = [number EXCEPT ![c] = i]
               /\ Goto(c, "identifier")
          ELSE Goto(c, "timeout") /\ UNCHANGED number
    /\ UNCHANGED <<world, socket, route, local, id, recverr, history>>

Chosen(c) == CHOOSE i \in Identifier : TRUE  \* Mutant: the application's own identifier.

Assigned(c) == number[c]

Identify(c) ==
    /\ at[c] = "identifier"
    /\ id' = [id EXCEPT ![c] = Assigned(c)]
    /\ recverr' = [recverr EXCEPT ![c] = TRUE]
    /\ Goto(c, "timeout")
    /\ UNCHANGED <<world, socket, route, local, bound, number, history>>

\* The send timeout comes last; the route socket closes as open returns.
SetTimeout(c) ==
    /\ at[c] = "timeout"
    /\ Goto(c, "open")
    /\ route' = [route EXCEPT ![c] = FALSE]
    /\ UNCHANGED <<world, socket, names, history>>

\* Mutant: the route socket is not owned by the function that opened it.
ReleaseSocket(c) ==
    /\ socket' = [socket EXCEPT ![c] = "none"]
    /\ UNCHANGED <<route, names>>

\* The sockets are dropped, and with them what the kernel keeps for them.
Release(c) ==
    /\ socket' = [socket EXCEPT ![c] = "none"]
    /\ route' = [route EXCEPT ![c] = FALSE]
    /\ local' = [local EXCEPT ![c] = None]
    /\ bound' = [bound EXCEPT ![c] = None]
    /\ number' = [number EXCEPT ![c] = None]
    /\ id' = [id EXCEPT ![c] = None]
    /\ recverr' = [recverr EXCEPT ![c] = FALSE]

Switches(c) == IF socket[c] = "raw" THEN "fallback" ELSE "failed"  \* Mutant: setup errors select the fallback.

AfterError(c) == "failed"

SetupFails(c) ==
    /\ at[c] \in SetupStage
    /\ Goto(c, AfterError(c))
    /\ Release(c)
    /\ UNCHANGED <<world, history>>

\* compute has returned.
Close(c) ==
    /\ at[c] = "open"
    /\ Goto(c, "closed")
    /\ Release(c)
    /\ UNCHANGED <<world, history>>

Step(c) ==
    \/ Create(c) \/ CreateFails(c) \/ OpenRoute(c) \/ Connect(c) \/ Bind(c) \/ Identify(c)
    \/ SetTimeout(c) \/ SetupFails(c)

Next == AddressChanges \/ OthersOpenOrClose \/ \E c \in Call : Step(c) \/ Close(c)

Spec == Init /\ [][Next]_vars

-------------------------------------------------------------------------------

Opened(c) == at[c] = "open"

\* The address that the packets of a socket come from.
Source(c) == IF bound[c] = Any THEN host ELSE {bound[c]}

\* Requests leave from the address that is in the ICMPv6 checksum and that replies
\* must have as their destination, whatever becomes of the host's addresses
\* between the look-up and the bind, or later.
SourceIsExact == \A c \in Call : Opened(c) => Source(c) = {local[c]}

\* A ping socket that is open queues errors and uses the kernel's identifier,
\* which no other socket has.
PingSocketsAreReady ==
    \A c \in Call : Opened(c) /\ IsPing(c) =>
        /\ recverr[c]
        /\ id[c] \in Identifier
        /\ \A d \in Call \ {c} : Opened(d) /\ IsPing(d) => id[d] # id[c]

\* A datagram socket is for a call that was refused a raw one and never had one,
\* on the platforms and for the families the fallback exists for; an error of a
\* raw socket's setup, a refusal included, does not switch.
FallbackOnDenialOnly ==
    \A c \in Call : "datagram" \in had[c] =>
        /\ denied[c] /\ "raw" \notin had[c]
        /\ platform # "windows" /\ (v6[c] => platform = "linux")

\* An open call has one descriptor, however it got there; one that failed, at any
\* step, or has closed has none.
DescriptorsReturned ==
    \A c \in Call :
        /\ at[c] \in {"failed", "closed"} => socket[c] = "none" /\ number[c] = None
        /\ at[c] \in {"failed", "closed", "open"} => ~route[c]
        /\ Opened(c) => socket[c] # "none"
===============================================================================
