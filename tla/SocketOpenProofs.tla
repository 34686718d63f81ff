--------------------------- MODULE SocketOpenProofs ---------------------------
(***************************************************************************)
(* Theorems about SocketOpen, for any calls, addresses, identifiers and    *)
(* descriptor limit.                                                       *)
(***************************************************************************)
EXTENDS SocketOpen, TLAPS, FiniteSetTheorems

\* Which sockets a call has, by where it is.
SocketsOK(c) ==
    /\ at[c] \in {"create", "fallback", "failed", "closed"} =>
          socket[c] = "none" /\ ~route[c] /\ number[c] = None
    /\ at[c] \in SetupStage \cup {"open"} => socket[c] # "none"
    /\ at[c] \in {"route", "open"} => ~route[c]

\* Which sockets it had: none before the fallback, which only a denial leads to.
HistoryOK(c) ==
    /\ at[c] \in {"create", "fallback"} => had[c] = {}
    /\ at[c] = "fallback" => denied[c] /\ FallsBack(c)
    /\ "datagram" \in had[c] => denied[c] /\ "raw" \notin had[c] /\ FallsBack(c)

\* The address on its way from the route socket to the ICMP socket.
AddressOK(c) ==
    /\ at[c] \in {"bind", "identifier", "timeout", "open"} => local[c] \in Address
    /\ at[c] \in {"identifier", "timeout", "open"} => bound[c] = local[c]

\* The identifier on its way from the kernel to the transport.
IdentityOK(c) ==
    IsPing(c) =>
        /\ at[c] \in {"identifier", "timeout", "open"} => number[c] \in Identifier
        /\ at[c] \in {"timeout", "open"} => id[c] = number[c] /\ recverr[c]

CallOK(c) == SocketsOK(c) /\ HistoryOK(c) /\ AddressOK(c) /\ IdentityOK(c)

NumbersUnique ==
    \A c, d \in Call : c # d /\ number[c] # None => number[c] # number[d]

SInv ==
    /\ TypeOK
    /\ \A c \in Call : CallOK(c)
    /\ NumbersUnique

\* A step that leaves call d alone.
Untouched(d) ==
    /\ at'[d] = at[d] /\ socket'[d] = socket[d] /\ route'[d] = route[d]
    /\ local'[d] = local[d] /\ bound'[d] = bound[d]
    /\ number'[d] = number[d] /\ id'[d] = id[d] /\ recverr'[d] = recverr[d]
    /\ had'[d] = had[d] /\ denied'[d] = denied[d]

\* A call that a step leaves alone stays as it should be.
LEMMA Frame ==
    ASSUME NEW d \in Call, CallOK(d), Untouched(d), UNCHANGED <<platform, v6>>
    PROVE  CallOK(d)'
  <1>1. (FallsBack(d)' <=> FallsBack(d)) /\ (IsPing(d)' <=> IsPing(d))
    BY DEF FallsBack, IsPing, Untouched
  <1> QED
    BY <1>1 DEF CallOK, SocketsOK, HistoryOK, AddressOK, IdentityOK, Untouched

LEMMA Starts == ASSUME Init PROVE SInv
  <1>1. TypeOK
    BY SocketAssumption DEF Init, TypeOK, Stage
  <1>2. ASSUME NEW c \in Call PROVE CallOK(c)
    BY SocketAssumption
       DEF Init, CallOK, SocketsOK, HistoryOK, AddressOK, IdentityOK, SetupStage
  <1>3. NumbersUnique
    BY DEF Init, NumbersUnique
  <1> QED
    BY <1>1, <1>2, <1>3 DEF SInv

\* Each step keeps the invariant of its own call, and leaves the others alone.
LEMMA CreateKeeps == ASSUME SInv, NEW c \in Call, Create(c) PROVE SInv'
  <1> USE DEF SInv
  <1>1. TypeOK'
    <2>1. at' \in [Call -> Stage] /\ denied' \in [Call -> BOOLEAN]
      BY DEF TypeOK, Create, Created, Goto, Stage, SetupStage
    <2>2. /\ socket' \in [Call -> {"none", "raw", "datagram"}]
          /\ had' \in [Call -> SUBSET {"raw", "datagram"}]
      <3>1. ASSUME NEW type \in {"raw", "datagram"}, Created(c, type)
            PROVE  /\ socket' \in [Call -> {"none", "raw", "datagram"}]
                   /\ had' \in [Call -> SUBSET {"raw", "datagram"}]
        <4>1. had[c] \cup {type} \in SUBSET {"raw", "datagram"}
          BY DEF TypeOK
        <4> QED
          BY <3>1, <4>1 DEF TypeOK, Created
      <3> QED
        BY <3>1 DEF TypeOK, Create
    <2> QED
      BY <2>1, <2>2 DEF TypeOK, Create, world, names, history
  <1>2. ASSUME NEW d \in Call, d # c PROVE Untouched(d) /\ UNCHANGED <<platform, v6>>
    BY <1>2 DEF TypeOK, Untouched, Create, Created, Goto, world, names, history
  <1>3. CallOK(c)'
    BY SocketAssumption DEF TypeOK, CallOK, SocketsOK, HistoryOK, AddressOK, IdentityOK, FallsBack, IsPing,
           Create, Created, Goto, SetupStage, world, names, history
  <1>4. NumbersUnique'
    BY SocketAssumption DEF TypeOK, NumbersUnique, Create, Created, names
  <1> QED
    BY <1>1, <1>2, <1>3, <1>4, Frame

LEMMA CreateFailsKeeps == ASSUME SInv, NEW c \in Call, CreateFails(c) PROVE SInv'
  <1> USE DEF SInv
  <1>1. TypeOK'
    BY DEF TypeOK, CreateFails, Goto, Stage, SetupStage, world, names, history
  <1>2. ASSUME NEW d \in Call, d # c PROVE Untouched(d) /\ UNCHANGED <<platform, v6>>
    BY <1>2 DEF TypeOK, Untouched, CreateFails, Goto, world, names, history
  <1>3. CallOK(c)'
    BY SocketAssumption DEF TypeOK, CallOK, SocketsOK, HistoryOK, AddressOK, IdentityOK, FallsBack, IsPing,
           CreateFails, Goto, SetupStage, world, names, history
  <1>4. NumbersUnique'
    BY SocketAssumption DEF TypeOK, NumbersUnique, CreateFails, names
  <1> QED
    BY <1>1, <1>2, <1>3, <1>4, Frame

LEMMA OpenRouteKeeps == ASSUME SInv, NEW c \in Call, OpenRoute(c) PROVE SInv'
  <1> USE DEF SInv
  <1>1. TypeOK'
    BY DEF TypeOK, OpenRoute, Goto, Stage, SetupStage, world, names, history
  <1>2. ASSUME NEW d \in Call, d # c PROVE Untouched(d) /\ UNCHANGED <<platform, v6>>
    BY <1>2 DEF TypeOK, Untouched, OpenRoute, Goto, world, names, history
  <1>3. CallOK(c)'
    BY SocketAssumption DEF TypeOK, CallOK, SocketsOK, HistoryOK, AddressOK, IdentityOK, FallsBack, IsPing,
           OpenRoute, Goto, SetupStage, world, names, history
  <1>4. NumbersUnique'
    BY SocketAssumption DEF TypeOK, NumbersUnique, OpenRoute, names
  <1> QED
    BY <1>1, <1>2, <1>3, <1>4, Frame

LEMMA ConnectKeeps == ASSUME SInv, NEW c \in Call, Connect(c) PROVE SInv'
  <1> USE DEF SInv
  <1>1. TypeOK'
    BY DEF TypeOK, Connect, RouteAddresses, Goto, Stage, SetupStage, world, names, history
  <1>2. ASSUME NEW d \in Call, d # c PROVE Untouched(d) /\ UNCHANGED <<platform, v6>>
    BY <1>2 DEF TypeOK, Untouched, Connect, RouteAddresses, Goto, world, names, history
  <1>3. CallOK(c)'
    BY SocketAssumption DEF TypeOK, CallOK, SocketsOK, HistoryOK, AddressOK, IdentityOK, FallsBack, IsPing,
           Connect, RouteAddresses, Goto, SetupStage, world, names, history
  <1>4. NumbersUnique'
    BY SocketAssumption DEF TypeOK, NumbersUnique, Connect, names
  <1> QED
    BY <1>1, <1>2, <1>3, <1>4, Frame

LEMMA BindKeeps == ASSUME SInv, NEW c \in Call, Bind(c) PROVE SInv'
  <1> USE DEF SInv
  <1>1. TypeOK'
    BY DEF TypeOK, Bind, BindTo, FreeIdentifier, Goto, Stage, SetupStage, world, names, history
  <1>2. ASSUME NEW d \in Call, d # c PROVE Untouched(d) /\ UNCHANGED <<platform, v6>>
    BY <1>2 DEF TypeOK, Untouched, Bind, BindTo, FreeIdentifier, Goto, world, names, history
  <1>3. CallOK(c)'
    BY SocketAssumption DEF TypeOK, CallOK, SocketsOK, HistoryOK, AddressOK, IdentityOK, FallsBack, IsPing,
           Bind, BindTo, FreeIdentifier, Goto, SetupStage, world, names, history
  <1>4. NumbersUnique'
    BY SocketAssumption DEF TypeOK, NumbersUnique, Bind, BindTo, FreeIdentifier, names
  <1> QED
    BY <1>1, <1>2, <1>3, <1>4, Frame

LEMMA IdentifyKeeps == ASSUME SInv, NEW c \in Call, Identify(c) PROVE SInv'
  <1> USE DEF SInv
  <1>1. TypeOK'
    BY DEF TypeOK, Identify, Assigned, Goto, Stage, SetupStage, world, names, history
  <1>2. ASSUME NEW d \in Call, d # c PROVE Untouched(d) /\ UNCHANGED <<platform, v6>>
    BY <1>2 DEF TypeOK, Untouched, Identify, Assigned, Goto, world, names, history
  <1>3. CallOK(c)'
    BY SocketAssumption DEF TypeOK, CallOK, SocketsOK, HistoryOK, AddressOK, IdentityOK, FallsBack, IsPing,
           Identify, Assigned, Goto, SetupStage, world, names, history
  <1>4. NumbersUnique'
    BY SocketAssumption DEF TypeOK, NumbersUnique, Identify, Assigned, names
  <1> QED
    BY <1>1, <1>2, <1>3, <1>4, Frame

LEMMA SetTimeoutKeeps == ASSUME SInv, NEW c \in Call, SetTimeout(c) PROVE SInv'
  <1> USE DEF SInv
  <1>1. TypeOK'
    BY DEF TypeOK, SetTimeout, Goto, Stage, SetupStage, world, names, history
  <1>2. ASSUME NEW d \in Call, d # c PROVE Untouched(d) /\ UNCHANGED <<platform, v6>>
    BY <1>2 DEF TypeOK, Untouched, SetTimeout, Goto, world, names, history
  <1>3. CallOK(c)'
    BY SocketAssumption DEF TypeOK, CallOK, SocketsOK, HistoryOK, AddressOK, IdentityOK, FallsBack, IsPing,
           SetTimeout, Goto, SetupStage, world, names, history
  <1>4. NumbersUnique'
    BY SocketAssumption DEF TypeOK, NumbersUnique, SetTimeout, names
  <1> QED
    BY <1>1, <1>2, <1>3, <1>4, Frame

LEMMA SetupFailsKeeps == ASSUME SInv, NEW c \in Call, SetupFails(c) PROVE SInv'
  <1> USE DEF SInv
  <1>1. TypeOK'
    BY DEF TypeOK, SetupFails, AfterError, Release, Goto, Stage, SetupStage, world, names, history
  <1>2. ASSUME NEW d \in Call, d # c PROVE Untouched(d) /\ UNCHANGED <<platform, v6>>
    BY <1>2 DEF TypeOK, Untouched, SetupFails, AfterError, Release, Goto, world, names, history
  <1>3. CallOK(c)'
    BY SocketAssumption DEF TypeOK, CallOK, SocketsOK, HistoryOK, AddressOK, IdentityOK, FallsBack, IsPing,
           SetupFails, AfterError, Release, Goto, SetupStage, world, names, history
  <1>4. NumbersUnique'
    BY SocketAssumption DEF TypeOK, NumbersUnique, SetupFails, AfterError, Release, names
  <1> QED
    BY <1>1, <1>2, <1>3, <1>4, Frame

LEMMA CloseKeeps == ASSUME SInv, NEW c \in Call, Close(c) PROVE SInv'
  <1> USE DEF SInv
  <1>1. TypeOK'
    BY DEF TypeOK, Close, Release, Goto, Stage, SetupStage, world, names, history
  <1>2. ASSUME NEW d \in Call, d # c PROVE Untouched(d) /\ UNCHANGED <<platform, v6>>
    BY <1>2 DEF TypeOK, Untouched, Close, Release, Goto, world, names, history
  <1>3. CallOK(c)'
    BY SocketAssumption DEF TypeOK, CallOK, SocketsOK, HistoryOK, AddressOK, IdentityOK, FallsBack, IsPing,
           Close, Release, Goto, SetupStage, world, names, history
  <1>4. NumbersUnique'
    BY SocketAssumption DEF TypeOK, NumbersUnique, Close, Release, names
  <1> QED
    BY <1>1, <1>2, <1>3, <1>4, Frame

\* The environment: neither the host's addresses nor the rest of the process
\* disturb a call.
LEMMA EnvironmentKeeps == ASSUME SInv, AddressChanges \/ OthersOpenOrClose PROVE SInv'
  <1> USE DEF SInv
  <1>1. others' \in 0 .. Limit
    <2>1. CASE AddressChanges
      BY <2>1 DEF AddressChanges, TypeOK
    <2>2. CASE OthersOpenOrClose
      <3>1. /\ Cardinality({c \in Call : socket[c] # "none"}) \in Nat
            /\ Cardinality({c \in Call : route[c]}) \in Nat
        BY SocketAssumption, FS_Subset, FS_CardinalityType
      <3> QED
        BY <2>2, <3>1, SocketAssumption DEF OthersOpenOrClose, Spare, InUse, TypeOK
    <2> QED
      BY <2>1, <2>2
  <1>2. TypeOK'
    BY <1>1 DEF TypeOK, AddressChanges, OthersOpenOrClose, names, history
  <1>3. ASSUME NEW d \in Call PROVE Untouched(d) /\ UNCHANGED <<platform, v6>>
    BY DEF Untouched, AddressChanges, OthersOpenOrClose, names, history
  <1>4. NumbersUnique'
    BY DEF NumbersUnique, AddressChanges, OthersOpenOrClose, names
  <1> QED
    BY <1>2, <1>3, <1>4, Frame

LEMMA StutterKeeps == ASSUME SInv, UNCHANGED vars PROVE SInv'
  <1> USE DEF SInv
  <1>1. TypeOK'
    BY DEF TypeOK, vars, world, names, history
  <1>2. ASSUME NEW d \in Call PROVE Untouched(d) /\ UNCHANGED <<platform, v6>>
    BY DEF Untouched, vars, world, names, history
  <1>3. NumbersUnique'
    BY DEF NumbersUnique, vars, names
  <1> QED
    BY <1>1, <1>2, <1>3, Frame

LEMMA StepKeeps == ASSUME SInv, [Next]_vars PROVE SInv'
  <1>1. ASSUME NEW c \in Call, Step(c) \/ Close(c) PROVE SInv'
    BY <1>1, CreateKeeps, CreateFailsKeeps, OpenRouteKeeps, ConnectKeeps, BindKeeps, IdentifyKeeps,
       SetTimeoutKeeps, SetupFailsKeeps, CloseKeeps, Zenon
       DEF Step
  <1> QED
    BY <1>1, EnvironmentKeeps, StutterKeeps, Zenon DEF Next

\* SInv holds in every reachable state.
THEOREM Inductive == Spec => []SInv
  BY Starts, StepKeeps, PTL DEF Spec

\* Every variable keeps its type: in particular open returns an address of the host's,
\* never the unspecified one.
THEOREM TypeCorrect == Spec => []TypeOK
  <1>1. SInv => TypeOK
    BY DEF SInv
  <1> QED
    BY <1>1, Inductive, PTL

\* The source of an open socket's packets is the address that open returned, whatever
\* happened to the host's addresses.
THEOREM SourceTheorem == Spec => []SourceIsExact
  <1>1. ASSUME SInv, NEW c \in Call, Opened(c) PROVE Source(c) = {local[c]}
    BY <1>1, SocketAssumption DEF SInv, CallOK, AddressOK, Opened, Source
  <1>2. SInv => SourceIsExact
    BY <1>1 DEF SourceIsExact
  <1> QED
    BY <1>2, Inductive, PTL

\* An open ping socket queues errors and has the identifier to itself.
THEOREM ReadyTheorem == Spec => []PingSocketsAreReady
  <1>1. ASSUME SInv, NEW c \in Call, Opened(c), IsPing(c)
        PROVE  recverr[c] /\ id[c] = number[c] /\ number[c] \in Identifier
    BY <1>1 DEF SInv, CallOK, IdentityOK, Opened
  <1>2. SInv => PingSocketsAreReady
    BY <1>1, SocketAssumption DEF PingSocketsAreReady, SInv, NumbersUnique
  <1> QED
    BY <1>2, Inductive, PTL

\* The fallback is for calls that were refused a raw socket.
THEOREM FallbackTheorem == Spec => []FallbackOnDenialOnly
  <1>1. SInv => FallbackOnDenialOnly
    BY DEF SInv, TypeOK, CallOK, HistoryOK, FallsBack, FallbackOnDenialOnly
  <1> QED
    BY <1>1, Inductive, PTL

\* No descriptor is left behind, whichever step of whichever call fails.
THEOREM DescriptorsTheorem == Spec => []DescriptorsReturned
  <1>1. SInv => DescriptorsReturned
    BY DEF SInv, CallOK, SocketsOK, DescriptorsReturned, Opened
  <1> QED
    BY <1>1, Inductive, PTL
===============================================================================
