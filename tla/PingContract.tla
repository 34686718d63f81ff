----------------------------- MODULE PingContract -----------------------------
(***************************************************************************)
(* Each call of ping() keeps ProbeContract, the promise of engine::probe,  *)
(* though it shares threads, identifiers and sockets' ears with the other  *)
(* calls, and though most of it is not the probe.                          *)
(*                                                                         *)
(* PingSystem shortens the probe of RawProbe and LinuxProbe to send,       *)
(* listen and end; this module shows that what is left keeps the contract  *)
(* those two implement.                                                    *)
(***************************************************************************)
EXTENDS PingSystem

VARIABLE arrived  \* history: the answers to each call's requests that reached the host

callsVars == <<vars, arrived>>

Probe(c) ==
    INSTANCE ProbeContract
    WITH sent <- seq[c], arrived <- arrived[c], outcome <- result[c]

CallsInit ==
    /\ Init
    /\ arrived = [c \in Call |-> {}]

\* An answer is to the call that sent the request, whoever hears it.
Arrive(f, k) ==
    /\ AnswerTo(f, k)
    /\ arrived' = [arrived EXCEPT ![f.owner] = @ \cup {[seq |-> f.seq, kind |-> k]}]

CallsNext ==
    \/ (\E c \in Call : Act(c)) /\ UNCHANGED arrived
    \/ Dispatch /\ UNCHANGED arrived
    \/ \E f \in flight, k \in {"echo", "error"} : Arrive(f, k)
    \/ Tick /\ UNCHANGED arrived

CallsSpec == CallsInit /\ [][CallsNext]_callsVars

-------------------------------------------------------------------------------

\* A ping socket takes the error of another call for its own.
Misled(c) ==
    /\ result[c] = "none" /\ result'[c] = "negative"
    /\ Confused(c, decider'[c])
    /\ [seq |-> seq[c], kind |-> "error"] \in arrived[decider'[c].owner]
    /\ UNCHANGED <<seq[c], arrived[c]>>

\* What a call resolves with was answered, or timed out after the last attempt, or
\* failed: an answer to its latest request arrived, an answer of that very kind, and
\* nothing is sent once the call is decided.  Each call for itself behaves as
\* ProbeContract says, whatever the others do, but for the error that a ping socket
\* cannot tell from its own; over raw sockets there is no exception.
CallsKeepContract ==
    /\ \A c \in Call : Probe(c)!ContractInit
    /\ [][\A c \in Call :
              \/ Probe(c)!ContractNext \/ UNCHANGED Probe(c)!contractVars
              \/ Misled(c)]_callsVars
===============================================================================
