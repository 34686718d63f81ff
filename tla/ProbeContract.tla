---------------------------- MODULE ProbeContract ----------------------------
(***************************************************************************)
(* What engine::probe promises its caller, whatever transport carries it.  *)
(*                                                                         *)
(* It sends at most Attempts Echo requests, one after the other.  Only an  *)
(* answer to the latest of them, and one that really arrived, decides the  *)
(* probe; it gives up after the last request only; it settles once.        *)
(***************************************************************************)
EXTENDS Integers

CONSTANT Attempts  \* Options.attempts

VARIABLES
    sent,     \* how many requests were sent; the latest has this sequence number
    arrived,  \* the answers that reached this host
    outcome   \* "none" while the probe runs

contractVars == <<sent, arrived, outcome>>

\* An Echo Reply, or an ICMP error that quotes the request.
Kind == {"echo", "error"}

Answer == [seq : 1 .. Attempts, kind : Kind]

Pending == outcome = "none"

ContractInit ==
    /\ sent = 0
    /\ arrived = {}
    /\ outcome = "none"

Request ==
    /\ Pending
    /\ sent < Attempts
    /\ sent' = sent + 1
    /\ UNCHANGED <<arrived, outcome>>

\* The network delivers an answer: late, again, or never.
Arrive ==
    /\ \E a \in Answer : a.seq <= sent /\ arrived' = arrived \cup {a}
    /\ UNCHANGED <<sent, outcome>>

\* The probe settles.  The operating system may report an unreachable network
\* or fail at any time; the network decides through an answer only.
Conclude ==
    /\ Pending
    /\ \/ /\ [seq |-> sent, kind |-> "echo"] \in arrived
          /\ outcome' = "success"
       \/ /\ [seq |-> sent, kind |-> "error"] \in arrived
          /\ outcome' = "negative"
       \/ /\ sent = Attempts
          /\ outcome' = "timeout"
       \/ outcome' \in {"unreachable", "rejected"}
    /\ UNCHANGED <<sent, arrived>>

ContractNext == Request \/ Arrive \/ Conclude

ContractSpec == ContractInit /\ [][ContractNext]_contractVars
==============================================================================
