---------------------------- MODULE PingSystemMC ----------------------------
\* PingSystem on small constants, for TLC.
EXTENDS PingSystem, TLC

\* Calls are interchangeable, and so are the payloads' shares of a checksum.
Alike == Permutations(Call) \cup Permutations(Share)
==============================================================================
