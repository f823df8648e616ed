----------------------------- MODULE MCHandoff -----------------------------
(* Model-checking instance of Handoff: one client connection, three       *)
(* servers of which s1 and s2 share a local address (two workers bound    *)
(* with SO_REUSEPORT), s3 on an address of its own.                       *)
EXTENDS Handoff

CONSTANTS s1, s2, s3, p1

MCAddr == [s \in {s1, s2, s3} |-> IF s = s3 THEN "B" ELSE "A"]

\* Addresses, ports and header words at the 16-bit edges, where the
\* end-around carry of the checksum arithmetic comes into play:
\* A = 255.255.0.1, B = 0.0.255.254, ports 65535 and 1.
MCIpOf == [a \in {"A", "B"} |-> IF a = "A" THEN <<65535, 1>> ELSE <<0, 65534>>]
MCPortOf == [a \in {"A", "B"} |-> IF a = "A" THEN 65535 ELSE 1]
MCHeaderWords == {0, 1, 65535}
====
