----------------------------- MODULE MCAdmission -----------------------------
(* Instances of Admission for TLC. *)
EXTENDS Admission

CONSTANTS r1, r2, r3, r4, r5, a1, a2, mapped, edge, junk, u1, u2

MCReqs == {r1, r2, r3, r4, r5}

\* Two clients, one of them also spelled as an IPv4-mapped IPv6 address, an
\* address of Cloudflare, and a string that is no address.
MCAddresses == {a1, a2, mapped, edge, junk}
MCCanonical == [v \in MCAddresses |-> CASE v = mapped -> a1 [] v = junk -> invalid [] OTHER -> v]

\* What the relay sees of requests of a1 (all but r5) and a2.
MCRemoteAddr == [r \in MCReqs |-> CASE r = r1 -> edge [] r = r2 -> mapped
                                     [] r \in {r3, r4} -> a1 [] r = r5 -> a2]
MCHeader == [r \in MCReqs |-> CASE r \in {r1, r3} -> <<a1>> [] r = r2 -> <<mapped>>
                                 [] r = r4 -> <<a1, a2>> [] r = r5 -> <<junk>>]

\* The requests of one address are of two accounts.
MCUser == [r \in MCReqs |-> IF r \in {r1, r2} THEN u1 ELSE u2]
===============================================================================
