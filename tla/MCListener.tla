----------------------------- MODULE MCListener -----------------------------
(***************************************************************************)
(* Two hosts.  The second may declare the first one's address, no address, *)
(* no usable hint, or no kickstart.                                        *)
(***************************************************************************)
EXTENDS Listener, TLC

CONSTANTS a, b, c, sda, none, q1, q2

TwoHosts == {1, 2}
ThreeMACs == {a, b, c}
OneDisk == {sda}
TwoRequests == {q1, q2}
Interchangeable == Permutations(TwoRequests)
Reported == <<{a, b}, {c}>>

S(mac, disk, kickstart) == <<[mac |-> mac, disk |-> disk], kickstart>>

Specs == <<{S(none, sda, "plain"), S(a, sda, "templated"), S(a, none, "templated")},
           {S(c, sda, "plain"), S(a, sda, "none")}>>
=============================================================================
