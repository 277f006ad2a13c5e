---------------------------- MODULE MCLifecycle -----------------------------
(***************************************************************************)
(* A BMC that comes to serve two systems, an address of each kind, and an  *)
(* environment of each kind.                                               *)
(***************************************************************************)
EXTENDS HostLifecycle

CONSTANTS m1, m2, none

A(driver, system) ==
  [parsed |-> TRUE, driver |-> driver, endpoint |-> TRUE, system |-> system]

TwoSystems == {m1, m2}
Written == {A("redfish-virtualmedia", none), A("redfish-virtualmedia", m2), A("ipmi", none)}

E(listen, base, timeout) == [listen |-> listen, base |-> base, timeout |-> timeout]

Deployments == {E("unset", "", 0), E("routable", "", 7), E("portless", "", -1)}
=============================================================================
