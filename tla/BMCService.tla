----------------------------- MODULE BMCService -----------------------------
(***************************************************************************)
(* A host's BMC address, and the Redfish service behind it, which may      *)
(* serve several computer systems.  The state of the service is external;  *)
(* which of its systems an address reaches is internal/redfish's doing.    *)
(*                                                                         *)
(* Of an address there is what ParseRedfishAddress tells apart: whether    *)
(* BMO's parser takes it, its driver, whether that driver names a Redfish  *)
(* endpoint, and the system its path names.                                *)
(***************************************************************************)
EXTENDS Naturals

CONSTANTS
  Systems,     (* computer systems                              *)
  NoSystem,    (* the path of an address that names none        *)
  Addresses    (* the BMC addresses operators write             *)

Drivers == {"redfish-virtualmedia", "ipmi"}

SupportedBMCSchemes == {"redfish-virtualmedia"}

ASSUME AddressesAssumption ==
  /\ Systems # {} /\ NoSystem \notin Systems
  /\ Addresses \subseteq [parsed : BOOLEAN, driver : Drivers, endpoint : BOOLEAN,
                          system : Systems \cup {NoSystem}]

VARIABLES
  installed,   (* the systems the service serves           *)
  power,       (* whether each system is on                *)
  bmc,         (* the service answers                      *)
  password     (* which password the BMC takes             *)

bmcVars == <<installed, power, bmc, password>>

BMCTypeOK ==
  /\ installed \in SUBSET Systems
  /\ power \in [Systems -> BOOLEAN]
  /\ bmc \in BOOLEAN
  /\ password \in Nat

(* Systems are alike until addresses name them: any may be the first. *)
BMCInit ==
  /\ installed = {CHOOSE s \in Systems : TRUE}
  /\ power = [s \in Systems |-> FALSE]
  /\ bmc = TRUE
  /\ password = 0

-----------------------------------------------------------------------------
NoConn == [usable |-> FALSE, system |-> NoSystem]

ParseRedfishAddress(a) ==
  IF a.parsed /\ a.driver \in SupportedBMCSchemes /\ a.endpoint
  THEN [usable |-> TRUE, system |-> a.system]
  ELSE NoConn

(* Seeded fault: teardown does not ask whether the address is usable. *)
AlwaysUsable(a) == TRUE

UsableBMCAddress(a) == ParseRedfishAddress(a).usable

(* Seeded fault: of several systems it takes whichever is listed first. *)
FirstSystem(named) == {s \in installed : named \in {s, NoSystem}}

(* The system the address reaches: the one it names, or the only one. *)
System(named) ==
  {s \in installed : named = s \/ (named = NoSystem /\ installed = {s})}

(* What a connection with this address and password can operate. *)
WithSystem(address, secret) ==
  IF ParseRedfishAddress(address).usable /\ bmc /\ secret = password
  THEN System(ParseRedfishAddress(address).system)
  ELSE {}

-----------------------------------------------------------------------------
(* The service's own changes. *)
AddSystem ==
  /\ \E s \in Systems \ installed : installed' = installed \cup {s}
  /\ UNCHANGED <<power, bmc, password>>

Fail ==
  /\ bmc /\ bmc' = FALSE
  /\ UNCHANGED <<installed, power, password>>

Recover ==
  /\ ~bmc /\ bmc' = TRUE
  /\ UNCHANGED <<installed, power, password>>
=============================================================================
