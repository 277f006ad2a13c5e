--------------------------- MODULE PluginFactory ----------------------------
(***************************************************************************)
(* Loading the plugin: the environment becomes a configuration, and the    *)
(* factory starts the listener the configuration asks for.                 *)
(***************************************************************************)
EXTENDS Integers

CONSTANTS
  Environments,            (* what a deployment may set              *)
  DefaultInstallTimeout

Listen == {"unset", "routable", "wildcard", "portless"}
Bases == {"", "loopback", "dialable"}

(* A duration that does not parse is no positive one; 0 stands for both, *)
(* and for one that is not set.                                          *)
ASSUME EnvironmentsAssumption ==
  /\ Environments \subseteq [listen : Listen, base : {"", "dialable"}, timeout : Int]
  /\ DefaultInstallTimeout \in Nat \ {0}

VARIABLES
  cfg,                (* core.Config                                *)
  CallbackEnabled,    (* the factory's field of this name           *)
  listening           (* the listener's socket is bound             *)

pluginVars == <<cfg, CallbackEnabled, listening>>

(* Seeded fault: whatever parses is taken. *)
AnyDuration(raw, def) == raw

EnvDuration(raw, def) == IF raw <= 0 THEN def ELSE raw

BaseURLFor(listen) ==
  CASE listen = "portless" -> ""
    [] listen = "wildcard" -> "loopback"
    [] OTHER -> "dialable"

LoadConfig(env) ==
  [listen |-> env.listen,
   base |-> IF env.base = "" /\ env.listen # "unset" THEN BaseURLFor(env.listen) ELSE env.base,
   timeout |-> EnvDuration(env.timeout, DefaultInstallTimeout)]

Enabled(config) == config.listen # "unset"

(* Whether the socket can be bound is the cluster's business, but nothing *)
(* binds an address without a port.                                       *)
Start(config) == IF Enabled(config) /\ config.listen # "portless" THEN BOOLEAN ELSE {FALSE}

(* Seeded fault: the field follows the bind. *)
EnabledByBind(config, bound) == Enabled(config) /\ bound

(* CallbackEnabled follows the configuration, whether or not Start bound. *)
EnabledBy(config, bound) == Enabled(config)

PluginTypeOK ==
  /\ cfg \in [listen : Listen, base : Bases, timeout : Nat \ {0}]
  /\ CallbackEnabled \in BOOLEAN
  /\ listening \in BOOLEAN

PluginInit ==
  /\ \E env \in Environments : cfg = LoadConfig(env)
  /\ listening \in Start(cfg)
  /\ CallbackEnabled = EnabledBy(cfg, listening)

(* The controller's process restarts in the same environment. *)
Reload ==
  /\ listening' \in Start(cfg)
  /\ CallbackEnabled' = EnabledBy(cfg, listening')
  /\ UNCHANGED cfg

(* A kickstart can be fetched and a report posted. *)
Dialable == listening /\ cfg.base = "dialable"
=============================================================================
