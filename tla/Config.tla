-------------------------------- MODULE Config --------------------------------
(***************************************************************************)
(* The configuration a start of the server works with: the defaults, the   *)
(* YAML file over them, the environment over both and the command line     *)
(* over all of them.  internal/config/config.go and runServer and runSetup *)
(* of cmd/server/main.go.                                                  *)
(*                                                                         *)
(* One setting stands for all that are treated alike: data_dir for the     *)
(* texts that have a flag (log_level), node_name for those without         *)
(* (listen_addr, sip_domain, log_format, ...), ws_port for the ports with  *)
(* a flag (api_port), sip_port for those without (dht_port), sip_enabled   *)
(* for the switches (triage_enabled), mailbox_max_mb for what only the     *)
(* file sets.                                                              *)
(***************************************************************************)
EXTENDS Integers

Texts    == {"data_dir", "node_name"}
Ports    == {"ws_port", "sip_port"}
Switches == {"sip_enabled"}
InEnv    == Texts \cup Ports \cup Switches
Settings == InEnv \cup {"mailbox_max_mb"}
NoFlags  == [data_dir |-> "", ws_port |-> 0]

Default == [data_dir |-> ".comms", node_name |-> "", ws_port |-> 8443, sip_port |-> 5060,
            sip_enabled |-> FALSE, mailbox_max_mb |-> 512]

\* What `comms-server setup` leaves in the file, whatever was in it before.
Setup == Default

\* A layer over another: the upper one makes its settings, the lower one the rest.
Over(upper, lower) == [f \in DOMAIN upper \cup DOMAIN lower |->
                         IF f \in DOMAIN upper THEN upper[f] ELSE lower[f]]

\* yaml.Unmarshal sets what the file names and leaves the rest.  A file that is
\* not there names nothing.
LoadFromFile(file) == Over(file, Default)

\* strconv.Atoi, on the numbers that an environment below may hold.
Atoi == [text \in {"0", "9443"} |-> IF text = "0" THEN 0 ELSE 9443]

\* Mutant: set the port to the 0 that Atoi answers beside its error.
EnvPortUnchecked(port, text) == IF text \in DOMAIN Atoi THEN Atoi[text] ELSE 0

EnvPort(port, text) == IF text \in DOMAIN Atoi THEN Atoi[text] ELSE port

\* Two texts turn a switch on, any other turns it off.
IsOn(text) == text \in {"true", "1"}

\* A variable that is empty counts as not set.
ApplyEnv(cfg, env) ==
  [f \in Settings |-> IF f \notin InEnv THEN cfg[f]
                      ELSE IF env[f] = ""    THEN cfg[f]
                      ELSE IF f \in Ports    THEN EnvPort(cfg[f], env[f])
                      ELSE IF f \in Switches THEN IsOn(env[f])
                      ELSE env[f]]

\* A flag that is not given, or that is given as its default, changes nothing.
ApplyFlags(cfg, flags) ==
  [f \in Settings |-> IF f \in DOMAIN NoFlags
                      THEN IF flags[f] = NoFlags[f] THEN cfg[f] ELSE flags[f]
                      ELSE cfg[f]]

Load(file, env, flags) == ApplyFlags(ApplyEnv(LoadFromFile(file), env), flags)

(***************************************************************************)
(* Layers of every kind, and the settings each of them makes.              *)
(***************************************************************************)
FileValues == [data_dir |-> "file", node_name |-> "file", ws_port |-> 9000, sip_port |-> 9001,
               sip_enabled |-> TRUE, mailbox_max_mb |-> 1]

Files == {Setup} \cup {[f \in S |-> FileValues[f]] : S \in {{}, Texts, Settings \ Texts}}

Environments == {Over(text, Over(port, switch)) :
                   text   \in [Texts -> {"", "env"}],
                   port   \in [Ports -> {"", "0", "9443", "no number"}],
                   switch \in [Switches -> {"", "1", "yes"}]}

FlagSets == [data_dir : {"", "flag"}, ws_port : {0, 8080}]

EnvLayer(env) ==
  [f \in {g \in InEnv : env[g] # "" /\ (g \in Ports => env[g] \in DOMAIN Atoi)} |->
     IF f \in Ports THEN Atoi[env[f]] ELSE IF f \in Switches THEN IsOn(env[f]) ELSE env[f]]

FlagLayer(flags) == [f \in {g \in DOMAIN NoFlags : flags[g] # NoFlags[g]} |-> flags[f]]

\* "Precedence: CLI flags > env vars > YAML file > defaults" (config.go:14).
Precedence(file, env, flags) ==
  Over(FlagLayer(flags), Over(EnvLayer(env), Over(file, Default)))

===============================================================================
