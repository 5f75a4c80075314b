--------------------------- MODULE MCServerLifecycle ---------------------------
(* ServerLifecycle for TLC, with the configuration that a process starts with. *)
EXTENDS ServerLifecycle, Config

\* A process starts with each setting as the first of its layers that makes it
\* says, whatever it finds in its file, its environment and its command line: a
\* layer that cannot make a setting, or has it in a form that is not understood,
\* neither hides the layers below nor undoes one above (config.go:14, 86-166;
\* main.go:51-80).
StartsAsConfigured ==
  at = "load" => \A file \in Files, env \in Environments, flags \in FlagSets :
                   Load(file, env, flags) = Precedence(file, env, flags)

===============================================================================
