-------------------------------- MODULE MCShell --------------------------------
(* An instance of Shell: lines of up to N commands.                        *)
EXTENDS Shell
================================================================================
