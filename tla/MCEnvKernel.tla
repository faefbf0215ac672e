------------------------------ MODULE MCEnvKernel ------------------------------
(* Instances of EnvKernel for TLC. *)
EXTENDS EnvKernel

\* rv32_init creates user_icode and fs_serv with priority 1; the second one gets
\* 2 here so that a time slice can outlast one tick.
MCBootPri == <<1, 2>>
================================================================================
