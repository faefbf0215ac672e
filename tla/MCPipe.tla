--------------------------------- MODULE MCPipe ---------------------------------
(* Instances of Pipe: what the envs hold after pipe(), fork() and close(). *)
EXTENDS Pipe

CONSTANTS reader, writer

\* The child has closed its write end, the parent holds both.
Family == [e \in Env |-> [s \in Slot |->
             IF e \in {reader, writer} /\ s = 1 THEN "R"
             ELSE IF e = writer /\ s = 2 THEN "W" ELSE NULL]]
================================================================================
