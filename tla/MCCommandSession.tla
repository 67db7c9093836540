-------------------------- MODULE MCCommandSession --------------------------
(* Model-checking instance of CommandSession: bytes are told apart by message *)
(* and position, the sizes are in the cfg. *)
EXTENDS CommandSession

CONSTANTS RequestLen, ResponseLen

MCBodyLen == [m \in Msgs |-> IF m = "request" THEN RequestLen ELSE ResponseLen]
MCByte == {Zero} \cup (Msgs \X (1 .. HeaderLen + RequestLen + ResponseLen))
=============================================================================
