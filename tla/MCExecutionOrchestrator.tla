---------------------- MODULE MCExecutionOrchestrator ----------------------
(* Instance of ExecutionOrchestrator: an install and a server command.     *)
EXTENDS ExecutionOrchestrator

MCCommands == {"install", "serve"}
MCServers == {"serve"}
MCErrors == {"e1", "e2"}
=============================================================================
