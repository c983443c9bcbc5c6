------------------------- MODULE MCRunnerControl ---------------------------
(* The command vocabularies of RunnerControl's runs.                        *)
EXTENDS RunnerControl

MCCommands == VALID_COMMANDS
MCFlatten == {"arm_live", "pause", "flatten_all"}
MCForceDry == {"arm_live", "stop", "force_dry", "flatten_all"}
=============================================================================
