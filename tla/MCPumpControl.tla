---------------------------- MODULE MCPumpControl ----------------------------
EXTENDS PumpControl

MCKindOf == [scan |-> "retune", cal |-> "gain", http |-> "stop"]
MCCallers == DOMAIN MCKindOf
==============================================================================
