--------------------------- MODULE MCAgentRuntime ---------------------------
EXTENDS AgentRuntime
=============================================================================
