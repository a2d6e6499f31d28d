----------------------------- MODULE MCAgentChat -----------------------------
EXTENDS AgentChat
=============================================================================
