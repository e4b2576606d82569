-------------------------- MODULE MC_LogPipeline --------------------------
\* Small instance of LogPipeline for TLC.
EXTENDS LogPipeline

=============================================================================
