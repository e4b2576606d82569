-------------------------- MODULE MC_LogRotation --------------------------
\* Small instances of LogRotation for TLC.
EXTENDS LogRotation

=============================================================================
