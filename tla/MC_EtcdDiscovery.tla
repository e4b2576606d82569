------------------------- MODULE MC_EtcdDiscovery -------------------------
\* Small instances of EtcdDiscovery for TLC.
EXTENDS EtcdDiscovery

=============================================================================
