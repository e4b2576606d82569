------------------------------ MODULE MC_Batch ------------------------------
\* Small instances for TLC of the two programs that read a file and end: FileParts
\* and GeoCache.  They have nothing in common, and only one of them runs.
EXTENDS FileParts, GeoCache


Init == \/ PartsInit /\ GeoInit /\ file = <<>>
        \/ PartsInit /\ GeoInit /\ ~there /\ spaces = {} /\ size = 0 /\ file # <<>>

Next == \/ file = <<>> /\ runs = 0 /\ PartsNext /\ UNCHANGED geoVars
        \/ ~there /\ main = "spawn" /\ spawned = 0 /\ GeoNext /\ UNCHANGED partVars

Spec == Init /\ [][Next]_<<partVars, geoVars>>
=============================================================================
