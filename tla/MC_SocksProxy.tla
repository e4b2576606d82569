--------------------------- MODULE MC_SocksProxy ---------------------------
\* Small instance of SocksProxy for TLC: two clients.
EXTENDS SocksProxy

Ask(ver, reqVer, cmd, type, name, way) ==
  [ver |-> ver, reqVer |-> reqVer, cmd |-> cmd, type |-> type, name |-> name, way |-> way]

CONSTANTS c1, c2

\* One client stays as long as the remote host does.  The other one may leave at any
\* moment; it asks for a name of ordinary length or of more than 250 characters, for a
\* command or an address type that is not supported or not known, with another version
\* in its greeting or its request, or is eager.
MCRequests ==
  [c \in {c1, c2} |->
     IF c = c1 THEN {Ask(5, 5, 1, 3, 200, "stays")}
     ELSE {Ask(5, 5, 1, 3, 200, "leaves"), Ask(5, 5, 1, 3, 251, "leaves"),
           Ask(5, 5, 2, 1, 0, "leaves"), Ask(5, 5, 9, 1, 0, "leaves"),
           Ask(5, 5, 1, 2, 0, "leaves"), Ask(4, 4, 1, 1, 0, "leaves"),
           Ask(5, 4, 9, 1, 0, "leaves"), Ask(5, 5, 1, 1, 0, "eager")}]
=============================================================================
