-------------------------- MODULE MC_StunDiscover --------------------------
\* Small instance of StunDiscover for TLC: every NAT with every server; and the
\* packets that client and server exchange, whose format is the same in every state
\* and is therefore looked at in one.
EXTENDS StunDiscover, StunPacket

OneState == kind = "open" /\ server = "complete" /\ asked = {}

\* Requests of every kind arrive as they were built (RequestsArrive).
RequestCarried == OneState => RequestsArrive

\* Responses with any three attributes are understood, and not misread when the buffer
\* cuts them (ResponsesArrive).
ResponsesRead == OneState => ResponsesArrive
=============================================================================
