--------------------------- MODULE MC_SampleRates ---------------------------
\* Small instance of SampleRates for TLC: two processes, parent and child by turns,
\* one with two handlers and one with one, for the run with -conf.
EXTENDS SampleRates, TLC

CONSTANTS h1, h2, h3, p1, p2
MCProcess == h1 :> p1 @@ h2 :> p1 @@ h3 :> p2
=============================================================================
