-------------------------- MODULE MC_SampleReports --------------------------
\* Small instance of SampleReports, and of SampleRates in it, for TLC: either reports are
\* stored by the two handlers of one process, which also delete and dump a rate, or
\* there are none, and two processes, parent and child by turns, one with two handlers
\* and one with one, serve all requests for rates.
EXTENDS SampleReports, TLC

CONSTANTS u1, u2, h1, h2, h3, p1, p2
MCReports == {<<u1>>, <<u2>>, <<u1, u2>>, <<u2, u1>>}
MCProcess == h1 :> p1 @@ h2 :> p1 @@ h3 :> p2

\* More than two requests are handled only where there are no reports.
MaxReporting == 2

VARIABLE reporting

MCInit == reporting \in BOOLEAN /\ ReportsInit /\ (influx => reporting)

MCNext == /\ IF reporting
               THEN /\ ReportsNext /\ state'[p2] = "down"
                    /\ \A h \in Handlers : req'[h].op \in {"pull", "del"}
                    /\ requests' <= MaxReporting
               ELSE Next /\ UNCHANGED stores
          /\ UNCHANGED reporting

MCSpec == MCInit /\ [][MCNext]_<<allVars, reporting>>

MCSymmetry == Permutations({h1, h2}) \union Permutations(Uris)
=============================================================================
