---------------------------- MODULE SampleReports ----------------------------
(***************************************************************************)
(* The report handlers of gracefull_server/http/http_server.go, beside the *)
(* handlers of SampleRates: a report has samples, each of which becomes a  *)
(* row of the database and a point in InfluxDB.  Errors of both are logged *)
(* and the report is answered with 200 all the same.  InfluxDB, external,  *)
(* keeps one point for the same tags and second; the tags of a sample are  *)
(* those of its report, here the same for all, and its uri.                *)
(***************************************************************************)
EXTENDS SampleRates, Sequences

CONSTANTS Reports,    \* the uris of the samples of a report
          NoSample,
          MaxSeconds  \* bound: how far the clock goes

ASSUME ReportsAssumption == Reports \subseteq Seq(Uris) /\ MaxSeconds \in Nat

VARIABLES
  body,    \* the samples of the report each goroutine handles
  at,      \* the one it is at
  rows,    \* samples in the database
  points,  \* the sample in InfluxDB for a uri and second
  influx,  \* InitInflux has succeeded
  second,  \* the time
  answered, failed, wrote  \* history: samples of answered reports; those one of the
                           \* stores has refused; points that were written, with the time

stores == <<body, at, rows, points, influx, second, answered, failed, wrote>>
rates == <<req, seen, config, file, state, history>>
allVars == <<vars, stores>>

Sample == [report : 1..MaxRequests, uri : Uris]
Seconds == 0..MaxSeconds

\* Without the database the process does not start, without InfluxDB it does.
InitDB == rows = {}
InitInflux == influx \in BOOLEAN

ReportsInit == /\ Init
               /\ body = [h \in Handlers |-> <<>>]
               /\ at = [h \in Handlers |-> 1]
               /\ InitDB /\ InitInflux
               /\ points = [k \in Uris \X Seconds |-> NoSample]
               /\ second = 0
               /\ answered = {} /\ failed = {} /\ wrote = {}

Current(h) == body[h][at[h]]
Left(h) == at[h] <= Len(body[h])
-----------------------------------------------------------------------------
\* report_uri_stat and report_uri_stat_json, once the request is decoded.
report_uri_stat(h) ==
  /\ pc[h] = "idle" /\ Accepts(Process[h]) /\ requests < MaxRequests
  /\ requests' = requests + 1
  /\ \E r \in Reports :
       body' = [body EXCEPT ![h] =
         [i \in 1..Len(r) |-> [report |-> requests', uri |-> r[i]]]]
  /\ at' = [at EXCEPT ![h] = 1]
  /\ Goto(h, "rows")
  /\ UNCHANGED <<rates, faults, rows, points, influx, second, answered, failed, wrote>>

\* The sample after one that failed.  Fault: the loop is left at an error.
Leave(h) == Len(body[h]) + 1
Continue(h) == at[h] + 1

Fails(h, store) == /\ faults < MaxFaults
                   /\ faults' = faults + 1
                   /\ failed' = failed \union {<<store, Current(h)>>}
                   /\ at' = [at EXCEPT ![h] = Continue(h)]
                   /\ UNCHANGED <<rows, points, wrote>>

save_db(h) ==
  /\ pc[h] = "rows" /\ Left(h)
  /\ \/ /\ rows' = rows \union {Current(h)}
        /\ at' = [at EXCEPT ![h] = @ + 1]
        /\ UNCHANGED <<faults, points, failed, wrote>>
     \/ Fails(h, "db")
  /\ UNCHANGED <<rates, pc, requests, body, influx, second, answered>>

\* Whatever save_db has returned, the points follow.
RowsSaved(h) == /\ pc[h] = "rows" /\ ~Left(h)
                /\ at' = [at EXCEPT ![h] = 1]
                /\ Goto(h, "points")
                /\ UNCHANGED <<rates, bounds, body, rows, points, influx, second,
                               answered, failed, wrote>>

\* The tags and the time, in seconds, of a point.
Key(s) == <<s.uri, second>>

WritesPoints(h) ==
  /\ pc[h] = "points" /\ Left(h)
  /\ \/ /\ influx
        /\ points' = [points EXCEPT ![Key(Current(h))] = Current(h)]
        /\ wrote' = wrote \union {<<Current(h), second>>}
        /\ at' = [at EXCEPT ![h] = @ + 1]
        /\ UNCHANGED <<faults, rows, failed>>
     \/ influx /\ Fails(h, "influx")
     \/ /\ ~influx
        /\ failed' = failed \union {<<"influx", Current(h)>>}
        /\ at' = [at EXCEPT ![h] = Continue(h)]
        /\ UNCHANGED <<faults, rows, points, wrote>>
  /\ UNCHANGED <<rates, pc, requests, body, influx, second, answered>>

Answer(h) == /\ pc[h] = "points" /\ ~Left(h)
             /\ answered' = answered \union {body[h][k] : k \in DOMAIN body[h]}
             /\ Goto(h, "idle")
             /\ UNCHANGED <<rates, bounds, body, at, rows, points, influx, second,
                            failed, wrote>>

Tick == /\ second < MaxSeconds
        /\ second' = second + 1
        /\ UNCHANGED <<vars, body, at, rows, points, influx, answered, failed, wrote>>
-----------------------------------------------------------------------------
save_sample_rtt_stat(h) == save_db(h) \/ RowsSaved(h) \/ WritesPoints(h)
Report(h) == report_uri_stat(h) \/ save_sample_rtt_stat(h) \/ Answer(h)

ReportsNext == \/ Next /\ UNCHANGED stores
               \/ \E h \in Handlers : Report(h)
               \/ Tick

ReportsSpec == ReportsInit /\ [][ReportsNext]_allVars
-----------------------------------------------------------------------------
\* A report that was answered is in both stores, sample by sample, except for what a
\* store itself has refused: an error of one sample or of one store costs no other.
\* A point, once written, stays, unless another report with the same tags wrote in
\* the same second, and then one of them does.
ReportsKept ==
  /\ \A s \in answered :
       /\ s \in rows \/ <<"db", s>> \in failed
       /\ <<"influx", s>> \in failed \/ \E t \in Seconds : <<s, t>> \in wrote
  /\ \A p \in wrote :
       points[<<p[1].uri, p[2]>>] \in
         {q[1] : q \in {q \in wrote : q[1].uri = p[1].uri /\ q[2] = p[2]}}
=============================================================================
