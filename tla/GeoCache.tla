------------------------------ MODULE GeoCache ------------------------------
(***************************************************************************)
(* scan_ip_net/main.go: the addresses of a login file that are not in the  *)
(* cache are looked up at a service, in batches; what it knows is added to *)
(* the cache, which is saved to a file after every batch.  A file that     *)
(* cannot be read counts as empty.  The service is external: it does not   *)
(* answer, or answers every address of the batch, those of Reserved with a *)
(* failure.  The program may be killed at any time and is started again    *)
(* with another login file.                                                *)
(***************************************************************************)
EXTENDS Naturals, Sequences

CONSTANTS Ips, Reserved,  \* the addresses, and those the service knows nothing of
          Batch,          \* batchSlice
          MaxLines,       \* bound: lines of a login file
          MaxRuns,        \* bound: starts of the program
          MaxFaults       \* bound: saves that fail

ASSUME GeoAssumption == /\ Reserved \subseteq Ips
                        /\ Batch \in Nat \ {0}
                        /\ MaxLines \in Nat /\ MaxRuns \in Nat /\ MaxFaults \in Nat

VARIABLES
  file,      \* the login file
  disk,      \* the addresses in the cache file
  torn,      \* the cache file is not valid JSON
  state,     \* where the program is
  cache,
  lines,     \* the lines to look up
  batch,     \* i of run
  read,      \* history: what this run has been able to read, of "cache" and "logins"
  runs, faults,
  safe       \* history: what saves have completed, of runs that had read the cache,
             \* since one was interrupted

files == <<disk, torn>>
bounds == <<runs, faults>>
geoVars == <<file, files, state, cache, lines, batch, read, bounds, safe>>

LoginFiles == UNION {[1..k -> Ips] : k \in 0..MaxLines}

GeoInit == /\ file \in LoginFiles
           /\ disk = {} /\ torn = FALSE
           /\ state = "down"
           /\ cache = {} /\ lines = <<>> /\ batch = 0
           /\ runs = 0 /\ faults = 0
           /\ read = {} /\ safe = {}
-----------------------------------------------------------------------------
\* A file that is not valid adds nothing.  Fault: it is not read at all.
NothingRead == {}
Loaded == IF torn THEN {} ELSE disk

\* When the file cannot be read, that is logged and the program goes on.
loadFromCache == \/ cache' = cache \union Loaded /\ read' = read \union {"cache"}
                 \/ UNCHANGED <<cache, read>>

\* The lines that are not known, in order.
AddNew(known, res, ip) == IF ip \in known THEN res ELSE Append(res, ip)

getNoCacheIp(known) ==
  LET res[k \in 0..Len(file)] == IF k = 0 THEN <<>> ELSE AddNew(known, res[k - 1], file[k])
  IN  res[Len(file)]

\* init and main load the cache, one after the other.
Start == /\ state = "down" /\ runs < MaxRuns
         /\ runs' = runs + 1
         /\ loadFromCache
         /\ state' = "init"
         /\ UNCHANGED <<file, files, lines, batch, faults, safe>>

LoadAgain == /\ state = "init"
             /\ loadFromCache
             /\ state' = "main"
             /\ UNCHANGED <<file, files, lines, batch, bounds, safe>>

\* A login file that cannot be opened has no lines.
readLines == /\ state = "main"
             /\ \/ lines' = getNoCacheIp(cache) /\ read' = read \union {"logins"}
                \/ lines' = <<>> /\ UNCHANGED read
             /\ state' = "ask"
             /\ UNCHANGED <<file, files, cache, batch, bounds, safe>>

\* The number of batches, of which the last one may not be full.
loop(k) == (k + Batch - 1) \div Batch

End == IF (batch + 1) * Batch < Len(lines) THEN (batch + 1) * Batch ELSE Len(lines)
Asked == {lines[k] : k \in (batch * Batch + 1)..End}

\* After a failure the same batch is asked again.  Fault: the next one is.
GoOn(b) == b + 1
Again(b) == b

buildRequestFails == /\ state = "ask" /\ batch < loop(Len(lines))
                     /\ batch' = Again(batch)
                     /\ UNCHANGED <<file, files, state, cache, lines, read, bounds, safe>>

saveGEOToCache == /\ state = "ask" /\ batch < loop(Len(lines))
                  /\ cache' = cache \union (Asked \ Reserved)
                  /\ state' = "save"
                  /\ UNCHANGED <<file, files, lines, batch, read, bounds, safe>>

\* WriteFile truncates the file, then writes it.
Truncate == /\ state = "save"
            /\ torn' = TRUE
            /\ state' = "write"
            /\ UNCHANGED <<file, disk, cache, lines, batch, read, bounds, safe>>

Write == /\ state = "write"
         /\ disk' = cache /\ torn' = FALSE
         /\ safe' = IF "cache" \in read THEN safe \union cache ELSE cache
         /\ batch' = batch + 1 /\ state' = "ask"
         /\ UNCHANGED <<file, cache, lines, read, bounds>>

\* It cannot be opened, or not be written.  That is logged, and the next batch is next.
saveCacheFails == /\ state \in {"save", "write"} /\ faults < MaxFaults
                  /\ faults' = faults + 1
                  /\ safe' = IF torn THEN {} ELSE safe
                  /\ batch' = batch + 1 /\ state' = "ask"
                  /\ UNCHANGED <<file, files, cache, lines, read, runs>>

Finish == /\ state = "ask" /\ batch >= loop(Len(lines))
          /\ state' = "finished"
          /\ UNCHANGED <<file, files, cache, lines, batch, read, bounds, safe>>

\* The program is gone, killed or finished, and a new login file is there.
Ended == /\ state # "down" /\ runs < MaxRuns
         /\ state' = "down"
         /\ safe' = IF torn THEN {} ELSE safe
         /\ cache' = {} /\ lines' = <<>> /\ batch' = 0 /\ read' = {}
         /\ file' \in LoginFiles
         /\ UNCHANGED <<files, bounds>>

GeoNext == \/ Start \/ LoadAgain \/ readLines
           \/ buildRequestFails \/ saveGEOToCache
           \/ Truncate \/ Write \/ saveCacheFails \/ Finish \/ Ended

GeoSpec == GeoInit /\ [][GeoNext]_geoVars
-----------------------------------------------------------------------------
\* When the program has finished, every address of a login file it could open that the
\* service knows is in the cache, although requests have failed, and however the lines
\* fall into batches; and in the cache file, unless a save has failed.
RunComplete ==
  state = "finished" /\ "logins" \in read =>
    \A k \in DOMAIN file :
      file[k] \notin Reserved =>
        file[k] \in cache /\ (faults = 0 => ~torn /\ file[k] \in disk)

\* What was saved is still in the cache file, whichever other login files the program
\* was run for since, unless a save was interrupted or has failed, or one is of a run
\* that could not read the file, either time, and has gone on without.
SavedKept == torn \/ safe \subseteq disk

=============================================================================
