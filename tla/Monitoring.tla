------------------------------ MODULE Monitoring ------------------------------
(****************************************************************************)
(* The monitoring HTTP server (monitoring.rs), the health checker           *)
(* (monitoring/health.rs) and the log rotation they share the process with. *)
(* Each connection is a task: one read, one handler, one response.          *)
(*                                                                          *)
(* The storage check sets, gets and deletes one fixed key of the store the  *)
(* clients use, through three separate calls, so checks disturb each other, *)
(* FLUSHDB disturbs them, and BGREWRITEAOF can write the key to the AOF.    *)
(****************************************************************************)
EXTENDS LogRotation

CONSTANTS
    MaxRequests,     \* bound: requests served over all connections
    MaxClientCalls,  \* bound: client commands that touch the test key
    MaxCount         \* bound: connections accepted, rejected

VARIABLES
    http,        \* connection -> where its handler stands, and its reply
    testKey,     \* the value of __health_check_test__ in the store
    testKeyAof,  \* the value the AOF would restore
    wiped,       \* auxiliary: checks whose key was changed by someone else
    served,      \* requests taken up
    clientCalls  \* client commands issued

wvars == <<http, testKey, testKeyAof, wiped, served, clientCalls>>
mvars == <<lvars, wvars>>

-----------------------------------------------------------------------------
(* Routing *)

\* The request lines that occur, by the longest route they begin with.
RequestLines == {"GET /health", "GET /health/ready", "GET /health/live",
    "GET /metrics", "GET /metrics/summary", "POST /logs/rotate",
    "GET /logs/status", "other"}

\* starts_with is tried in order, so the two longer health routes and the
\* summary are answered by the handler of their prefix.
handle_request(line_) ==
    CASE line_ \in {"GET /health", "GET /health/ready", "GET /health/live"} ->
            "set"
      [] line_ \in {"GET /metrics", "GET /metrics/summary"} -> "metrics"
      [] line_ = "POST /logs/rotate" -> "rotate"
      [] line_ = "GET /logs/status" -> "log_status"
      [] line_ = "other" -> "not_found"

Closed == [at |-> "closed", reply |-> 0, unhealthy |-> {}]
Checks == {"get", "delete"}

MonitoringInit ==
    /\ RotationInit
    /\ http = [r \in Requests |-> Closed]
    /\ testKey = "absent"
    /\ testKeyAof = "absent"
    /\ wiped = {}
    /\ served = 0
    /\ clientCalls = 0

Handling(r, step) == http[r].at = step
Goes(r, step) == http' = [http EXCEPT ![r].at = step]

Unused(r) == http[r].at \in {"closed", "done"}

\* The response is written and the stream dropped.
Respond(r, code) == http' = [http EXCEPT ![r].at = "done", ![r].reply = code]

\* A connection is accepted and its one read returns.  No bytes: no response.
Accept(r) ==
    /\ Unused(r)
    /\ served < MaxRequests
    /\ served' = served + 1
    /\ \/ /\ \E l \in RequestLines :
                http' = [http EXCEPT
                            ![r] = [Closed EXCEPT !.at = handle_request(l)]]
          /\ IF http'[r].at = "rotate"
             THEN rot' = [rot EXCEPT ![r] = [Idle EXCEPT !.at = "begin"]]
             ELSE UNCHANGED rot
       \/ /\ http' = [http EXCEPT ![r] = Closed]
          /\ UNCHANGED rot
    /\ wiped' = wiped \ {r}
    /\ UNCHANGED <<policy, files, line, now, life, last_rotation, faults,
                   damage,
                   testKey, testKeyAof, clientCalls>>

-----------------------------------------------------------------------------
(* Health checks *)

\* Others whose check is between its set and its get.
Disturbed(r) == {q \in Requests \ {r} : Handling(q, "get")}

check_storage_set(r) ==
    /\ Handling(r, "set")
    /\ testKey' = "probe"
    /\ Goes(r, "get")
    /\ UNCHANGED <<lvars, testKeyAof, wiped, served, clientCalls>>

\* Found: the key is then deleted.  Missing or different: unhealthy, and the key
\* is left as it is.
check_storage_get(r) ==
    /\ Handling(r, "get")
    /\ IF testKey = "probe" THEN Goes(r, "delete")
       ELSE http' = [http EXCEPT ![r].at = "rest", ![r].unhealthy = {"storage"}]
    /\ UNCHANGED <<lvars, testKey, testKeyAof, wiped, served, clientCalls>>

\* Mutant of check_storage_delete: the test key is not cleaned up.
check_storage_delete_leaves(r) ==
    /\ Handling(r, "delete")
    /\ Goes(r, "rest")
    /\ UNCHANGED <<lvars, testKey, testKeyAof, wiped, served, clientCalls>>

check_storage_delete(r) ==
    /\ Handling(r, "delete")
    /\ testKey' = "absent"
    /\ wiped' = wiped \cup Disturbed(r)
    /\ Goes(r, "rest")
    /\ UNCHANGED <<lvars, testKeyAof, served, clientCalls>>

\* More than half of the connection attempts rejected, more than a fifth, fewer.
check_network_health(accepted, rejected) ==
    IF 100 * rejected > 50 * (accepted + rejected) THEN "unhealthy"
    ELSE IF 100 * rejected > 20 * (accepted + rejected) THEN "degraded"
    ELSE "healthy"

\* check_metrics_health always finds health, and so does check_memory_health,
\* since the server records no memory usage.  The disk check writes a file of
\* its own and ignores the outcome of removing it.  The connection counters
\* are whatever the server has counted by then.
check_rest(r) ==
    /\ Handling(r, "rest")
    /\ \E disk \in {{}, {"disk"}}, accepted, rejected \in 0..MaxCount :
         /\ disk # {} => faults < MaxFaults
         /\ faults' = faults + Cardinality(disk)
         /\ http' = [http EXCEPT ![r].at = "summary",
              ![r].unhealthy = @ \cup disk \cup
                 (IF check_network_health(accepted, rejected) = "healthy"
                  THEN {} ELSE {"network"})]
    /\ UNCHANGED <<policy, files, line, now, life, last_rotation, rot, damage,
                   testKey, testKeyAof, wiped, served, clientCalls>>

\* Five components; anything but all of them healthy is reported as 503.
Components == {"storage", "metrics", "memory", "disk", "network"}
overall_status(unhealthy) ==
    IF unhealthy = {} THEN "healthy"
    ELSE IF Cardinality(Components \ unhealthy) > Cardinality(unhealthy)
         THEN "degraded" ELSE "unhealthy"

handle_health_check(r) ==
    /\ Handling(r, "summary")
    /\ Respond(r, IF overall_status(http[r].unhealthy) = "healthy"
                  THEN 200 ELSE 503)
    /\ UNCHANGED <<lvars, testKey, testKeyAof, wiped, served, clientCalls>>

-----------------------------------------------------------------------------
(* The other handlers *)

\* GET /metrics formats one snapshot and four further reads (module Metrics).
handle_metrics_request(r) ==
    /\ Handling(r, "metrics")
    /\ Respond(r, 200)
    /\ UNCHANGED <<lvars, testKey, testKeyAof, wiped, served, clientCalls>>

\* get_status only refreshes what it reports.
handle_log_status(r) ==
    /\ Handling(r, "log_status")
    /\ Respond(r, 200)
    /\ UNCHANGED <<lvars, testKey, testKeyAof, wiped, served, clientCalls>>

handle_not_found(r) ==
    /\ Handling(r, "not_found")
    /\ Respond(r, 404)
    /\ UNCHANGED <<lvars, testKey, testKeyAof, wiped, served, clientCalls>>

\* Mutant of handle_log_rotation: an error propagates instead of becoming 500.
handle_log_rotation_drops(r) ==
    /\ Handling(r, "rotate")
    /\ At(r, "ok")
    /\ rot' = [rot EXCEPT ![r] = Idle]
    /\ Respond(r, 200)
    /\ UNCHANGED <<policy, files, line, now, life, last_rotation, faults,
                   damage,
                   testKey, testKeyAof, wiped, served, clientCalls>>

\* rotate_now has returned, after the steps of perform_rotation(r).
handle_log_rotation(r) ==
    /\ Handling(r, "rotate")
    /\ rot[r].at \in {"ok", "failed"}
    /\ rot' = [rot EXCEPT ![r] = Idle]
    /\ Respond(r, IF At(r, "ok") THEN 200 ELSE 500)
    /\ UNCHANGED <<policy, files, line, now, life, last_rotation, faults,
                   damage,
                   testKey, testKeyAof, wiped, served, clientCalls>>

Handle(r) ==
    \/ check_storage_set(r) \/ check_storage_get(r) \/ check_storage_delete(r)
    \/ check_rest(r) \/ handle_health_check(r)
    \/ handle_metrics_request(r) \/ handle_log_status(r)
    \/ handle_not_found(r) \/ handle_log_rotation(r)

-----------------------------------------------------------------------------
(* The rest of the process *)

\* A client's FLUSHDB, DEL or SET reaches the test key.  The command is logged;
\* the checker's own calls go to the store directly and are not.
ClientCommand ==
    /\ clientCalls < MaxClientCalls
    /\ clientCalls' = clientCalls + 1
    /\ \E v \in {"absent", "other"} : testKey' = v /\ testKeyAof' = v
    /\ wiped' = wiped \cup {r \in Requests : Handling(r, "get")}
    /\ UNCHANGED <<lvars, http, served>>

\* BGREWRITEAOF replaces the log by a snapshot of the store.
RewriteAof ==
    /\ testKeyAof # testKey
    /\ testKeyAof' = testKey
    /\ UNCHANGED <<lvars, http, testKey, wiped, served, clientCalls>>

\* The process dies and comes back from the log; connections are gone.
Restart ==
    /\ RestartLog
    /\ http' = [r \in Requests |-> Closed]
    /\ testKey' = testKeyAof
    /\ wiped' = {}
    /\ UNCHANGED <<testKeyAof, served, clientCalls>>

Environment ==
    \/ (Log \/ Tick) /\ UNCHANGED wvars
    \/ ClientCommand \/ RewriteAof \/ Restart
    \/ \E r \in Requests : Accept(r)

\* Steps the runtime takes for a task that is ready.
TimerTask ==
    (check_and_rotate \/ TimerFailed \/ RotatorStep(Timer)) /\ UNCHANGED wvars
RequestTask(r) == Handle(r) \/ (RotatorStep(r) /\ UNCHANGED wvars)

MonitoringNext ==
    Environment \/ TimerTask \/ \E r \in Requests : RequestTask(r)

\* Every task that can run is polled again by the runtime.  Nothing is assumed
\* of clients, the clock or crashes.
MonitoringFairness ==
    /\ WF_mvars(TimerTask)
    /\ \A r \in Requests : WF_mvars(RequestTask(r))

MonitoringSpec ==
    MonitoringInit /\ [][MonitoringNext]_mvars /\ MonitoringFairness

MonitoringTypeOK ==
    /\ policy \in Policies
    /\ DOMAIN dir \subseteq FileNames
    /\ \A n \in DOMAIN dir : dir[n] \in Inodes
    /\ \A i \in Inodes : content[i] \subseteq 1..line /\ modified[i] <= now
    /\ \A r \in Requests : rot[r] # Idle => Handling(r, "rotate")
    /\ testKey \in {"absent", "probe", "other"}

-----------------------------------------------------------------------------
(* Properties *)

\* check_storage_health reports storage unhealthy only when another check's
\* delete, FLUSHDB or another client command really changed its key between
\* its set and its get; a later restart or a concurrent rotation never causes
\* it.  And its key does not leak: outside a check the probe value is in the
\* store only if a BGREWRITEAOF that ran inside one wrote it to the log.
HealthChecksIsolated ==
    /\ \A r \in Requests : "storage" \in http[r].unhealthy => r \in wiped
    /\ (testKey = "probe" /\ \A r \in Requests : http[r].at \notin Checks)
          => testKeyAof = "probe"

\* Every monitoring request that is read is answered, whichever rotation wins
\* the race for the log, whatever file operation fails, unless the process dies.
RequestsAnswered ==
    \A r \in Requests :
        ~Unused(r) ~> Unused(r)
=============================================================================
