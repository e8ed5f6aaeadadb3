---------------------------- MODULE MCMonitoring ----------------------------
(***************************************************************************)
(* The metrics, the histogram, the monitoring server and the boot sequence *)
(* on small instances.  A behaviour runs one of the parts, named by        *)
(* `part`, and leaves the others in an initial state.  The monitoring      *)
(* server comes in two parts, since rotations and health checks share only *)
(* the restart: `rotation` serves one POST /logs/rotate beside the timer,  *)
(* `health` every other request on two connections.                        *)
(***************************************************************************)
EXTENDS Metrics, Histogram, Monitoring, MCStartup

VARIABLE part

allvars == <<part, vars, hvars, mvars, bvars>>

BucketLimits == <<2, 5, 9>>

-----------------------------------------------------------------------------

BootOff ==
  /\ setup = [i \in Instances |-> Plain]
  /\ boot = [i \in Instances |-> "exited"]
  /\ config = [i \in Instances |-> default_config]
  /\ monitor = [i \in Instances |-> "off"]
  /\ ports = [p \in AllPorts |-> Nobody]

-----------------------------------------------------------------------------

First == CHOOSE r \in Requests : TRUE

RotationPart ==
  \/ (Log \/ Tick) /\ UNCHANGED wvars
  \/ Restart
  \/ served = 0 /\ Accept(First) /\ http'[First].at = "rotate"
HealthPart ==
  \/ \E r \in Requests : Accept(r) /\ http'[r].at # "rotate"
  \/ ClientCommand \/ RewriteAof \/ Restart

MCInit ==
  /\ Init /\ HistogramInit /\ MonitoringInit
  /\ \/ part \in {"metrics", "histogram", "rotation", "health"} /\ BootOff
     \/ part = "boot" /\ BootInit

MetricsPart(A) == part = "metrics" /\ A /\ UNCHANGED <<part, hvars, mvars, bvars>>
MonitoringPart(p, A) == part = p /\ A /\ UNCHANGED <<part, vars, hvars, bvars>>

MCNext ==
  \/ MetricsPart(Next)
  \/ part = "histogram" /\ HistogramNext /\ UNCHANGED <<part, vars, mvars, bvars>>
  \/ MonitoringPart("rotation", RotationPart)
  \/ MonitoringPart("rotation", TimerTask)
  \/ MonitoringPart("rotation", RequestTask(First))
  \/ MonitoringPart("health", HealthPart)
  \/ \E r \in Requests : MonitoringPart("health", RequestTask(r))
  \/ part = "boot" /\ BootNext /\ UNCHANGED <<part, vars, hvars, mvars>>

\* The fairness of Metrics and Monitoring, in the parts that run them.
MCFairness ==
  /\ \A t \in Tasks : SF_allvars(MetricsPart(Proceed(t)))
  /\ WF_allvars(MonitoringPart("rotation", TimerTask))
  /\ \A p \in {"rotation", "health"}, r \in Requests :
        WF_allvars(MonitoringPart(p, RequestTask(r)))

MCSpec == MCInit /\ [][MCNext]_allvars /\ MCFairness

\* Every variable of the four modules stays in its type: among other things the
\* command map stays within its cap (bucket_key), and a rotation is under way
\* for a connection only while its handler waits for it.
AllTypesOK == TypeOK /\ MonitoringTypeOK
=============================================================================
