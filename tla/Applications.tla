----------------------------- MODULE Applications -----------------------------
(***************************************************************************)
(* The six controllers: for each kind of application, the one that         *)
(* associates it with a cluster and the one that runs it.  Logstash's are  *)
(* Kibana's again, in packages of their own; APM server's differ where the *)
(* actions look at the kind.  Every step names the function it is part of. *)
(***************************************************************************)
EXTENDS AppDriver

AssociationReconcile == FetchWithAssociation \/ UpdateFinalizers \/ UpdateAssociationStatus
ReconcileInternal ==
  GetElasticsearch \/ ReconcileAuthSecret \/ ReconcileEsUser \/ UpdateAssociationConf

\* kibanaassociation
KibanaAssociationReconcile == kind = "kibana" /\ AssociationReconcile
KibanaRunFinalizers == kind = "kibana" /\ RunFinalizers
KibanaIsCompatible == kind = "kibana" /\ CheckCompatible
KibanaWatchReference == kind = "kibana" /\ WatchReference
KibanaReconcileInternal == kind = "kibana" /\ ReconcileInternal
KibanaReconcileCA == kind = "kibana" /\ ReconcileElasticsearchCA
KibanaAssociation ==
  \/ KibanaAssociationReconcile \/ KibanaRunFinalizers \/ KibanaIsCompatible
  \/ KibanaWatchReference \/ KibanaReconcileInternal \/ KibanaReconcileCA

\* logstashassociation
LogstashAssociationReconcile == kind = "logstash" /\ AssociationReconcile
LogstashRunFinalizers == kind = "logstash" /\ RunFinalizers
LogstashIsCompatible == kind = "logstash" /\ CheckCompatible
LogstashWatchReference == kind = "logstash" /\ WatchReference
LogstashReconcileInternal == kind = "logstash" /\ ReconcileInternal
LogstashReconcileCA == kind = "logstash" /\ ReconcileElasticsearchCA
LogstashAssociation ==
  \/ LogstashAssociationReconcile \/ LogstashRunFinalizers \/ LogstashIsCompatible
  \/ LogstashWatchReference \/ LogstashReconcileInternal \/ LogstashReconcileCA

\* apmserverelasticsearchassociation
ApmAssociationReconcile == kind = "apm" /\ AssociationReconcile
ApmRunFinalizers == kind = "apm" /\ RunFinalizers
ApmIsCompatible == kind = "apm" /\ CheckCompatible
ApmReconcileInternal == kind = "apm" /\ ReconcileInternal
ApmReconcileCA == kind = "apm" /\ ReconcileElasticsearchCA
ApmAssociation ==
  \/ ApmAssociationReconcile \/ ApmRunFinalizers \/ ApmIsCompatible
  \/ ApmWatchReference \/ ApmReconcileInternal \/ ApmReconcileCA

-----------------------------------------------------------------------------
DriverReconcile == DriverService \/ DriverConfig \/ DriverKeystore \/ DriverDeploy

\* kibana
KibanaController == kind = "kibana" /\ (FetchApp \/ DriverFinalize)
KibanaDriverCompatible == kind = "kibana" /\ DriverCompatible
KibanaDriverReconcile == kind = "kibana" /\ DriverReconcile
KibanaStatus == kind = "kibana" /\ DriverStatus
Kibana ==
  KibanaController \/ KibanaDriverCompatible \/ KibanaDriverReconcile \/ KibanaStatus

\* logstash
LogstashController == kind = "logstash" /\ (FetchApp \/ DriverFinalize)
LogstashDriverCompatible == kind = "logstash" /\ DriverCompatible
LogstashDriverReconcile == kind = "logstash" /\ DriverReconcile
LogstashStatus == kind = "logstash" /\ DriverStatus
Logstash ==
  LogstashController \/ LogstashDriverCompatible \/ LogstashDriverReconcile \/ LogstashStatus

\* apmserver
ApmController == kind = "apm" /\ (FetchApp \/ DriverFinalize)
ApmDriverCompatible == kind = "apm" /\ DriverCompatible
ApmSecret == kind = "apm" /\ DriverConfig
ApmDoReconcile == kind = "apm" /\ (DriverService \/ DriverKeystore)
ApmDeployment == kind = "apm" /\ DriverDeploy
ApmStatus == kind = "apm" /\ DriverStatus
ApmServer ==
  ApmController \/ ApmDriverCompatible \/ ApmSecret \/ ApmDoReconcile \/ ApmDeployment
    \/ ApmStatus
=============================================================================
