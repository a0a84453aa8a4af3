------------------------------ MODULE AppDriver ------------------------------
(***************************************************************************)
(* The controllers that run the application itself: kibana, logstash and   *)
(* apmserver.  They wait for the connection details the association        *)
(* controller writes, make a service, a configuration and a Deployment,    *)
(* and put in the Pods' labels a checksum of what the Pods read at their   *)
(* start, so that a change of it replaces them.                            *)
(***************************************************************************)
EXTENDS Association

VARIABLES
  driver,        \* the pass under way
  driverWatches  \* its dynamic watches of secrets

driverVars == <<driver, driverWatches>>

IdleDriver == [pc |-> "idle", read |-> NoApp, mine |-> NoApp]

\* The application's finalizers: APM server has no watch on the auth secret.
DriverFinalizers == IF kind = "apm" THEN {"settings"} ELSE {"auth", "settings"}
SecretWatchKey == "es-auth-secret"
SecureSettingsWatchName == "secure-settings"

\* Both secrets are watched under one key: the CA's watch takes the place of the
\* auth secret's.
WatchConnectionSecrets(w, conf) ==
  LET auth == IF AuthIsConfigured(conf) THEN AddHandler(w, SecretWatchKey, {<<"auth">>})
                                        ELSE RemoveHandlerForKey(w, SecretWatchKey)
  IN IF CAIsConfigured(conf) THEN AddHandler(auth, SecretWatchKey, {<<"copy">>}) ELSE auth

\* watchSecureSettings
WatchSecureSettings(w, secure) ==
  IF secure THEN AddHandler(w, SecureSettingsWatchName, {<<"settings">>})
  ELSE RemoveHandlerForKey(w, SecureSettingsWatchName)

DriverInit ==
  /\ driver = IdleDriver
  /\ driverWatches =
       LET w == WatchSecureSettings(NoHandlers, app.secure)
       IN IF app.status = "Established" /\ kind # "apm"
            THEN WatchConnectionSecrets(w, app.conf) ELSE w

DriverGoto(pc) == driver' = [driver EXCEPT !.pc = pc]
FinishDriver(requeue) ==
  /\ driver' = IdleDriver
  /\ queues' = [queues EXCEPT !.driver = @ \/ requeue]

sharedButWorkload == <<kind, es, ca, authSecret, caCopy, users, realm, cacheVars>>

-----------------------------------------------------------------------------
\* UpdateControllerVersion, then doReconcile: without connection details Kibana
\* and Logstash are not deployed.
StartDriver(a) ==
  [IdleDriver EXCEPT !.read = UpdateControllerVersion(a),
     !.pc = IF kind # "apm" /\ ~IsConfigured(a.conf) THEN "status"
            ELSE IF kind = "logstash" THEN "config" ELSE "service"]

\* The annotation is checked before the finalizers are handled, by APM server's
\* controller after.  What needs no call goes on in memory.
AfterDriverFinalizers(a) ==
  IF kind = "apm" /\ ~IsCompatible(a) THEN [IdleDriver EXCEPT !.pc = "compatible", !.read = a]
  ELSE StartDriver(a)
BeforeDriverFinalizers(a) ==
  IF a.deleting \/ Handle(a, DriverFinalizers) # a
    THEN [IdleDriver EXCEPT !.pc = "finalizers", !.read = a]
    ELSE AfterDriverFinalizers(a)
FetchedByDriver(a) ==
  IF kind # "apm" /\ ~IsCompatible(a) THEN [IdleDriver EXCEPT !.pc = "compatible", !.read = a]
  ELSE BeforeDriverFinalizers(a)

FetchApp ==
  /\ driver.pc = "idle"
  /\ queues.driver
  /\ IF cApp.exists /\ IsPaused(cApp)
       THEN UNCHANGED <<driver, queues>>    \* PauseRequeue
       ELSE /\ queues' = [queues EXCEPT !.driver = FALSE]
            /\ driver' = IF cApp.exists THEN FetchedByDriver(cApp) ELSE driver
  /\ UNCHANGED <<app, workload, settings, budget, driverWatches, sharedButWorkload>>

\* isCompatible.  Kibana and Logstash look at it before their finalizers.
DriverCompatible ==
  /\ driver.pc = "compatible"
  /\ \E o \in Outcomes :
       LET new == ReconcileCompatibility(driver.read)
           writes == new # driver.read
       IN /\ ~writes => o = "ok"
          /\ IF writes THEN UpdateApp(new, driver.read, o) ELSE UNCHANGED <<app, budget>>
          /\ IF writes /\ (Conflicts(driver.read) \/ o # "ok") THEN FinishDriver(TRUE)
             ELSE IF ~IsCompatible(new) THEN FinishDriver(FALSE)
             ELSE /\ driver' = IF kind = "apm" THEN StartDriver(new)
                               ELSE BeforeDriverFinalizers(new)
                  /\ UNCHANGED queues
  /\ UNCHANGED <<workload, settings, driverWatches, sharedButWorkload>>

\* secretWatchFinalizer and keystore.Finalizer, in one update.
DriverFinalize ==
  /\ driver.pc = "finalizers"
  /\ \E o \in Outcomes :
       LET a == driver.read
           new == Handle(a, DriverFinalizers)
           unchanged == new = a
       IN /\ unchanged => o = "ok"
          /\ driverWatches' = IF a.deleting
               THEN RemoveHandlerForKey(RemoveHandlerForKey(driverWatches, SecretWatchKey),
                                        SecureSettingsWatchName)
               ELSE driverWatches
          /\ IF unchanged THEN UNCHANGED <<app, budget>> ELSE UpdateApp(new, a, o)
          /\ IF ~unchanged /\ (Conflicts(a) \/ o # "ok") THEN FinishDriver(TRUE)
             ELSE IF a.deleting THEN FinishDriver(FALSE)
             ELSE driver' = AfterDriverFinalizers(new) /\ UNCHANGED queues
  /\ UNCHANGED <<workload, settings, sharedButWorkload>>

\* ReconcileService: created, and its spec reset when it differs.
DriverService ==
  /\ driver.pc = "service"
  /\ \E o \in Outcomes :
       /\ workload.service => o = "ok"
       /\ Account(o)
       /\ workload' = IF Applied(o) THEN [workload EXCEPT !.service = TRUE] ELSE workload
       /\ IF o # "ok" THEN FinishDriver(TRUE)
          ELSE /\ DriverGoto(IF kind = "logstash" THEN "keystore" ELSE "config")
               /\ UNCHANGED queues
  /\ UNCHANGED <<app, settings, driverWatches, sharedButWorkload>>

\* ElasticsearchAuthSettings: the password is in the auth secret, if one is named.
AuthFound(conf) == AuthIsConfigured(conf) => authSecret # 0
ElasticsearchAuthSettings(conf) == IF AuthIsConfigured(conf) THEN authSecret ELSE 0

\* NewConfigSettings and ReconcileConfigSecret of Kibana: kibana.yml.
KibanaSettings(conf) ==
  [url |-> conf.url, pw |-> ElasticsearchAuthSettings(conf), ca |-> conf.ca]
\* NewConfigFromSpec: APM server has an output once the details are complete.
ApmSettings(conf) == IF IsConfigured(conf) THEN KibanaSettings(conf) ELSE NoConfig
\* ReconcilePipelineConfigMap: the CA's path is written in the output template.
PipelineConfigMap(conf) == [KibanaSettings(conf) EXCEPT !.ca = TRUE]

Settings(conf) ==
  CASE kind = "kibana" -> KibanaSettings(conf)
    [] kind = "logstash" -> PipelineConfigMap(conf)
    [] kind = "apm" -> ApmSettings(conf)

DriverConfig ==
  /\ driver.pc = "config"
  /\ \E o \in Outcomes :
       LET conf == driver.read.conf
           found == AuthFound(conf) \/ (kind = "apm" /\ ~IsConfigured(conf))
           new == [workload EXCEPT !.config = Settings(conf), !.token = (kind = "apm")]
       IN /\ (~found \/ new = workload) => o = "ok"
          /\ Account(o)
          /\ workload' = IF found /\ Applied(o) THEN new ELSE workload
          /\ IF ~found \/ o # "ok" THEN FinishDriver(TRUE)
             ELSE /\ DriverGoto(IF kind = "logstash" THEN "service" ELSE "keystore")
                  /\ UNCHANGED queues
  /\ UNCHANGED <<app, settings, driverWatches, sharedButWorkload>>

\* keystore.NewResources: the user's secret of secure settings is watched, and
\* copied; the copy goes when there is nothing to copy.
DriverKeystore ==
  /\ driver.pc = "keystore"
  /\ driverWatches' = WatchSecureSettings(driverWatches, driver.read.secure)
  /\ \E o \in Outcomes :
       LET new == IF driver.read.secure THEN settings.source ELSE 0
       IN /\ (new = settings.copy) => o = "ok"
          /\ Account(o)
          /\ settings' = IF Applied(o) THEN [settings EXCEPT !.copy = new] ELSE settings
          /\ IF o # "ok" THEN FinishDriver(TRUE) ELSE DriverGoto("deploy") /\ UNCHANGED queues
  /\ UNCHANGED <<app, workload, sharedButWorkload>>

\* Seeded defect: the CA is left out of the checksum.
TemplateWithoutCA(a) ==
  [exists |-> TRUE, keystore |-> settings.copy, pw |-> ElasticsearchAuthSettings(a.conf),
   ca |-> 0, config |-> workload.config]

\* deploymentParams: the checksum is of the keystore's copy, the password, the CA
\* and the configuration; Logstash's leaves its configuration out, APM server's
\* the password, which is in its configuration.
KibanaTemplate(a) ==
  [exists |-> TRUE, keystore |-> settings.copy, pw |-> ElasticsearchAuthSettings(a.conf),
   ca |-> IF CAIsConfigured(a.conf) THEN caCopy ELSE 0, config |-> workload.config]
LogstashTemplate(a) == [KibanaTemplate(a) EXCEPT !.config = NoConfig]
ApmTemplate(a) == [KibanaTemplate(a) EXCEPT !.pw = 0]

Template(a) ==
  CASE kind = "kibana" -> KibanaTemplate(a)
    [] kind = "logstash" -> LogstashTemplate(a)
    [] kind = "apm" -> ApmTemplate(a)

\* deployment.Reconcile: the Deployment is replaced when the hash of its template
\* differs.
DriverDeploy ==
  /\ driver.pc = "deploy"
  /\ driverWatches' = IF kind = "apm" THEN driverWatches
                      ELSE WatchConnectionSecrets(driverWatches, driver.read.conf)
  /\ \E o \in Outcomes :
       LET conf == driver.read.conf
           found == /\ kind # "apm" => AuthFound(conf)
                    /\ CAIsConfigured(conf) => caCopy # 0
           new == Template(driver.read)
       IN /\ (~found \/ new = workload.template) => o = "ok"
          /\ Account(o)
          /\ workload' = IF found /\ Applied(o) THEN [workload EXCEPT !.template = new]
                                                ELSE workload
          /\ IF ~found \/ o # "ok" THEN FinishDriver(TRUE)
             ELSE DriverGoto("status") /\ UNCHANGED queues
  /\ UNCHANGED <<app, settings, sharedButWorkload>>

\* UpdateKibanaState and updateStatus: green when the Deployment is available.
Health == IF workload.running.exists THEN "green" ELSE "red"
DriverStatus ==
  /\ driver.pc = "status"
  /\ \E o \in Outcomes :
       LET deployed == workload.template.exists
                         /\ (kind = "apm" \/ IsConfigured(driver.read.conf))
           new == IF deployed THEN [driver.read EXCEPT !.health = Health] ELSE driver.read
           unchanged == new = driver.read
       IN /\ unchanged => o = "ok"
          /\ IF unchanged THEN UNCHANGED <<app, budget>> ELSE UpdateApp(new, driver.read, o)
          /\ FinishDriver(~unchanged /\ (Conflicts(driver.read) \/ o # "ok"))
  /\ UNCHANGED <<workload, settings, driverWatches, sharedButWorkload>>
=============================================================================
