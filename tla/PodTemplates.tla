----------------------------- MODULE PodTemplates -----------------------------
(***************************************************************************)
(* The objects that pkg/controller/mpi_job_controller.go builds from a     *)
(* GroupJob: the Service, the ConfigMap, the SSH Secret, the worker pods   *)
(* and the launcher's pod template.                                        *)
(*                                                                         *)
(* Of a pod template there is what ties these objects to one another:      *)
(* hostname, subdomain, labels, environment, volumes and mounts, the       *)
(* restart policy, and what the gang scheduler (pkg/controller/podgroup.go) *)
(* looks at.  The rest is the user's or constant.                          *)
(***************************************************************************)
EXTENDS JobSpec

configMountPath == "/etc/mpi"
hostfileName == "hostfile"
discoverHostsScriptName == "discover_hosts.sh"

serviceName == Name("none", 0)
launcherName == Name("launcher", 0)
configName == Name("config", 0)
sshName == Name("ssh", 0)

-----------------------------------------------------------------------------
(* Labels and the Service.                                                 *)

NoIndex == -1

\* Both selectors ask for the operator and the job; workerSelector for the role
\* too.
defaultLabels(role) == [job |-> serviceName, role |-> role, index |-> NoIndex]

\* Mutant of newJobService: the pods that workerSelector selects.
MutNewJobService == [roles |-> {"worker"}]

newJobService == [roles |-> ReplicaTypes]

\* Mutant of workerReplicaIndexLabel: not padded.
MutWorkerReplicaIndexLabel(spec, index) == index

\* A launcher that works has index 0.
workerReplicaIndexLabel(spec, index) == IF spec.runLauncherAsWorker THEN index + 1 ELSE index

-----------------------------------------------------------------------------
(* The ConfigMap and the Secret.                                           *)

\* A host by the two labels of its DNS name that the job determines.
Host(name) == [name |-> name, subdomain |-> serviceName]

hostfileFormat(spec) == IF spec.mpiImplementation = "OpenMPI" THEN "slots=" ELSE ":"

Line(spec, name) ==
    [host |-> Host(name), slots |-> spec.slotsPerWorker, format |-> hostfileFormat(spec)]

launcherHosts(spec) == IF spec.runLauncherAsWorker THEN {launcherName} ELSE {}

\* newConfigMap and updateDiscoverHostsInConfigMap.  The order of the lines is
\* fixed, first the launcher and then the workers, so that equal sets of hosts
\* give equal files.
newConfigMap(spec, runningPods) ==
    [hostfile |-> {Line(spec, name) : name \in launcherHosts(spec) \cup
                        {workerName(i) : i \in 0 .. workerReplicas(spec) - 1}},
     discoverHosts |-> {Host(name) : name \in launcherHosts(spec) \cup
                        {workerName(i) : i \in runningPods}}]

\* What the object of a name can be asked for by a volume.
configKeys == {hostfileName, discoverHostsScriptName}
sshPrivateKey == "ssh-privatekey"
sshPublicKey == "ssh-publickey"

newSSHAuthSecret == {sshPrivateKey, sshPublicKey}

-----------------------------------------------------------------------------
(* Pods.                                                                   *)

sshVolume ==
    [volume |-> "ssh-auth", source |-> sshName, keys |-> {sshPrivateKey, sshPublicKey},
     files |-> {"id_rsa", "id_rsa.pub", "authorized_keys"}]

configVolume ==
    [volume |-> "mpi-job-config", source |-> configName, keys |-> configKeys,
     files |-> configKeys]

Mount(volume, path) == [volume |-> volume, path |-> path]

setupSSHOnPod(spec) == Mount(sshVolume, spec.sshAuthMountPath)

setRestartPolicy(replicaSpec) ==
    IF replicaSpec.restartPolicy = "ExitCode" THEN "Never" ELSE replicaSpec.restartPolicy

\* What every pod is told about itself.
roleEnv(role) == <<"K_MPI_JOB_ROLE", role>>

\* Environment variables that name a file, or a number of slots.
hostfileEnv == [OpenMPI |-> "OMPI_MCA_orte_default_hostfile",
                Intel |-> "I_MPI_HYDRA_HOST_FILE",
                MPICH |-> "HYDRA_HOST_FILE"]

launcherEnvVars(spec) ==
    {roleEnv("launcher"),
     <<hostfileEnv[spec.mpiImplementation], configMountPath, hostfileName>>}
    \cup (CASE spec.mpiImplementation = "OpenMPI" ->
                    {<<"OMPI_MCA_orte_set_default_slots", spec.slotsPerWorker>>}
            [] spec.mpiImplementation = "Intel" -> {<<"I_MPI_PERHOST", spec.slotsPerWorker>>}
            [] OTHER -> {})
    \cup IF spec.runLauncherAsWorker THEN {} ELSE {<<"NVIDIA_VISIBLE_DEVICES">>}

\* Volcano finds the PodGroup of a pod in an annotation, the scheduler plugins
\* in a label.  The PodGroup has the job's name.  A scheduler that the user
\* asked for is overwritten.
podGroupName == serviceName

decorateForVolcano(template) ==
    [template EXCEPT !.schedulerName = "volcano",
                     !.podGroup = [annotation |-> podGroupName]]

decorateForSchedulerPlugins(scheduler, template) ==
    [template EXCEPT !.schedulerName = scheduler, !.podGroup = [label |-> podGroupName]]

\* Mutant of decoratePodTemplateSpec: the launcher's template is left alone.
MutDecoratePodTemplateSpec(scheduler, template) ==
    IF scheduler = Absent \/ template.labels.role = "launcher" THEN template
    ELSE decorateForVolcano(template)

decoratePodTemplateSpec(scheduler, template) ==
    IF scheduler = Absent THEN template
    ELSE IF scheduler = "volcano" THEN decorateForVolcano(template)
    ELSE decorateForSchedulerPlugins(scheduler, template)

newWorker(scheduler, spec, index) == decoratePodTemplateSpec(scheduler,
    [hostname |-> workerName(index), subdomain |-> serviceName,
     labels |-> [defaultLabels("worker") EXCEPT
                    !.index = workerReplicaIndexLabel(spec, index)],
     restartPolicy |-> setRestartPolicy(spec.worker),
     schedulerName |-> Absent, podGroup |-> Absent,
     env |-> {roleEnv("worker")},
     mounts |-> {setupSSHOnPod(spec)}])

newLauncherPodTemplate(scheduler, spec) == decoratePodTemplateSpec(scheduler,
    [hostname |-> launcherName, subdomain |-> serviceName,
     labels |-> [defaultLabels("launcher") EXCEPT
                    !.index = IF spec.runLauncherAsWorker THEN 0 ELSE NoIndex],
     restartPolicy |-> setRestartPolicy(spec.launcher),
     schedulerName |-> Absent, podGroup |-> Absent,
     env |-> launcherEnvVars(spec),
     mounts |-> {setupSSHOnPod(spec), Mount(configVolume, configMountPath)}])
=============================================================================
