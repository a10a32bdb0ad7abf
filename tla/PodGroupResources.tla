--------------------------- MODULE PodGroupResources ---------------------------
(***************************************************************************)
(* What the PodGroup of a GroupJob asks for                                *)
(* (pkg/controller/podgroup.go): the pods of the gang and the resources    *)
(* they need at least.                                                     *)
(***************************************************************************)
EXTENDS PodTemplates

CONSTANT PriorityClasses    \* those of the cluster, with their values

ASSUME PriorityClassesAssumption ==
    \A class \in DOMAIN PriorityClasses : PriorityClasses[class] \in Int

ASSUME ResourceListsAssumption == \A list \in ResourceLists : list \in [DOMAIN list -> Int]

-----------------------------------------------------------------------------
(* Resources: functions from some of the resources to quantities.          *)

NoResources == <<>>

Quantity(resources, r) == IF r \in DOMAIN resources THEN resources[r] ELSE 0

\* A container needs its requests, and its limits where it has no request.
merged(container) ==
    [r \in DOMAIN container.requests \cup DOMAIN container.limits |->
        IF r \in DOMAIN container.requests THEN container.requests[r] ELSE container.limits[r]]

addResources(total, container, replicas) ==
    [r \in DOMAIN total \cup DOMAIN merged(container) |->
        Quantity(total, r) + replicas * Quantity(merged(container), r)]

-----------------------------------------------------------------------------

calculateMinAvailable(spec) == OrElse(spec.minAvailable, workerReplicas(spec) + 1)

\* The class of the scheduling policy, else the launcher's, else the workers'.
calculatePriorityClassName(spec) ==
    OrElse(spec.policyPriorityClass,
        OrElse(spec.launcher.priorityClass,
            IF spec.worker = Absent THEN Absent ELSE spec.worker.priorityClass))

\* A class that the cluster does not have counts as none.
replicaPriority(type, replicaSpec) ==
    [type |-> type,
     priority |-> IF replicaSpec.priorityClass \in DOMAIN PriorityClasses
                    THEN PriorityClasses[replicaSpec.priorityClass] ELSE 0,
     replicas |-> replicaSpec.replicas,
     containers |-> replicaSpec.containers]

\* The replica specs by falling priority.  Those of equal priority come in the
\* order in which Go happens to iterate over the map.
replicasOrders(spec) ==
    LET l == replicaPriority("launcher", spec.launcher)
        w == replicaPriority("worker", spec.worker)
    IN  IF spec.worker = Absent THEN {<<l>>}
        ELSE {order \in {<<l, w>>, <<w, l>>} : order[1].priority >= order[2].priority}

getWorkerIndex(order) == CHOOSE n \in DOMAIN order : order[n].type = "worker"

\* Mutant of Lowered: the place of the launcher is not subtracted.
MutLowered(order, minMember) ==
    LET lower == IF order[1].priority = order[2].priority THEN getWorkerIndex(order) ELSE 2
    IN  [order EXCEPT ![lower].replicas = minMember]

\* The replicas that are not in the gang do not count: some of the workers, if
\* the priorities are equal, else some of those with the lower one.
Lowered(order, minMember) ==
    LET lower == IF order[1].priority = order[2].priority THEN getWorkerIndex(order) ELSE 2
    IN  [order EXCEPT ![lower].replicas = minMember - 1]

\* The containers of a pod are added one by one, those of a replica spec after
\* those of the one before.
addContainers(total, containers, replicas) ==
    LET added[n \in 0 .. Len(containers)] ==
            IF n = 0 THEN total ELSE addResources(added[n - 1], containers[n], replicas)
    IN  added[Len(containers)]

Total(order) ==
    LET added[n \in 0 .. Len(order)] ==
            IF n = 0 THEN NoResources
            ELSE addContainers(added[n - 1], order[n].containers, order[n].replicas)
    IN  added[Len(order)]

calPGMinResource(minMember, order) ==
    LET replicas == order[1].replicas + IF Len(order) > 1 THEN order[2].replicas ELSE 0
    IN  Total(IF replicas > minMember THEN Lowered(order, minMember) ELSE order)

calculatePGMinResources(minMember, spec, order) ==
    IF spec.minResources # Absent THEN spec.minResources
    ELSE IF minMember = 0 THEN Absent
    ELSE calPGMinResource(minMember, order)

\* newPodGroup of the two controls: what it may return.  Volcano's passes the
\* queue on too, and that of the scheduler plugins the timeout.
PodGroups(spec, priorityClass) ==
    LET minMember == calculateMinAvailable(spec) IN
    {[minMember |-> minMember, priorityClass |-> priorityClass,
      minResources |-> calculatePGMinResources(minMember, spec, order)] :
        order \in replicasOrders(spec)}

newVolcanoPodGroups(spec) == PodGroups(spec, calculatePriorityClassName(spec))

newSchedulerPluginsPodGroups(spec) == PodGroups(spec, Absent)

\* PodGroupControl by the name of the gang scheduler: any other than Volcano is
\* taken for the scheduler plugins.
newPodGroups(scheduler, spec) ==
    IF scheduler = "volcano" THEN newVolcanoPodGroups(spec)
                             ELSE newSchedulerPluginsPodGroups(spec)
=============================================================================
