SPECIFICATION SchedSpec
CONSTANTS
    Tasks = {t1, t2}
    Started = {t1}
    Privileged = {t1}
    Null = Null
    Cpus = {0, 2}
    MaskBits = 2
    MaxPrio = 2
    SignBit = 4
    AskedPolicies = {1, 3}
    Priorities = {0, 3, 5}
    AttrPriorities = {0, 1}
    AskedMasks = {{}, {1}, {0, 1}}
    AttrMasks = {{0, 1}}
    Calls = {"create", "set_policy", "set_priority", "set_affinity", "get_affinity", "set_task_attr", "get_task_attr"}
INVARIANTS NeverInvalid PolicyReadsBack
PROPERTIES NearestPriority AffinityReadsBack
