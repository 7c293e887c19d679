\* No call fails.  d3 deletes project p while v is created in it.
SPECIFICATION Spec
CONSTANTS
    p = p
    q = q
    v = v
    w = w
    u = u
    disk = disk
    d1 = d1
    d2 = d2
    d3 = d3
    d4 = d4
    d5 = d5
    Tenant = Tenant
    Projects = {p}
    Vms = {v}
    Disks = {}
    Deletes = {d3}
    ProjectOf <- MCProjectOf
    TargetOf <- MCTargetOf
    Limits <- MCLimits
    Cost <- MCCost
    Unreliable = {}
    ServerErrors = FALSE
    LateDelivery = FALSE
    MaxFaults = 0
INVARIANTS
    ItemsHaveProjects
