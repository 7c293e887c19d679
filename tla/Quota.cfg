\* Any call may fail in any way, once.  d1 and d2 delete VM v, d4 and d5 the disk, d3 project p.
SPECIFICATION Spec
CONSTANTS
    p = p
    q = q
    v = v
    w = w
    u = u
    disk = disk
    d1 = d1
    d2 = d2
    d3 = d3
    d4 = d4
    d5 = d5
    Tenant = Tenant
    Projects = {p, q}
    Vms = {v}
    Disks = {disk}
    Deletes = {d1, d2, d3, d4, d5}
    ProjectOf <- MCProjectOf
    TargetOf <- MCTargetOf
    Limits <- MCLimits
    Cost <- MCCost
    Unreliable = {p, q, v, disk, d1, d2, d3, d4, d5}
    ServerErrors = TRUE
    LateDelivery = FALSE
    MaxFaults = 1
INVARIANTS
    TypeOK
    UsageWithinLimits
    UsageIsExact
    
