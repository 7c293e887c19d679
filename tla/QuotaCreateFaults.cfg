\* The calls of creations may time out.  d1 deletes v, d2 the disk.
SPECIFICATION Spec
CONSTANTS
    p = p
    q = q
    v = v
    w = w
    u = u
    disk = disk
    d1 = d1
    d2 = d2
    d3 = d3
    d4 = d4
    d5 = d5
    Tenant = Tenant
    Projects = {p, q}
    Vms = {v, w, u}
    Disks = {disk}
    Deletes = {d1, d2}
    ProjectOf <- MCProjectOf
    TargetOf <- OneEach
    Limits <- RoomForTwo
    Cost <- MCCost
    Unreliable = {p, q, v, w, u, disk}
    ServerErrors = FALSE
    LateDelivery = FALSE
    MaxFaults = 2
INVARIANTS
    
    TenantWithinLimits
