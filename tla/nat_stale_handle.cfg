\* Two public addresses in turn: the handles of the first table outlive it.
CONSTANTS
    r1 = r1
    r2 = r2
    r3 = r3
    c1 = c1
    c2 = c2
    sta = sta
    Rules = {r1, r2, r3}
    NoRule = NoRule
    Dead = Dead
    TableEntries = 3
    ExpnEntries = 3
    Clients = {c1, c2}
    StaClients = {sta}
    max_entries = 3
    MaxTemp = 1
    MaxPwrSave = 1
    dst_hash <- MCHash
    src_hash <- MCHash
    private_ip <- MCPrivate
    target_ip <- MCTarget
    WanIps <- TwoWans
SPECIFICATION Spec
INVARIANT HandlesAreOwn
