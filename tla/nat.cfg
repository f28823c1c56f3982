\* Three connections whose rules chain, in one slot of the base table and two spare
\* ones; one public address, lost and given again.
CONSTANTS
    r1 = r1
    r2 = r2
    r3 = r3
    c1 = c1
    c2 = c2
    sta = sta
    Rules = {r1, r2, r3}
    NoRule = NoRule
    Dead = Dead
    TableEntries = 3
    ExpnEntries = 3
    Clients = {c1, c2}
    StaClients = {sta}
    max_entries = 3
    MaxTemp = 1
    MaxPwrSave = 1
    dst_hash <- MCHash
    src_hash <- MCHash
    private_ip <- MCPrivate
    target_ip <- MCTarget
    WanIps <- OneWan
SYMMETRY Connections
SPECIFICATION Spec
INVARIANT TypeOK HandlesAreOwn NoLeakedRule RuleInHandReachable ListsMatch AsleepNotAdded
PROPERTY RefinesTable
