------------------------------- MODULE NatApp -------------------------------
(***************************************************************************)
(* The NAT cache of the IP accelerator manager, IPACM_Conntrack_NATApp.cpp,*)
(* and the events of IPACM_ConntrackListener.cpp and IPACM_Wlan.cpp that   *)
(* drive it, over the NAT table of IpaNat.  One thread takes the events    *)
(* from the command queue; a method that walks the cache calls the driver  *)
(* for one slot after another, and its walk is a job here.                 *)
(*                                                                         *)
(* A definition named Slip_ is no part of the model: it is the one below   *)
(* it with a plausible bug, kept to show that a property would notice.     *)
(***************************************************************************)
EXTENDS IpaNat

CONSTANTS
    Clients,                 \* addresses of tethered clients
    StaClients,              \* addresses of stations behind the uplink
    private_ip, target_ip,   \* of each connection
    WanIps,                  \* public addresses the uplink may be given, as numbers
    max_entries, MaxTemp, MaxPwrSave   \* slots of cache, temp and PwrSaveIfs

(* A public address has more than the 16 bits a temporary entry has for it. *)
ASSUME WanAssumption == \A w \in WanIps : w \in Nat /\ w >= 2 ^ 16
ASSUME AddressAssumption == private_ip \in [Rules -> Clients] /\ DOMAIN target_ip = Rules
ASSUME MaxAssumption == max_entries \in Nat \ {0} /\ MaxTemp \in Nat \ {0} /\ MaxPwrSave \in Nat

VARIABLES
    cache, temp,
    pub_ip_addr, pub_ip_addr_pre, nat_table_hdl,
    PwrSaveIfs,
    WanUp, wan_ipaddr, nat_iface_ipv4_addr,   \* the listener's
    power_save_set,                           \* the wlan clients'
    job       \* the method walking the cache, and the slot it has come to

pub == <<pub_ip_addr, pub_ip_addr_pre, nat_table_hdl>>
clients == <<PwrSaveIfs, nat_iface_ipv4_addr, power_save_set>>
wan == <<WanUp, wan_ipaddr>>
appVars == <<cache, temp, pub, clients, wan, job>>
vars == <<natVars, appVars>>

Slots == 1 .. max_entries
Free == [rule |-> NoRule, enabled |-> FALSE, rule_hdl |-> 0]
Cached(r, h) == [rule |-> r, enabled |-> h # 0, rule_hdl |-> h]
FreeTemp == [rule |-> NoRule, public_ip |-> 0]
NoJob == [fn |-> "none", arg |-> 0, cnt |-> 0]
Job(fn, arg, cnt) == [fn |-> fn, arg |-> arg, cnt |-> cnt]
Quiet == job = NoJob

isPwrSaveIf(ip) == ip \in PwrSaveIfs
ChkForDup(r) == \E k \in Slots : cache[k].rule = r
FreeSlots == {k \in Slots : cache[k].rule = NoRule}

(* Outside the listener's list a connection is only held in temp. *)
isTempEntry(r) == private_ip[r] \notin nat_iface_ipv4_addr /\ target_ip[r] \notin nat_iface_ipv4_addr

-----------------------------------------------------------------------------
(* The reset after power saving does not look at the enabled bit. *)
Slip_Due(k) ==
    LET c == cache[k] IN
    /\ c.rule # NoRule
    /\ CASE job.fn = "AddTable" -> TRUE
         [] job.fn \in {"UpdatePwrSaveIf", "DelEntriesOnClntDiscon"} ->
                private_ip[c.rule] = job.arg /\ c.enabled
         [] job.fn = "ResetPwrSaveIf" -> private_ip[c.rule] = job.arg
         [] job.fn = "DelEntriesOnSTAClntDiscon" -> target_ip[c.rule] = job.arg
         [] OTHER -> c.rule = job.arg

(* The walks over the cache: the slots a method does something at.          *)
Due(k) ==
    LET c == cache[k] IN
    /\ c.rule # NoRule
    /\ CASE job.fn = "AddTable" -> TRUE
         [] job.fn \in {"UpdatePwrSaveIf", "DelEntriesOnClntDiscon"} ->
                private_ip[c.rule] = job.arg /\ c.enabled
         [] job.fn = "ResetPwrSaveIf" -> private_ip[c.rule] = job.arg /\ ~c.enabled
         [] job.fn = "DelEntriesOnSTAClntDiscon" -> target_ip[c.rule] = job.arg
         [] job.fn = "DeleteEntry" -> c.rule = job.arg
         [] OTHER -> FALSE

DueSlots == {k \in Slots : k >= job.cnt /\ Due(k)}
Adds == job.fn \in {"AddTable", "ResetPwrSaveIf"}

(* A rule that is not enabled is dropped without a call. *)
NeedsDriver(k) == Adds \/ cache[k].enabled

(* The driver refuses a table handle of 0. *)
CallDriver(k) ==
    IF nat_table_hdl = 0
    THEN op' = [fn |-> "done", ret |-> 0] /\ UNCHANGED <<ruleTable, indexTable, rule_id_array, cmd>>
    ELSE IF Adds THEN add_ipv4_rule(cache[k].rule) ELSE del_ipv4_rule(cache[k].rule_hdl)

Visit ==
    /\ ~Quiet /\ op = Idle /\ DueSlots # {}
    /\ LET k == Least(DueSlots) IN
       /\ NeedsDriver(k)
       /\ CallDriver(k)
       /\ job' = [job EXCEPT !.cnt = k]
    /\ UNCHANGED <<cache, temp, pub, clients, wan>>

(* Power saving forgets the handle, and leaves the entry enabled. *)
Slip_Visited(k, ret) ==
    LET c == cache[k] IN
    CASE job.fn = "AddEntry" -> IF ret = 0 THEN c ELSE Cached(job.arg, ret)
      [] Adds -> IF ret = 0 THEN Free ELSE Cached(c.rule, ret)
      [] job.fn = "UpdatePwrSaveIf" -> IF ret = 0 THEN c ELSE [c EXCEPT !.rule_hdl = 0]
      [] job.fn = "DelEntriesOnClntDiscon" -> IF ret = 0 THEN c ELSE [c EXCEPT !.enabled = FALSE]
      [] OTHER -> Free

(* What a method makes of the slot, from what the driver returned: a rule   *)
(* that cannot be added is dropped, one that cannot be deleted is kept,     *)
(* except by DeleteEntry.                                                   *)
Visited(k, ret) ==
    LET c == cache[k] IN
    CASE job.fn = "AddEntry" -> IF ret = 0 THEN c ELSE Cached(job.arg, ret)
      [] Adds -> IF ret = 0 THEN Free ELSE Cached(c.rule, ret)
      [] job.fn = "UpdatePwrSaveIf" -> IF ret = 0 THEN c ELSE Cached(c.rule, 0)
      [] job.fn = "DelEntriesOnClntDiscon" -> IF ret = 0 THEN c ELSE [c EXCEPT !.enabled = FALSE]
      [] job.fn = "DelEntriesOnSTAClntDiscon" -> IF ret = 0 THEN c ELSE Free
      [] OTHER -> Free

(* The slot is counted in the body of the loop too. *)
Slip_NextSlot(k) == IF job.fn \in {"AddEntry", "DeleteEntry"} THEN max_entries + 1 ELSE k + 2

(* AddEntry and DeleteEntry stop at their slot. *)
NextSlot(k) == IF job.fn \in {"AddEntry", "DeleteEntry"} THEN max_entries + 1 ELSE k + 1

Returned ==
    /\ ~Quiet /\ op.fn = "done"
    /\ cache' = [cache EXCEPT ![job.cnt] = Visited(job.cnt, op.ret)]
    /\ job' = [job EXCEPT !.cnt = NextSlot(job.cnt)]
    /\ op' = Idle
    /\ UNCHANGED <<ruleTable, indexTable, rule_id_array, cmd, temp, pub, clients, wan>>

Uncache ==
    /\ ~Quiet /\ op = Idle /\ DueSlots # {}
    /\ LET k == Least(DueSlots) IN
       /\ ~NeedsDriver(k)
       /\ cache' = [cache EXCEPT ![k] = Free]
       /\ job' = [job EXCEPT !.cnt = NextSlot(k)]
    /\ UNCHANGED <<natVars, temp, pub, clients, wan>>

EndJob ==
    /\ ~Quiet /\ op = Idle /\ DueSlots = {}
    /\ job' = NoJob
    /\ UNCHANGED <<natVars, cache, temp, pub, clients, wan>>

-----------------------------------------------------------------------------
(* The uplink: AddTable, after a failed allocation or not, and DeleteTable. *)
(* AddTable takes the address when the walk is over; nothing reads it       *)
(* before.                                                                  *)
TriggerWANUp(w) ==
    /\ Quiet /\ ~WanUp
    /\ WanUp' = TRUE /\ wan_ipaddr' = w
    /\ \/ UNCHANGED <<pub, job>>
       \/ /\ nat_table_hdl' = 1
          /\ pub_ip_addr' = w
          /\ job' = IF w = pub_ip_addr_pre THEN Job("AddTable", 0, 1) ELSE NoJob
          /\ UNCHANGED pub_ip_addr_pre
    /\ UNCHANGED <<natVars, cache, temp, clients>>

(* The enabled bits of the cache are left as they are: Reset compares them  *)
(* with false, and assigns nothing.                                         *)
TriggerWANDown ==
    /\ Quiet /\ WanUp
    /\ WanUp' = FALSE
    /\ IF nat_table_hdl = 0
       THEN UNCHANGED <<natVars, pub>>
       ELSE /\ pub_ip_addr_pre' = pub_ip_addr
            /\ nat_table_hdl' = 0 /\ pub_ip_addr' = 0
            /\ ipa_nati_reset_tbl
    /\ UNCHANGED <<cache, temp, clients, wan_ipaddr, job>>

-----------------------------------------------------------------------------
(* Conntrack messages.  The public address of a message is set only when    *)
(* neither NAT flag is.                                                     *)
AddTempEntry(r, public_ip) ==
    LET free == {k \in 1 .. MaxTemp : temp[k] = FreeTemp} IN
    temp' = IF free = {} THEN temp ELSE [temp EXCEPT ![Least(free)] = [rule |-> r, public_ip |-> public_ip]]

(* The search for a free slot starts from a variable that was never set:    *)
(* of its values, those from the first slot to one past the last.           *)
CacheEntry(r) ==
    IF ChkForDup(r) THEN UNCHANGED cache
    ELSE \E cnt \in 1 .. max_entries + 1 :
            LET free == {k \in FreeSlots : k >= cnt} IN
            cache' = IF free = {} THEN cache ELSE [cache EXCEPT ![Least(free)] = Cached(r, 0)]

(* The power save list is looked up for the target only. *)
Slip_AddEntry(r) ==
    IF nat_table_hdl = 0 \/ ChkForDup(r) \/ FreeSlots = {}
    THEN UNCHANGED <<natVars, cache, job>>
    ELSE LET k == Least(FreeSlots) IN
         IF isPwrSaveIf(target_ip[r])
         THEN cache' = [cache EXCEPT ![k] = Cached(r, 0)] /\ UNCHANGED <<natVars, job>>
         ELSE add_ipv4_rule(r) /\ job' = Job("AddEntry", r, k) /\ UNCHANGED cache

(* Refused without a table, for a duplicate and when the cache is full.     *)
AddEntry(r) ==
    IF nat_table_hdl = 0 \/ ChkForDup(r) \/ FreeSlots = {}
    THEN UNCHANGED <<natVars, cache, job>>
    ELSE LET k == Least(FreeSlots) IN
         IF isPwrSaveIf(private_ip[r]) \/ isPwrSaveIf(target_ip[r])
         THEN cache' = [cache EXCEPT ![k] = Cached(r, 0)] /\ UNCHANGED <<natVars, job>>
         ELSE add_ipv4_rule(r) /\ job' = Job("AddEntry", r, k) /\ UNCHANGED cache

NewConnection(r) ==
    /\ Quiet
    /\ \/ ~WanUp /\ CacheEntry(r) /\ UNCHANGED <<natVars, job, temp>>
       \/ /\ WanUp /\ isTempEntry(r)
          /\ \E public_ip \in {0, wan_ipaddr % 2 ^ 16} : AddTempEntry(r, public_ip)
          /\ UNCHANGED <<natVars, cache, job>>
       \/ WanUp /\ ~isTempEntry(r) /\ AddEntry(r) /\ UNCHANGED temp
    /\ UNCHANGED <<pub, clients, wan>>

DeleteTempEntry(r) ==
    LET found == {k \in 1 .. MaxTemp : temp[k].rule = r} IN
    temp' = IF found = {} THEN temp ELSE [temp EXCEPT ![Least(found)] = FreeTemp]

DestroyConnection(r) ==
    /\ Quiet
    /\ IF isTempEntry(r)
       THEN DeleteTempEntry(r) /\ UNCHANGED job
       ELSE job' = Job("DeleteEntry", r, 1) /\ UNCHANGED temp
    /\ UNCHANGED <<natVars, cache, pub, clients, wan>>

-----------------------------------------------------------------------------
(* Clients.  With isAdd the entries whose public address is the table's are *)
(* added, which none is while there is a table, and kept when they cannot   *)
(* be.                                                                      *)
FlushTempEntries(ip, isAdd) ==
    temp' = [k \in 1 .. MaxTemp |->
                IF /\ temp[k].rule # NoRule
                   /\ ip \in {private_ip[temp[k].rule], target_ip[temp[k].rule]}
                   /\ ~(isAdd /\ temp[k].public_ip = pub_ip_addr)
                THEN FreeTemp ELSE temp[k]]

HandleNeighIpAddrAddEvt(c) ==
    /\ Quiet
    /\ \/ /\ c \notin nat_iface_ipv4_addr
          /\ nat_iface_ipv4_addr' = nat_iface_ipv4_addr \cup {c}
          /\ PwrSaveIfs' = PwrSaveIfs \ {c}
          /\ job' = Job("ResetPwrSaveIf", c, 1)
          /\ FlushTempEntries(c, TRUE)
       \/ \* an interface that is not for NAT
          FlushTempEntries(c, FALSE) /\ UNCHANGED <<nat_iface_ipv4_addr, PwrSaveIfs, job>>
    /\ UNCHANGED <<natVars, cache, pub, wan, power_save_set>>

HandleNeighIpAddrDelEvt(c) ==
    /\ Quiet
    /\ nat_iface_ipv4_addr' = nat_iface_ipv4_addr \ {c}
    /\ power_save_set' = power_save_set \ {c}
    /\ PwrSaveIfs' = PwrSaveIfs \ {c}
    /\ FlushTempEntries(c, FALSE)
    /\ job' = Job("DelEntriesOnClntDiscon", c, 1)
    /\ UNCHANGED <<natVars, cache, pub, wan>>

(* handle_wlan_client_pwrsave; the list may be full.                        *)
UpdatePwrSaveIf(c) ==
    /\ Quiet /\ c \in nat_iface_ipv4_addr /\ c \notin power_save_set
    /\ power_save_set' = power_save_set \cup {c}
    /\ PwrSaveIfs' = IF Cardinality(PwrSaveIfs) < MaxPwrSave THEN PwrSaveIfs \cup {c} ELSE PwrSaveIfs
    /\ job' = Job("UpdatePwrSaveIf", c, 1)
    /\ UNCHANGED <<natVars, cache, temp, pub, wan, nat_iface_ipv4_addr>>

ResetPwrSaveIf(c) ==
    /\ Quiet /\ c \in power_save_set
    /\ power_save_set' = power_save_set \ {c}
    /\ PwrSaveIfs' = PwrSaveIfs \ {c}
    /\ job' = Job("ResetPwrSaveIf", c, 1)
    /\ UNCHANGED <<natVars, cache, temp, pub, wan, nat_iface_ipv4_addr>>

HandleSTAClientDelEvt(s) ==
    /\ Quiet
    /\ job' = Job("DelEntriesOnSTAClntDiscon", s, 1)
    /\ UNCHANGED <<natVars, cache, temp, pub, clients, wan>>

-----------------------------------------------------------------------------
(* The constructor sets neither pub_ip_addr_pre nor PwrSaveIfs; MaxPwrSave  *)
(* counts the slots that happen to be zero.                                 *)
Init ==
    /\ NatInit
    /\ cache = [k \in Slots |-> Free] /\ temp = [k \in 1 .. MaxTemp |-> FreeTemp]
    /\ pub_ip_addr = 0 /\ pub_ip_addr_pre \in {0} \cup WanIps /\ nat_table_hdl = 0
    /\ PwrSaveIfs = {} /\ power_save_set = {}
    /\ WanUp = FALSE /\ wan_ipaddr = 0 /\ nat_iface_ipv4_addr = {}
    /\ job = NoJob

Event ==
    \/ \E w \in WanIps : TriggerWANUp(w)
    \/ TriggerWANDown
    \/ \E r \in Rules : NewConnection(r) \/ DestroyConnection(r)
    \/ \E c \in Clients : \/ HandleNeighIpAddrAddEvt(c) \/ HandleNeighIpAddrDelEvt(c)
                          \/ UpdatePwrSaveIf(c) \/ ResetPwrSaveIf(c)
    \/ \E s \in StaClients : HandleSTAClientDelEvt(s)

Work == Visit \/ Returned \/ Uncache \/ EndJob \/ (DriverStep /\ UNCHANGED appVars)

Next == Event \/ Work

Spec == Init /\ [][Next]_vars

-----------------------------------------------------------------------------
(* The types of every variable. *)
TypeOK ==
    /\ NatTypeOK
    /\ cache \in [Slots -> [rule : Rules \cup {NoRule}, enabled : BOOLEAN, rule_hdl : {0} \cup Handles]]
    /\ temp \in [1 .. MaxTemp -> [rule : Rules \cup {NoRule}, public_ip : 0 .. 2 ^ 16 - 1]]
    /\ {pub_ip_addr, pub_ip_addr_pre, wan_ipaddr} \subseteq {0} \cup WanIps
    /\ nat_table_hdl \in {0, 1} /\ WanUp \in BOOLEAN
    /\ {PwrSaveIfs, nat_iface_ipv4_addr, power_save_set} \subseteq SUBSET Clients
    /\ job.cnt \in 0 .. max_entries + 1

(* The handle of a rule that is enabled in the cache names an entry of the  *)
(* NAT table that holds that rule, so that closing a connection never stops *)
(* another ("NAT tbl deleted, reset enabled bit", says Reset).              *)
HandlesAreOwn ==
    Quiet /\ nat_table_hdl # 0 =>
        \A k \in Slots : cache[k].enabled => RuleOfHandle(cache[k].rule_hdl) = cache[k].rule

(* Between two events the NAT table holds no rule but those the cache knows *)
(* as enabled: no step of power saving, reconnection, closing and restoring *)
(* leaks a rule, or leaves one behind a handle that is lost.                *)
NoLeakedRule ==
    Quiet => \A h \in Handles : rule_id_array[h] # 0 =>
                \E k \in Slots : cache[k].enabled /\ cache[k].rule_hdl = h

(* Of a sleeping client that is in the power save list nothing is added to  *)
(* the table, except by the restoring AddTable.                             *)
AsleepNotAdded ==
    op.fn = "add" /\ job.fn # "AddTable" => private_ip[rule[op.entry]] \notin PwrSaveIfs

Table == INSTANCE NatTable WITH uplink <- {r \in Rules : UplinkHits(r)},
                                downlink <- {r \in Rules : DownlinkHits(r)}

(* What the hardware finds, between any two of the driver's writes, is what *)
(* NatTable promises: a connection appears in both directions at once, goes *)
(* first for what it sends, and no other connection is missed for a moment. *)
RefinesTable == Table!Spec
=============================================================================
