------------------------------- MODULE IpaNat -------------------------------
(***************************************************************************)
(* The NAT table shared with the IP accelerator, ipa_nat_drvi.c: a base    *)
(* table and an expansion table of rules, chained by collision of the      *)
(* destination hash, and an index table and its expansion, chained by the  *)
(* source hash, whose entries name rules.  The driver writes free entries  *)
(* itself and changes what the hardware may be walking through by DMA      *)
(* commands, one at a time; this module shows what the hardware sees       *)
(* between any two of them.                                                *)
(*                                                                         *)
(* Entries are numbered as the code does, those of the expansion tables    *)
(* from TableEntries on; entry 0 of each table is unused, and 0 is "none". *)
(*                                                                         *)
(* A definition named Slip_ is no part of the model: it is the one below   *)
(* it with a plausible bug, kept to show that a property would notice.     *)
(***************************************************************************)
EXTENDS Naturals, Sequences, FiniteSets

CONSTANTS
    Rules,                       \* connections
    NoRule, Dead,                \* no rule; a rule that was deleted with others chained to it
    TableEntries, ExpnEntries,   \* sizes of the base and of the expansion tables
    dst_hash, src_hash           \* where a connection hashes to, by the packets in and out

Base == 1 .. TableEntries - 1
Expn == TableEntries + 1 .. TableEntries + ExpnEntries - 1
Entries == 0 .. TableEntries + ExpnEntries - 1

ASSUME SizeAssumption == TableEntries \in Nat \ {0, 1} /\ ExpnEntries \in Nat \ {0, 1}
ASSUME HashAssumption == dst_hash \in [Rules -> Base] /\ src_hash \in [Rules -> Base]
ASSUME RuleAssumption == NoRule \notin Rules /\ Dead \notin Rules /\ NoRule # Dead

VARIABLES
    rule, enable, next_index, prev_index, indx_tbl_entry,  \* the rule tables
    tbl_entry, index_next, meta_prev,                      \* the index tables, and their meta data
    rule_id_array,                                         \* the entry of each handle
    cmd,                                                   \* writes the running operation still makes
    op                                                     \* the running operation, or its result

ruleTable == <<rule, enable, next_index, prev_index, indx_tbl_entry>>
indexTable == <<tbl_entry, index_next, meta_prev>>
natVars == <<ruleTable, indexTable, rule_id_array, cmd, op>>

Handles == 1 .. TableEntries + ExpnEntries
Least(S) == CHOOSE x \in S : \A y \in S : x <= y

(* The entries of the chain that starts at s: s, and in the expansion table  *)
(* no more than what follows an entry of the chain.                         *)
Follows(nxt, S) == \A e \in S : nxt[e] \in S \cup {0}
Chain(nxt, s) == {s} \cup {e \in Expn : \A S \in SUBSET Expn : Follows(nxt, S \cup {s}) => e \in S}

Idle == [fn |-> "none", ret |-> 0]
Running == op.fn \in {"add", "del"}

-----------------------------------------------------------------------------
(* The collision is looked for, the end of its chain is not. *)
Slip_GenerateEntry(used, nxt, s, e, p) ==
    \/ s \notin used /\ e = s /\ p = 0
    \/ s \in used /\ Expn \ used # {} /\ e = Least(Expn \ used) /\ p = s

(* Where a new entry goes, and after which one: the slot it hashes to when  *)
(* that is free, else the first free one of the expansion table, after the  *)
(* last of its chain.                                                       *)
GenerateEntry(used, nxt, s, e, p) ==
    \/ s \notin used /\ e = s /\ p = 0
    \/ /\ s \in used /\ Expn \ used # {} /\ e = Least(Expn \ used)
       /\ p \in Chain(nxt, s) /\ nxt[p] = 0

EnabledEntries == {e \in Entries : enable[e]}
NamedEntries == {e \in Entries : tbl_entry[e] # 0}

CanGenerate(r) ==
    /\ dst_hash[r] \in EnabledEntries => Expn \ EnabledEntries # {}
    /\ src_hash[r] \in NamedEntries => Expn \ NamedEntries # {}

LinkAfter(field, p, e) == IF p = 0 THEN <<>> ELSE <<[field |-> field, at |-> p, value |-> e]>>

(* The rule is enabled before it is whole. *)
Slip_AddCommands(e, p, i, ip) ==
    LinkAfter("next_index", p, e)
    \o <<[field |-> "enable", at |-> e, value |-> TRUE]>>
    \o <<[field |-> "index", at |-> i, value |-> e]>>
    \o LinkAfter("index_next", ip, i)

(* The writes that make a rule visible, the enable bit last. *)
AddCommands(e, p, i, ip) ==
    LinkAfter("next_index", p, e)
    \o <<[field |-> "index", at |-> i, value |-> e]>>
    \o LinkAfter("index_next", ip, i)
    \o <<[field |-> "enable", at |-> e, value |-> TRUE]>>

(* ipa_nati_add_ipv4_rule: the rule is written to its entry, disabled. *)
add_ipv4_rule(r) ==
    \/ /\ ~CanGenerate(r)
       /\ op' = [fn |-> "done", ret |-> 0]
       /\ UNCHANGED <<ruleTable, indexTable, rule_id_array, cmd>>
    \/ /\ CanGenerate(r)
       /\ \E e, i, p, ip \in Entries :
            /\ GenerateEntry(EnabledEntries, next_index, dst_hash[r], e, p)
            /\ GenerateEntry(NamedEntries, index_next, src_hash[r], i, ip)
            /\ rule' = [rule EXCEPT ![e] = r]
            /\ enable' = [enable EXCEPT ![e] = FALSE]
            /\ next_index' = [next_index EXCEPT ![e] = 0]
            /\ prev_index' = [prev_index EXCEPT ![e] = p]
            /\ indx_tbl_entry' = [indx_tbl_entry EXCEPT ![e] = i]
            /\ meta_prev' = IF i \in Expn THEN [meta_prev EXCEPT ![i] = ip] ELSE meta_prev
            /\ cmd' = AddCommands(e, p, i, ip)
            /\ op' = [fn |-> "add", entry |-> e]
       /\ UNCHANGED <<tbl_entry, index_next, rule_id_array>>

(* ipa_nati_make_rule_hdl: the first free handle. *)
AddReturns ==
    /\ op.fn = "add" /\ cmd = <<>>
    /\ \E h \in Handles :
        /\ h = Least({k \in Handles : rule_id_array[k] = 0})
        /\ rule_id_array' = [rule_id_array EXCEPT ![h] = op.entry]
        /\ op' = [fn |-> "done", ret |-> h]
    /\ UNCHANGED <<ruleTable, indexTable, cmd>>

-----------------------------------------------------------------------------
(* ipa_nati_find_rule_pos and ipa_nati_find_index_rule_pos. *)
Position(nxt, e) ==
    IF e >= TableEntries THEN IF nxt[e] = 0 THEN "last" ELSE "middle"
    ELSE IF nxt[e] = 0 THEN "only_one" ELSE "head"

DelRuleCommand(e) ==
    LET pos == Position(next_index, e) IN
    CASE pos = "only_one" -> <<[field |-> "enable", at |-> e, value |-> FALSE]>>
      [] pos = "head" -> <<[field |-> "protocol", at |-> e, value |-> Dead]>>
      [] OTHER -> <<[field |-> "next_index", at |-> prev_index[e], value |-> next_index[e]]>>

DelIndexCommands(i) ==
    LET pos == Position(index_next, i)  n == index_next[i] IN
    CASE pos = "only_one" -> <<[field |-> "tbl_entry", at |-> i, value |-> 0]>>
      [] pos = "head" -> <<[field |-> "tbl_entry", at |-> i, value |-> tbl_entry[n]],
                           [field |-> "index_next", at |-> i, value |-> index_next[n]]>>
      [] OTHER -> <<[field |-> "index_next", at |-> meta_prev[i], value |-> n]>>

(* ipa_nati_del_ipv4_rule, until the commands are posted; ReorderCmds puts  *)
(* those for the index table first.  A handle that is not in use is refused.*)
del_ipv4_rule(h) ==
    LET e == IF h \in Handles /\ h < TableEntries + ExpnEntries THEN rule_id_array[h] ELSE 0
        i == indx_tbl_entry[e]
    IN
    \/ /\ e = 0 \/ ~enable[e]
       /\ op' = [fn |-> "done", ret |-> 0]
       /\ UNCHANGED <<ruleTable, indexTable, rule_id_array, cmd>>
    \/ /\ e # 0 /\ enable[e]
       /\ op' = [fn |-> "del", hdl |-> h, entry |-> e, pos |-> Position(next_index, e),
                 indx |-> i, indx_pos |-> Position(index_next, i), moved |-> index_next[i]]
       /\ cmd' = DelIndexCommands(i) \o DelRuleCommand(e)
       /\ UNCHANGED <<ruleTable, indexTable, rule_id_array>>

(* Entries that a deletion of e leaves empty: e itself, unless others are   *)
(* chained to it in the base table, and dead heads nothing is chained to.   *)
Emptied(pos, e) ==
    (IF pos = "head" THEN {} ELSE {e}) \cup {d \in Base : rule[d] = Dead /\ next_index[d] = 0}

(* The entry after a deleted one keeps pointing back at it. *)
Slip_PrevAfterDelete(pos, e) == [x \in Entries |-> IF x \in Emptied(pos, e) THEN 0 ELSE prev_index[x]]

PrevAfterDelete(pos, e) ==
    [x \in Entries |-> IF x \in Emptied(pos, e) THEN 0
                       ELSE IF pos = "middle" /\ x = next_index[e] THEN prev_index[e]
                       ELSE prev_index[x]]

(* The head of an index chain takes over the entry after it, and the rule   *)
(* that entry names is told.                                                *)
IndexOfRuleAfterDelete ==
    [x \in Entries |-> IF op.indx_pos = "head" /\ x = tbl_entry[op.indx] THEN op.indx
                       ELSE IF x \in Emptied(op.pos, op.entry) THEN 0
                       ELSE indx_tbl_entry[x]]

(* The index entry that is freed: the one taken over, or the deleted one.   *)
FreedIndex == IF op.indx_pos = "head" THEN op.moved ELSE op.indx

MetaAfterDelete ==
    LET after == index_next[FreedIndex] IN
    [x \in Entries |->
        IF op.indx_pos = "head" /\ x = after /\ x # 0 THEN op.indx
        ELSE IF op.indx_pos = "middle" /\ x = after THEN meta_prev[op.indx]
        ELSE IF op.indx_pos = "middle" /\ x = op.indx THEN 0
        ELSE meta_prev[x]]

(* The rest of ipa_nati_post_del_dma_cmd and ipa_nati_del_ipv4_rule, after  *)
(* the hardware has executed the commands.                                  *)
DelReturns ==
    LET emptied == Emptied(op.pos, op.entry) IN
    /\ op.fn = "del" /\ cmd = <<>>
    /\ rule' = [x \in Entries |-> IF x \in emptied THEN NoRule ELSE rule[x]]
    /\ enable' = [x \in Entries |-> enable[x] /\ x \notin emptied]
    /\ next_index' = [x \in Entries |-> IF x \in emptied THEN 0 ELSE next_index[x]]
    /\ prev_index' = PrevAfterDelete(op.pos, op.entry)
    /\ indx_tbl_entry' = IndexOfRuleAfterDelete
    /\ tbl_entry' = [tbl_entry EXCEPT ![FreedIndex] = 0]
    /\ index_next' = [index_next EXCEPT ![FreedIndex] = 0]
    /\ meta_prev' = MetaAfterDelete
    /\ rule_id_array' = [rule_id_array EXCEPT ![op.hdl] = 0]
    /\ op' = [fn |-> "done", ret |-> op.hdl]
    /\ UNCHANGED cmd

-----------------------------------------------------------------------------
(* One write of the running operation: a DMA command the hardware executes, *)
(* or the driver's own write of a free index entry.                         *)
Write ==
    /\ Running /\ cmd # <<>> /\ cmd' = Tail(cmd)
    /\ LET c == Head(cmd) IN
       /\ next_index' = IF c.field = "next_index" THEN [next_index EXCEPT ![c.at] = c.value] ELSE next_index
       /\ enable' = IF c.field = "enable" THEN [enable EXCEPT ![c.at] = c.value] ELSE enable
       /\ rule' = IF c.field = "protocol" THEN [rule EXCEPT ![c.at] = c.value] ELSE rule
       /\ tbl_entry' = IF c.field \in {"index", "tbl_entry"}
                       THEN [tbl_entry EXCEPT ![c.at] = c.value] ELSE tbl_entry
       /\ index_next' = CASE c.field = "index" -> [index_next EXCEPT ![c.at] = 0]
                          [] c.field = "index_next" -> [index_next EXCEPT ![c.at] = c.value]
                          [] OTHER -> index_next
    /\ UNCHANGED <<prev_index, indx_tbl_entry, meta_prev, rule_id_array, op>>

Cleared == [e \in Entries |-> 0]

NatInit ==
    /\ rule = [e \in Entries |-> NoRule] /\ enable = [e \in Entries |-> FALSE]
    /\ next_index = Cleared /\ prev_index = Cleared /\ indx_tbl_entry = Cleared
    /\ tbl_entry = Cleared /\ index_next = Cleared /\ meta_prev = Cleared
    /\ rule_id_array = [h \in Handles |-> 0]
    /\ cmd = <<>> /\ op = Idle

(* ipa_nat_del_ipv4_tbl, and the empty table the next one starts with. *)
ipa_nati_reset_tbl ==
    /\ rule' = [e \in Entries |-> NoRule] /\ enable' = [e \in Entries |-> FALSE]
    /\ next_index' = Cleared /\ prev_index' = Cleared /\ indx_tbl_entry' = Cleared
    /\ tbl_entry' = Cleared /\ index_next' = Cleared /\ meta_prev' = Cleared
    /\ rule_id_array' = [h \in Handles |-> 0]
    /\ UNCHANGED <<cmd, op>>

DriverStep == Write \/ AddReturns \/ DelReturns

-----------------------------------------------------------------------------
(* The hardware, external: a packet in is looked up along the chain of its  *)
(* destination hash, a packet out along the index chain of its source hash. *)
Matches(e, r) == enable[e] /\ rule[e] = r
DownlinkHits(r) == \E e \in Chain(next_index, dst_hash[r]) : Matches(e, r)
UplinkHits(r) ==
    \E s \in Chain(index_next, src_hash[r]) : tbl_entry[s] # 0 /\ Matches(tbl_entry[s], r)

-----------------------------------------------------------------------------
NatTypeOK ==
    /\ rule \in [Entries -> Rules \cup {NoRule, Dead}]
    /\ enable \in [Entries -> BOOLEAN]
    /\ {next_index, prev_index, indx_tbl_entry, tbl_entry, index_next, meta_prev} \subseteq [Entries -> Entries]
    /\ rule_id_array \in [Handles -> Entries]

RuleOfHandle(h) == IF h \in Handles THEN rule[rule_id_array[h]] ELSE NoRule
BeingDeleted(h) == op.fn = "del" /\ op.hdl = h

(* A rule whose handle was given out, and that is not being deleted, is     *)
(* found by the hardware in both directions after each single write of the  *)
(* driver, whatever is added or deleted around it in its two chains.        *)
RuleInHandReachable ==
    \A h \in Handles : rule_id_array[h] # 0 /\ ~BeingDeleted(h) =>
        DownlinkHits(RuleOfHandle(h)) /\ UplinkHits(RuleOfHandle(h))

(* Between two operations the chains can be walked backwards as forwards,   *)
(* and a rule and its entry of the index table name each other.             *)
ListsMatch ==
    ~Running =>
        /\ \A e \in Expn : enable[e] => prev_index[e] # 0 /\ next_index[prev_index[e]] = e
        /\ \A e \in Entries : next_index[e] # 0 => prev_index[next_index[e]] = e
        /\ \A i \in Expn : tbl_entry[i] # 0 => index_next[meta_prev[i]] = i
        /\ \A i \in Entries : index_next[i] # 0 => meta_prev[index_next[i]] = i
        /\ \A i \in Entries : tbl_entry[i] # 0 => indx_tbl_entry[tbl_entry[i]] = i
        /\ \A e \in Entries : enable[e] /\ rule[e] # Dead => tbl_entry[indx_tbl_entry[e]] = e
=============================================================================
