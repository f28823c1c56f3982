----------------------------- MODULE NatApp_proofs -----------------------------
(***************************************************************************)
(* The NAT table, for every size, every set of connections and every hash: *)
(* its chains are whole between any two of the driver's writes.            *)
(* Then the NAT cache over it, for every number of slots, connections and  *)
(* clients: what the cache and the table know of each other, and that the  *)
(* two are the table that NatTable describes.                              *)
(***************************************************************************)
EXTENDS NatApp, FiniteSetTheorems, SequenceTheorems, WellFoundedInduction, TLAPS

-----------------------------------------------------------------------------
(* Chains.  A table of chains: its used entries, the links forwards and     *)
(* backwards, and for each entry the slot of the base table its chain       *)
(* starts at.                                                               *)
Cells == Base \cup Expn

Linked(used, nxt, prv, home) ==
    /\ \A x \in Entries \ used : nxt[x] = 0
    /\ \A x \in used : nxt[x] # 0 =>
        nxt[x] \in used \cap Expn /\ prv[nxt[x]] = x /\ home[nxt[x]] = home[x]
    /\ \A x \in used \cap Expn : prv[x] \in used /\ nxt[prv[x]] = x

Chained(used, nxt, prv, home) ==
    /\ used \subseteq Cells
    /\ nxt \in [Entries -> Entries]
    /\ \A x \in used : home[x] \in Base
    /\ \A x \in used \cap Base : home[x] = x
    /\ Linked(used, nxt, prv, home)
    /\ \A x \in used : x \in Chain(nxt, home[x])

-----------------------------------------------------------------------------
(* What is true of the two tables when no operation runs, as a predicate of *)
(* the tables' values: it is also said of the tables as they will be once   *)
(* the bookkeeping of a deletion is done.                                   *)
RuleHome(ru) == [e \in Entries |-> IF e \in Base THEN e ELSE dst_hash[ru[e]]]
IndexHome(tb, ru) == [i \in Entries |-> IF i \in Base THEN i ELSE src_hash[ru[tb[i]]]]

RulesFit(used, ru, nx, pv) ==
    /\ Chained(used, nx, pv, RuleHome(ru))
    /\ \A e \in used : ru[e] \in Rules \/ (e \in Base /\ ru[e] = Dead)
    /\ \A e \in used \cap Base : ru[e] \in Rules => dst_hash[ru[e]] = e

IndexFits(used, tb, inx, mp, ru) ==
    /\ Chained(used, inx, mp, IndexHome(tb, ru))
    /\ \A i \in used \cap Base : src_hash[ru[tb[i]]] = i

(* The entries of the rule table and of the index table name each other. *)
NamesFit(used, named, ru, tb, ix) ==
    /\ \A i \in named : tb[i] \in used /\ ru[tb[i]] \in Rules /\ ix[tb[i]] = i
    /\ \A e \in used : ru[e] \in Rules => ix[e] \in named /\ tb[ix[e]] = e

-----------------------------------------------------------------------------
Order(f, a, v) == [field |-> f, at |-> a, value |-> v]
Adding == op.fn = "add"
Deleting == op.fn = "del"

NoneRuns ==
    /\ cmd = <<>>
    /\ RulesFit(EnabledEntries, rule, next_index, prev_index)
    /\ IndexFits(NamedEntries, tbl_entry, index_next, meta_prev, rule)
    /\ NamesFit(EnabledEntries, NamedEntries, rule, tbl_entry, indx_tbl_entry)

(* The entry being added and its entry of the index table, and what they are chained to. *)
NewIndex == indx_tbl_entry[op.entry]
RuleBefore == prev_index[op.entry]
IndexBefore == IF NewIndex \in Expn THEN meta_prev[NewIndex] ELSE 0

LinkRule == Order("next_index", RuleBefore, op.entry)
NameRule == Order("index", NewIndex, op.entry)
LinkIndex == Order("index_next", IndexBefore, NewIndex)
EnableRule == Order("enable", op.entry, TRUE)

RuleLinked == RuleBefore = 0 \/ next_index[RuleBefore] = op.entry
IndexLinked == IndexBefore = 0 \/ index_next[IndexBefore] = NewIndex
IndexNamed == tbl_entry[NewIndex] = op.entry

(* The writes of an addition that are left, by what has been written. *)
AddStage ==
    LET named == IF IndexBefore = 0 THEN <<NameRule, EnableRule>> ELSE <<NameRule, LinkIndex, EnableRule>> IN
    \/ RuleLinked /\ IndexNamed /\ IndexLinked /\ enable[op.entry] /\ cmd = <<>>
    \/ RuleLinked /\ IndexNamed /\ IndexLinked /\ ~enable[op.entry] /\ cmd = <<EnableRule>>
    \/ RuleLinked /\ IndexNamed /\ ~IndexLinked /\ ~enable[op.entry] /\ cmd = <<LinkIndex, EnableRule>>
    \/ RuleLinked /\ ~IndexNamed /\ (IndexLinked <=> IndexBefore = 0) /\ ~enable[op.entry] /\ cmd = named
    \/ /\ ~RuleLinked /\ ~IndexNamed /\ (IndexLinked <=> IndexBefore = 0) /\ ~enable[op.entry]
       /\ cmd = IF IndexBefore = 0 THEN <<LinkRule, NameRule, EnableRule>>
                ELSE <<LinkRule, NameRule, LinkIndex, EnableRule>>

NewRuleFits ==
    /\ op.entry \in Cells /\ rule[op.entry] \in Rules
    /\ op.entry \in Base => RuleBefore = 0 /\ dst_hash[rule[op.entry]] = op.entry
    /\ op.entry \in Expn => RuleBefore \in EnabledEntries \ {op.entry}
    /\ ~RuleLinked => next_index[RuleBefore] = 0 /\ RuleBefore \in Chain(next_index, dst_hash[rule[op.entry]])
    /\ next_index[op.entry] = 0

NewIndexFits ==
    /\ NewIndex \in Cells
    /\ NewIndex \in Base => src_hash[rule[op.entry]] = NewIndex
    /\ NewIndex \in Expn => IndexBefore \in NamedEntries \ {NewIndex}
    /\ ~IndexLinked => index_next[IndexBefore] = 0 /\ IndexBefore \in Chain(index_next, src_hash[rule[op.entry]])
    /\ ~IndexNamed => tbl_entry[NewIndex] = 0
    /\ index_next[NewIndex] = 0

OneIsAdded ==
    /\ NewRuleFits /\ NewIndexFits /\ AddStage
    /\ RulesFit(EnabledEntries \cup (IF RuleLinked THEN {op.entry} ELSE {}), rule, next_index, prev_index)
    /\ IndexFits(NamedEntries \ (IF IndexLinked THEN {} ELSE {NewIndex}), tbl_entry, index_next, meta_prev, rule)
    /\ NamesFit(EnabledEntries \ {op.entry}, NamedEntries \ {NewIndex}, rule, tbl_entry, indx_tbl_entry)

-----------------------------------------------------------------------------
(* A deletion.  The index table as it will be, once its commands are done. *)
IndexAfter == [tbl_entry EXCEPT ![FreedIndex] = 0]
IndexNextAfter == [index_next EXCEPT ![FreedIndex] = 0]
NamesAfter == [x \in Entries |-> IF op.indx_pos = "head" /\ x = tbl_entry[op.indx] THEN op.indx
                                 ELSE indx_tbl_entry[x]]
NamedIn(tb) == {i \in Entries : tb[i] # 0}

DelRule == DelRuleCommand(op.entry)

IndexTold ==
    /\ FreedIndex \in Base => tbl_entry[FreedIndex] = 0
    /\ IndexFits(NamedIn(IndexAfter), IndexAfter, IndexNextAfter, MetaAfterDelete, rule)
    /\ NamesFit(EnabledEntries \ {op.entry}, NamedIn(IndexAfter), rule, IndexAfter, NamesAfter)

RulesWhole ==
    /\ RulesFit(EnabledEntries, rule, next_index, prev_index)
    /\ op.entry \in EnabledEntries /\ rule[op.entry] \in Rules
    /\ op.pos = Position(next_index, op.entry)

NothingDeleted ==
    /\ cmd = DelIndexCommands(op.indx) \o <<Head(DelRule)>>
    /\ op.indx = indx_tbl_entry[op.entry] /\ op.indx_pos = Position(index_next, op.indx)
    /\ op.moved = index_next[op.indx]
    /\ RulesWhole
    /\ IndexFits(NamedEntries, tbl_entry, index_next, meta_prev, rule)
    /\ NamesFit(EnabledEntries, NamedEntries, rule, tbl_entry, indx_tbl_entry)

(* The head of the index chain names what the entry after it names. *)
HeadOverwritten ==
    /\ op.indx_pos = "head" /\ op.indx \in Base \cap NamedEntries
    /\ op.moved = index_next[op.indx] /\ op.moved # 0
    /\ tbl_entry[op.indx] = tbl_entry[op.moved]
    /\ cmd = <<Order("index_next", op.indx, index_next[op.moved]), Head(DelRule)>>
    /\ RulesWhole
    /\ IndexFits(NamedEntries, tbl_entry, index_next, meta_prev, rule)
    /\ NamesFit(EnabledEntries \ {op.entry}, NamedEntries \ {op.indx}, rule, tbl_entry, indx_tbl_entry)

IndexDeleted == cmd = <<Head(DelRule)>> /\ RulesWhole /\ IndexTold

EmptiedNow == Emptied(op.pos, op.entry)
RulesAfter == [x \in Entries |-> IF x \in EmptiedNow THEN NoRule ELSE rule[x]]
NextAfter == [x \in Entries |-> IF x \in EmptiedNow THEN 0 ELSE next_index[x]]

RuleDeleted ==
    /\ cmd = <<>> /\ IndexTold
    /\ RulesFit(EnabledEntries \ EmptiedNow, RulesAfter, NextAfter, PrevAfterDelete(op.pos, op.entry))
    /\ op.entry \notin EnabledEntries \/ rule[op.entry] = Dead \/ op.entry \in EmptiedNow \cap Expn

OneIsDeleted ==
    /\ op.hdl \in Handles /\ rule_id_array[op.hdl] = op.entry /\ op.entry \in Cells
    /\ op.indx \in Cells
    /\ NothingDeleted \/ HeadOverwritten \/ IndexDeleted \/ RuleDeleted

-----------------------------------------------------------------------------
OpTypeOK ==
    \/ op = Idle
    \/ op \in [fn : {"add"}, entry : Entries]
    \/ op \in [fn : {"del"}, hdl : Handles, entry : Entries, pos : {"only_one", "head", "middle", "last"},
               indx : Entries, indx_pos : {"only_one", "head", "middle", "last"}, moved : Entries]
    \/ op \in [fn : {"done"}, ret : {0} \cup Handles]

HandlesFit ==
    /\ \A h \in Handles : rule_id_array[h] # 0 /\ ~BeingDeleted(h) =>
        /\ rule_id_array[h] \in EnabledEntries /\ rule[rule_id_array[h]] \in Rules
        /\ Running => rule_id_array[h] # op.entry
    /\ \A h \in Handles : rule_id_array[h] # 0 => h < TableEntries + ExpnEntries
    /\ \A g, h \in Handles : rule_id_array[g] # 0 /\ rule_id_array[g] = rule_id_array[h] => g = h

DriverInv ==
    /\ NatTypeOK /\ OpTypeOK /\ HandlesFit
    /\ ~Running => NoneRuns
    /\ Adding => OneIsAdded
    /\ Deleting => OneIsDeleted

-----------------------------------------------------------------------------
(* Sizes. *)
LEMMA SizeFacts ==
  /\ TableEntries \in Nat /\ ExpnEntries \in Nat /\ TableEntries >= 2 /\ ExpnEntries >= 2
  /\ Cells \subseteq Entries /\ Base \subseteq Entries /\ Expn \subseteq Entries
  /\ 0 \in Entries /\ 0 \notin Cells /\ Base \cap Expn = {}
  /\ Entries \subseteq Nat /\ Handles \subseteq Nat
  /\ \A e \in Cells : e \in Base <=> ~(e >= TableEntries)
BY SizeAssumption DEF Cells, Base, Expn, Entries, Handles

(* A set of numbers has a least one. *)
LEMMA LeastIsMember ==
  ASSUME NEW S \in SUBSET Nat, S # {}
  PROVE  Least(S) \in S /\ \A y \in S : Least(S) <= y
<1>1. PICK x \in S : \A y \in S : <<y, x>> \notin OpToRel(<, Nat)
  BY NatLessThanWellFounded, WFMin
<1>2. \A y \in S : ~(y < x)
  BY <1>1, Zenon DEF OpToRel
<1>3. \A y \in S : x <= y
  BY <1>2
<1> QED BY <1>3 DEF Least

-----------------------------------------------------------------------------
(* The chain of s is the least set that holds s and what follows. *)
LEMMA ChainStart == \A nxt, s : s \in Chain(nxt, s)
BY DEF Chain

LEMMA ChainLeast ==
  ASSUME NEW nxt, NEW s, NEW S \in SUBSET Expn, Follows(nxt, S \cup {s})
  PROVE  Chain(nxt, s) \subseteq S \cup {s}
BY DEF Chain

LEMMA ChainFollows ==
  ASSUME NEW nxt, NEW s \in Base, NEW x \in Chain(nxt, s), nxt[x] \in Expn
  PROVE  nxt[x] \in Chain(nxt, s)
<1>1. ASSUME NEW S \in SUBSET Expn, Follows(nxt, S \cup {s}) PROVE nxt[x] \in S
  <2>1. x \in S \cup {s}
    BY <1>1, ChainLeast
  <2>2. nxt[x] \in S \cup {s, 0}
    BY <1>1, <2>1 DEF Follows
  <2> QED BY <2>2, SizeFacts DEF Cells
<1> QED BY <1>1 DEF Chain

(* A chain all of whose closed sets are closed for another is no smaller. *)
LEMMA ChainGrows ==
  ASSUME NEW nxt, NEW new, NEW s,
         \A S \in SUBSET Expn : Follows(new, S \cup {s}) => Follows(nxt, S \cup {s})
  PROVE  Chain(nxt, s) \subseteq Chain(new, s)
BY DEF Chain

(* Links taken out do not make a chain longer. *)
LEMMA ChainShrinks ==
  ASSUME NEW nxt, NEW new, NEW s \in Entries, \A x \in Entries : new[x] \in {nxt[x], 0}
  PROVE  Chain(new, s) \subseteq Chain(nxt, s)
<1>1. ASSUME NEW S \in SUBSET Expn, Follows(nxt, S \cup {s}) PROVE Follows(new, S \cup {s})
  BY <1>1, SizeFacts DEF Follows
<1> QED BY <1>1, ChainGrows

(* The entries of a used chain are used, and start where it starts. *)
LEMMA ChainUsed ==
  ASSUME NEW used, NEW nxt, NEW prv, NEW home, Chained(used, nxt, prv, home),
         NEW s \in Base, s \in used
  PROVE  \A x \in Chain(nxt, s) : x \in used /\ home[x] = s
<1> DEFINE S == {x \in used \cap Expn : home[x] = s}
<1>1. Follows(nxt, S \cup {s})
  <2>1. ASSUME NEW x \in S \cup {s} PROVE nxt[x] \in S \cup {s} \cup {0}
    <3>1. x \in used /\ home[x] = s
      BY DEF Chained
    <3> QED BY <3>1 DEF Chained, Linked
  <2> QED BY <2>1 DEF Follows
<1>2. Chain(nxt, s) \subseteq S \cup {s}
  BY <1>1, ChainLeast
<1> QED BY <1>2 DEF Chained

(* Where nothing is used, the chain is its start. *)
LEMMA ChainEmpty ==
  ASSUME NEW nxt, NEW s, nxt[s] = 0
  PROVE  Chain(nxt, s) = {s}
<1>1. Follows(nxt, {} \cup {s})
  BY DEF Follows
<1>2. Chain(nxt, s) \subseteq {} \cup {s}
  BY <1>1, ChainLeast
<1> QED BY <1>2, ChainStart

-----------------------------------------------------------------------------
(* What the links of unused entries are does not matter. *)
LEMMA ChainedElsewhere ==
  ASSUME NEW used, NEW nxt, NEW prv, NEW home, Chained(used, nxt, prv, home), NEW new \in [Entries -> Entries],
         NEW prv2, NEW home2, \A x \in Entries : new[x] = nxt[x],
         \A x \in used : home2[x] = home[x] /\ (x \in Expn => prv2[x] = prv[x])
  PROVE  Chained(used, new, prv2, home2)
<1>1. new = nxt
  BY DEF Chained
<1>2. Linked(used, new, prv2, home2)
  BY ZenonT(40), <1>1, SizeFacts DEF Chained, Linked, Cells
<1> QED BY <1>1, <1>2 DEF Chained

(* A new head of a chain. *)
LEMMA ChainedHead ==
  ASSUME NEW used, NEW nxt, NEW prv, NEW home, Chained(used, nxt, prv, home),
         NEW e \in Base, e \notin used, home[e] = e
  PROVE  Chained(used \cup {e}, nxt, prv, home)
<1>1. nxt[e] = 0
  BY SizeFacts DEF Chained, Linked
<1>2. Linked(used \cup {e}, nxt, prv, home)
  BY <1>1, SizeFacts DEF Chained, Linked, Cells
<1> QED BY <1>2, ChainStart DEF Chained, Cells

(* A new last entry of a chain. *)
LEMMA ChainedLast ==
  ASSUME NEW used, NEW nxt, NEW prv, NEW home, Chained(used, nxt, prv, home),
         NEW e \in Expn, e \notin used, NEW p \in used, nxt[p] = 0, prv[e] = p,
         home[e] \in Base, home[e] = home[p], p \in Chain(nxt, home[e])
  PROVE  Chained(used \cup {e}, [nxt EXCEPT ![p] = e], prv, home)
<1> DEFINE new == [nxt EXCEPT ![p] = e]
<1>1. p \in Entries /\ e \in Entries /\ e # p /\ e # 0 /\ e \notin Base
  BY SizeFacts DEF Chained, Cells
<1>2. new \in [Entries -> Entries] /\ new[p] = e /\ \A x \in Entries : x # p => new[x] = nxt[x]
  BY <1>1 DEF Chained
<1>3. nxt[e] = 0
  BY <1>1 DEF Chained, Linked
<1> HIDE DEF new
<1>4. Linked(used \cup {e}, new, prv, home)
  <2>1. \A x \in Entries \ (used \cup {e}) : new[x] = 0
    BY <1>1, <1>2 DEF Chained, Linked
  <2>2. ASSUME NEW x \in used \cup {e}, new[x] # 0
        PROVE  /\ new[x] \in (used \cup {e}) \cap Expn
               /\ prv[new[x]] = x /\ home[new[x]] = home[x]
    <3>1. CASE x = p
      BY <1>2, <3>1
    <3>2. CASE x # p
      <4>1. x \in used /\ new[x] = nxt[x]
        BY <1>1, <1>2, <1>3, <2>2, <3>2, SizeFacts DEF Chained, Cells
      <4> QED BY <2>2, <4>1 DEF Chained, Linked
    <3> QED BY <3>1, <3>2
  <2>3. ASSUME NEW x \in (used \cup {e}) \cap Expn
        PROVE  prv[x] \in used \cup {e} /\ new[prv[x]] = x
    <3>1. CASE x = e
      BY <1>2, <3>1
    <3>2. CASE x # e
      <4>1. prv[x] \in used /\ nxt[prv[x]] = x
        BY <3>2 DEF Chained, Linked
      <4>2. prv[x] # p /\ prv[x] \in Entries
        BY <4>1, SizeFacts DEF Chained, Cells
      <4> QED BY <1>2, <4>1, <4>2
    <3> QED BY <3>1, <3>2
  <2> QED BY <2>1, <2>2, <2>3 DEF Linked
<1>5. ASSUME NEW s \in Entries PROVE Chain(nxt, s) \subseteq Chain(new, s)
  <2>1. ASSUME NEW S \in SUBSET Expn, Follows(new, S \cup {s}) PROVE Follows(nxt, S \cup {s})
    <3>1. \A x \in S \cup {s} : nxt[x] = new[x] \/ nxt[x] = 0
      BY <1>2, SizeFacts
    <3> QED BY <2>1, <3>1 DEF Follows
  <2> QED BY <2>1, ChainGrows
<1>6. ASSUME NEW x \in used \cup {e} PROVE x \in Chain(new, home[x])
  <2>1. CASE x = e
    <3>1. p \in Chain(new, home[e])
      BY <1>5, SizeFacts
    <3> QED BY <1>2, <2>1, <3>1, ChainFollows
  <2>2. CASE x # e
    <3>1. x \in used /\ home[x] \in Entries
      BY <2>2, SizeFacts DEF Chained
    <3> QED BY <1>5, <3>1 DEF Chained
  <2> QED BY <2>1, <2>2
<1>7. \A x \in used \cup {e} : home[x] \in Base
  BY DEF Chained
<1>8. \A x \in (used \cup {e}) \cap Base : home[x] = x
  BY <1>1 DEF Chained
<1> QED BY <1>2, <1>4, <1>6, <1>7, <1>8 DEF Chained, Cells, new

(* An entry of the expansion table taken out of its chain. *)
LEMMA ChainedUnlinked ==
  ASSUME NEW used, NEW nxt, NEW prv, NEW home, Chained(used, nxt, prv, home),
         NEW e \in used \cap Expn, NEW new \in [Entries -> Entries], NEW prv2,
         \A x \in Entries : new[x] = IF x = prv[e] THEN nxt[e] ELSE IF x = e THEN 0 ELSE nxt[x],
         \A x \in used \ {e} : x \in Expn => prv2[x] = IF x = nxt[e] THEN prv[e] ELSE prv[x]
  PROVE  Chained(used \ {e}, new, prv2, home)
<1> DEFINE p == prv[e]
<1>1. p \in used /\ nxt[p] = e /\ p \in Entries /\ e \in Entries /\ e # 0 /\ e \notin Base
  BY SizeFacts DEF Chained, Linked, Cells
<1>2. \A x \in used : nxt[x] = e => x = p
  BY <1>1 DEF Chained, Linked
<1>3. p # e /\ nxt[e] # e
  <2>1. CASE p = e
    <3>1. nxt[e] = e
      BY <1>1, <2>1
    <3>2. DEFINE S == (used \cap Expn) \ {e}
    <3>3. Follows(nxt, S \cup {home[e]})
      <4>1. ASSUME NEW x \in S \cup {home[e]}, nxt[x] # 0, nxt[x] \notin S \cup {home[e]}
            PROVE  FALSE
        <5>1. x # e /\ x \in Entries
          BY <1>1, SizeFacts DEF Chained, Cells
        <5>2. x \in used
          BY <4>1, <5>1 DEF Chained, Linked
        <5>3. nxt[x] \in used \cap Expn
          BY <4>1, <5>2 DEF Chained, Linked
        <5>4. nxt[x] = e
          BY <4>1, <5>3
        <5> QED BY <1>2, <2>1, <5>1, <5>2, <5>4
      <4> QED BY <4>1 DEF Follows
    <3>4. e \in S \cup {home[e]}
      BY <3>3, ChainLeast DEF Chained
    <3> QED BY <1>1, <3>4 DEF Chained
  <2>2. CASE p # e
    <3>1. nxt[e] # e
      BY <1>2, <2>2
    <3> QED BY <2>2, <3>1
  <2> QED BY <2>1, <2>2
<1>4. new[p] = nxt[e] /\ new[e] = 0 /\ \A x \in Entries : x # p /\ x # e => new[x] = nxt[x]
  BY <1>1, <1>3
<1>5. Linked(used \ {e}, new, prv2, home)
  <2>1. ASSUME NEW x \in Entries \ (used \ {e}) PROVE new[x] = 0
    <3>1. CASE x = e
      BY <1>4, <3>1
    <3>2. CASE x # e
      BY <1>1, <1>4, <3>2 DEF Chained, Linked
    <3> QED BY <3>1, <3>2
  <2>2. ASSUME NEW x \in used \ {e}, new[x] # 0
        PROVE  /\ new[x] \in (used \ {e}) \cap Expn
               /\ prv2[new[x]] = x /\ home[new[x]] = home[x]
    <3>0. x \in Entries
      BY SizeFacts DEF Chained
    <3>1. CASE x = p
      <4>1. new[x] = nxt[e] /\ nxt[e] # 0
        BY <1>4, <2>2, <3>1
      <4>2. nxt[e] \in used \cap Expn /\ home[nxt[e]] = home[e]
        BY <4>1 DEF Chained, Linked
      <4>3. home[e] = home[p]
        BY <1>1 DEF Chained, Linked
      <4>4. prv2[nxt[e]] = p
        BY <1>3, <4>2
      <4> QED BY <1>3, <3>1, <4>1, <4>2, <4>3, <4>4
    <3>2. CASE x # p
      <4>1. new[x] = nxt[x] /\ nxt[x] # 0
        BY <1>4, <2>2, <3>0, <3>2
      <4>2. nxt[x] \in used \cap Expn /\ prv[nxt[x]] = x /\ home[nxt[x]] = home[x]
        BY <4>1 DEF Chained, Linked
      <4>3. nxt[x] # e
        BY <1>2, <3>2
      <4>4. nxt[x] # nxt[e]
        <5>1. CASE nxt[e] = nxt[x]
          <6>1. prv[nxt[e]] = e
            BY <4>1, <5>1 DEF Chained, Linked
          <6> QED BY <4>2, <5>1, <6>1
        <5> QED BY <5>1
      <4> QED BY <4>1, <4>2, <4>3, <4>4
    <3> QED BY <3>1, <3>2
  <2>3. ASSUME NEW x \in (used \ {e}) \cap Expn
        PROVE  prv2[x] \in used \ {e} /\ new[prv2[x]] = x
    <3>1. prv[x] \in used /\ nxt[prv[x]] = x /\ prv[x] \in Entries
      BY SizeFacts DEF Chained, Linked
    <3>2. CASE x = nxt[e]
      BY <1>1, <1>3, <1>4, <3>2
    <3>3. CASE x # nxt[e]
      <4>1. prv2[x] = prv[x]
        BY <3>3
      <4>2. prv[x] # e /\ prv[x] # p
        BY <1>1, <3>1, <3>3
      <4> QED BY <1>4, <3>1, <4>1, <4>2
    <3> QED BY <3>2, <3>3
  <2> QED BY <2>1, <2>2, <2>3 DEF Linked
<1>6. ASSUME NEW x \in used \ {e} PROVE x \in Chain(new, home[x])
  <2>1. home[x] \in Base /\ home[x] # e /\ x \in Chain(nxt, home[x])
    BY <1>1 DEF Chained
  <2>2. ASSUME NEW T \in SUBSET Expn, Follows(new, T \cup {home[x]})
        PROVE  x \in T \cup {home[x]}
    <3> DEFINE S == IF p \in T \cup {home[x]} THEN T \cup {e} ELSE T \ {e}
    <3>1. Follows(nxt, S \cup {home[x]})
      <4>1. ASSUME NEW y \in S \cup {home[x]} PROVE nxt[y] \in S \cup {home[x]} \cup {0}
        <5>0. y \in Entries
          BY <2>1, SizeFacts
        <5>1. CASE y = e
          <6>1. p \in T \cup {home[x]}
            BY <2>1, <5>1
          <6>2. nxt[e] \in T \cup {home[x]} \cup {0}
            BY <1>4, <2>2, <6>1 DEF Follows
          <6> QED BY <5>1, <6>1, <6>2
        <5>2. CASE y = p /\ y # e
          <6>1. p \in T \cup {home[x]}
            BY <5>2
          <6> QED BY <1>1, <5>2, <6>1
        <5>3. CASE y # p /\ y # e
          <6>1. y \in T \cup {home[x]} /\ new[y] = nxt[y]
            BY <1>4, <5>0, <5>3
          <6>2. nxt[y] \in T \cup {home[x]} \cup {0}
            BY <2>2, <6>1 DEF Follows
          <6>3. nxt[y] # e
            <7>1. CASE y \in used
              BY <1>2, <5>3, <7>1
            <7>2. CASE y \notin used
              BY <1>1, <5>0, <7>2 DEF Chained, Linked
            <7> QED BY <7>1, <7>2
          <6> QED BY <6>2, <6>3
        <5> QED BY <5>1, <5>2, <5>3
      <4> QED BY <4>1 DEF Follows
    <3>2. S \in SUBSET Expn
      OBVIOUS
    <3>3. x \in S \cup {home[x]}
      <4> HIDE DEF S
      <4> QED BY <2>1, <3>1, <3>2, ChainLeast
    <3> QED BY <3>3
  <2>3. x \in used /\ (x = home[x] \/ x \in Expn)
    BY DEF Chained, Cells
  <2>4. ASSUME x # home[x], NEW T \in SUBSET Expn, Follows(new, T \cup {home[x]}) PROVE x \in T
    BY <2>2, <2>4
  <2> QED BY <2>3, <2>4, ChainStart DEF Chain
<1>7. \A x \in used \ {e} : home[x] \in Base /\ (x \in Base => home[x] = x) /\ x \in Cells
  BY DEF Chained
<1> QED BY <1>5, <1>6, <1>7 DEF Chained

(* Heads that nothing is chained to, taken out. *)
LEMMA ChainedDropped ==
  ASSUME NEW used, NEW nxt, NEW prv, NEW home, Chained(used, nxt, prv, home),
         NEW D, \A d \in D \cap used : d \in Base /\ nxt[d] = 0
  PROVE  Chained(used \ D, nxt, prv, home)
<1>1. ASSUME NEW x \in used \ D, nxt[x] # 0 PROVE nxt[x] \in (used \ D) \cap Expn
  <2>1. nxt[x] \in used \cap Expn
    BY <1>1 DEF Chained, Linked
  <2> QED BY <2>1, SizeFacts
<1>2. ASSUME NEW x \in (used \ D) \cap Expn PROVE prv[x] \in used \ D
  <2>1. prv[x] \in used /\ nxt[prv[x]] = x
    BY DEF Chained, Linked
  <2> QED BY <2>1, SizeFacts DEF Cells
<1>3. \A x \in Entries \ (used \ D) : nxt[x] = 0
  BY DEF Chained, Linked
<1>4. Linked(used \ D, nxt, prv, home)
  BY <1>1, <1>2, <1>3 DEF Chained, Linked
<1> QED BY <1>4 DEF Chained

-----------------------------------------------------------------------------
(* Commands put together. *)
LEMMA PairJoined == \A a, b : <<a>> \o <<b>> = <<a, b>>
<1> SUFFICES ASSUME NEW a, NEW b PROVE <<a>> \o <<b>> = <<a, b>> OBVIOUS
<1> DEFINE S == {a, b}  q == <<a>> \o <<b>>
<1>1. <<a>> \in Seq(S) /\ <<b>> \in Seq(S) /\ <<a, b>> \in Seq(S) /\ Len(<<a>>) = 1 /\ Len(<<b>>) = 1
  OBVIOUS
<1>2. q \in Seq(S) /\ Len(q) = 2 /\ q[1] = a /\ q[2] = b
  BY <1>1, ConcatProperties
<1> HIDE DEF q
<1>3. \A k \in 1 .. Len(q) : q[k] = <<a, b>>[k]
  BY <1>2
<1>4. q = <<a, b>>
  BY <1>1, <1>2, <1>3, SeqEqual
<1> QED BY <1>4 DEF q

LEMMA TripleJoined == \A a, b, c : <<a, b>> \o <<c>> = <<a, b, c>> /\ <<a>> \o <<b, c>> = <<a, b, c>>
<1> SUFFICES ASSUME NEW a, NEW b, NEW c
             PROVE  <<a, b>> \o <<c>> = <<a, b, c>> /\ <<a>> \o <<b, c>> = <<a, b, c>>
  OBVIOUS
<1> DEFINE S == {a, b, c}  q == <<a, b>> \o <<c>>  t == <<a>> \o <<b, c>>
<1>1. /\ <<a>> \in Seq(S) /\ <<c>> \in Seq(S) /\ <<a, b>> \in Seq(S) /\ <<b, c>> \in Seq(S)
      /\ <<a, b, c>> \in Seq(S) /\ Len(<<a>>) = 1 /\ Len(<<c>>) = 1 /\ Len(<<a, b>>) = 2 /\ Len(<<b, c>>) = 2
  OBVIOUS
<1>2. q \in Seq(S) /\ Len(q) = 3 /\ q[1] = a /\ q[2] = b /\ q[3] = c
  BY <1>1, ConcatProperties
<1>3. t \in Seq(S) /\ Len(t) = 3 /\ t[1] = a /\ t[2] = b /\ t[3] = c
  BY <1>1, ConcatProperties
<1> HIDE DEF q, t
<1>4. q = <<a, b, c>>
  <2>1. \A k \in 1 .. Len(q) : q[k] = <<a, b, c>>[k]
    BY <1>2
  <2> QED BY <1>1, <1>2, <2>1, SeqEqual
<1>5. t = <<a, b, c>>
  <2>1. \A k \in 1 .. Len(t) : t[k] = <<a, b, c>>[k]
    BY <1>3
  <2> QED BY <1>1, <1>3, <2>1, SeqEqual
<1> QED BY <1>4, <1>5 DEF q, t

LEMMA FourJoined == \A a, b, c, d : <<a, b, c>> \o <<d>> = <<a, b, c, d>>
<1> SUFFICES ASSUME NEW a, NEW b, NEW c, NEW d PROVE <<a, b, c>> \o <<d>> = <<a, b, c, d>> OBVIOUS
<1> DEFINE S == {a, b, c, d}  q == <<a, b, c>> \o <<d>>
<1>1. /\ <<a, b, c>> \in Seq(S) /\ <<d>> \in Seq(S) /\ <<a, b, c, d>> \in Seq(S)
      /\ Len(<<a, b, c>>) = 3 /\ Len(<<d>>) = 1
  OBVIOUS
<1>2. q \in Seq(S) /\ Len(q) = 4 /\ q[1] = a /\ q[2] = b /\ q[3] = c /\ q[4] = d
  BY <1>1, ConcatProperties
<1> HIDE DEF q
<1>3. \A k \in 1 .. Len(q) : q[k] = <<a, b, c, d>>[k]
  BY <1>2
<1>4. q = <<a, b, c, d>>
  BY <1>1, <1>2, <1>3, SeqEqual
<1> QED BY <1>4 DEF q

LEMMA NothingJoined == \A a, b : <<>> \o <<a>> = <<a>> /\ <<a>> \o <<>> = <<a>> /\ <<a, b>> \o <<>> = <<a, b>>
OBVIOUS

LEMMA AddedCommands ==
  ASSUME NEW e, NEW p, NEW i, NEW ip
  PROVE  AddCommands(e, p, i, ip) =
           IF p = 0
           THEN IF ip = 0 THEN <<Order("index", i, e), Order("enable", e, TRUE)>>
                ELSE <<Order("index", i, e), Order("index_next", ip, i), Order("enable", e, TRUE)>>
           ELSE IF ip = 0 THEN <<Order("next_index", p, e), Order("index", i, e), Order("enable", e, TRUE)>>
                ELSE <<Order("next_index", p, e), Order("index", i, e), Order("index_next", ip, i),
                       Order("enable", e, TRUE)>>
<1> DEFINE N == Order("next_index", p, e)  I == Order("index", i, e)
           X == Order("index_next", ip, i)  E == Order("enable", e, TRUE)
<1>1. AddCommands(e, p, i, ip) =
        (((IF p = 0 THEN <<>> ELSE <<N>>) \o <<I>>) \o (IF ip = 0 THEN <<>> ELSE <<X>>)) \o <<E>>
  BY DEF AddCommands, LinkAfter, Order
<1> HIDE DEF N, I, X, E
<1>2. /\ <<N>> \o <<I>> = <<N, I>> /\ <<I>> \o <<X>> = <<I, X>> /\ <<I>> \o <<E>> = <<I, E>>
      /\ <<N, I>> \o <<X>> = <<N, I, X>> /\ <<N, I>> \o <<E>> = <<N, I, E>>
      /\ <<I, X>> \o <<E>> = <<I, X, E>> /\ <<N, I, X>> \o <<E>> = <<N, I, X, E>>
  <2>1. <<N>> \o <<I>> = <<N, I>> /\ <<I>> \o <<X>> = <<I, X>> /\ <<I>> \o <<E>> = <<I, E>>
    BY PairJoined
  <2>2. <<N, I>> \o <<X>> = <<N, I, X>> /\ <<N, I>> \o <<E>> = <<N, I, E>> /\ <<I, X>> \o <<E>> = <<I, X, E>>
    BY TripleJoined
  <2>3. <<N, I, X>> \o <<E>> = <<N, I, X, E>>
    BY FourJoined
  <2> QED BY <2>1, <2>2, <2>3
<1>3. <<>> \o <<I>> = <<I>> /\ <<I>> \o <<>> = <<I>> /\ <<N, I>> \o <<>> = <<N, I>>
  BY NothingJoined
<1>4. AddCommands(e, p, i, ip) = IF p = 0 THEN IF ip = 0 THEN <<I, E>> ELSE <<I, X, E>>
                                 ELSE IF ip = 0 THEN <<N, I, E>> ELSE <<N, I, X, E>>
  <2>1. CASE p = 0 /\ ip = 0
    BY <1>1, <1>2, <1>3, <2>1
  <2>2. CASE p = 0 /\ ip # 0
    BY <1>1, <1>2, <1>3, <2>2
  <2>3. CASE p # 0 /\ ip = 0
    BY <1>1, <1>2, <1>3, <2>3
  <2>4. CASE p # 0 /\ ip # 0
    BY <1>1, <1>2, <1>3, <2>4
  <2> QED BY <2>1, <2>2, <2>3, <2>4
<1> QED BY <1>4 DEF N, I, X, E

-----------------------------------------------------------------------------
(* What is changed at unused entries does not matter. *)
LEMMA RulesElsewhere ==
  ASSUME NEW used, NEW ru, NEW nx, NEW pv, RulesFit(used, ru, nx, pv),
         NEW ru2, NEW nx2 \in [Entries -> Entries], NEW pv2,
         \A x \in Entries : nx2[x] = nx[x],
         \A x \in used : ru2[x] = ru[x] /\ pv2[x] = pv[x]
  PROVE  RulesFit(used, ru2, nx2, pv2)
<1>1. used \subseteq Entries
  BY SizeFacts DEF RulesFit, Chained
<1>2. \A x \in used : RuleHome(ru2)[x] = RuleHome(ru)[x]
  BY <1>1 DEF RuleHome
<1>3. Chained(used, nx2, pv2, RuleHome(ru2))
  BY <1>2, ChainedElsewhere DEF RulesFit
<1> QED BY <1>3 DEF RulesFit

LEMMA IndexElsewhere ==
  ASSUME NEW used, NEW tb, NEW inx, NEW mp, NEW ru, IndexFits(used, tb, inx, mp, ru),
         NEW tb2, NEW inx2 \in [Entries -> Entries], NEW mp2, NEW ru2,
         \A x \in Entries : inx2[x] = inx[x],
         \A x \in used : tb2[x] = tb[x] /\ ru2[tb[x]] = ru[tb[x]] /\ (x \in Expn => mp2[x] = mp[x])
  PROVE  IndexFits(used, tb2, inx2, mp2, ru2)
<1>1. used \subseteq Entries
  BY SizeFacts DEF IndexFits, Chained
<1>2. \A x \in used : IndexHome(tb2, ru2)[x] = IndexHome(tb, ru)[x]
  BY <1>1 DEF IndexHome
<1>3. Chained(used, inx2, mp2, IndexHome(tb2, ru2))
  BY <1>2, ChainedElsewhere DEF IndexFits
<1> QED BY <1>3 DEF IndexFits

LEMMA NamesElsewhere ==
  ASSUME NEW used, NEW named, NEW ru, NEW tb, NEW ix, NamesFit(used, named, ru, tb, ix),
         NEW ru2, NEW tb2, NEW ix2,
         \A x \in used : ru2[x] = ru[x] /\ ix2[x] = ix[x],
         \A x \in named : tb2[x] = tb[x]
  PROVE  NamesFit(used, named, ru2, tb2, ix2)
BY DEF NamesFit

(* Where a new entry goes. *)
LEMMA EntryChosen ==
  ASSUME NEW used, NEW nxt, NEW prv, NEW home, Chained(used, nxt, prv, home),
         NEW s \in Base, NEW e \in Entries, NEW p \in Entries, GenerateEntry(used, nxt, s, e, p)
  PROVE  /\ e \in Cells /\ e \notin used
         /\ \/ e = s /\ p = 0
            \/ e \in Expn /\ p \in used /\ p # e /\ p # 0 /\ p \in Chain(nxt, s) /\ nxt[p] = 0 /\ home[p] = s
<1>1. CASE s \notin used /\ e = s /\ p = 0
  BY <1>1 DEF Cells
<1>2. CASE s \in used /\ Expn \ used # {} /\ e = Least(Expn \ used) /\ p \in Chain(nxt, s) /\ nxt[p] = 0
  <2>1. Expn \ used \subseteq Nat
    BY SizeFacts DEF Cells
  <2>2. e \in Expn \ used
    BY <1>2, <2>1, LeastIsMember
  <2>3. p \in used /\ home[p] = s
    BY <1>2, ChainUsed
  <2>4. p # 0
    BY <2>3, SizeFacts DEF Chained
  <2> QED BY <1>2, <2>2, <2>3, <2>4 DEF Cells
<1> QED BY <1>1, <1>2 DEF GenerateEntry

-----------------------------------------------------------------------------
(* Steps that change no table. *)
LEMMA RestingOps ==
  ASSUME OpTypeOK, op = Idle \/ op \in [fn : {"done"}, ret : {0} \cup Handles]
  PROVE  ~Running /\ ~Adding /\ ~Deleting
BY DEF Idle, Running, Adding, Deleting

LEMMA TablesKept ==
  ASSUME DriverInv, ~Running, op' = Idle \/ op' \in [fn : {"done"}, ret : {0} \cup Handles],
         UNCHANGED <<ruleTable, indexTable, rule_id_array, cmd>>
  PROVE  DriverInv'
<1>1. ~Running' /\ ~Adding' /\ ~Deleting' /\ OpTypeOK'
  BY DEF Idle, Running, Adding, Deleting, OpTypeOK
<1>2. NoneRuns'
  BY DEF DriverInv, NoneRuns, ruleTable, indexTable, EnabledEntries, NamedEntries
<1>3. NatTypeOK'
  BY DEF DriverInv, NatTypeOK, ruleTable, indexTable
<1>4. HandlesFit'
  BY <1>1 DEF DriverInv, HandlesFit, BeingDeleted, Running, Deleting, ruleTable, indexTable, EnabledEntries
<1> QED BY <1>1, <1>2, <1>3, <1>4 DEF DriverInv

(* The tables when they are empty. *)
LEMMA EmptyFits ==
  ASSUME rule = [e \in Entries |-> NoRule], enable = [e \in Entries |-> FALSE],
         next_index = Cleared, prev_index = Cleared, indx_tbl_entry = Cleared,
         tbl_entry = Cleared, index_next = Cleared, meta_prev = Cleared,
         rule_id_array = [h \in Handles |-> 0], cmd = <<>>, OpTypeOK, ~Running
  PROVE  DriverInv
<1>1. EnabledEntries = {} /\ NamedEntries = {}
  BY DEF EnabledEntries, NamedEntries, Cleared
<1>2. Cleared \in [Entries -> Entries]
  BY SizeFacts DEF Cleared
<1>3. \A home : Chained({}, Cleared, Cleared, home)
  BY <1>2 DEF Chained, Linked, Cleared
<1>4. NoneRuns
  BY <1>1, <1>3 DEF NoneRuns, RulesFit, IndexFits, NamesFit
<1>5. NatTypeOK
  BY <1>2, SizeFacts DEF NatTypeOK
<1>6. HandlesFit
  BY DEF HandlesFit
<1>7. ~Adding /\ ~Deleting
  BY DEF Running, Adding, Deleting
<1> QED BY <1>4, <1>5, <1>6, <1>7 DEF DriverInv

LEMMA InitDriverInv == NatInit => DriverInv
<1> SUFFICES ASSUME NatInit PROVE DriverInv OBVIOUS
<1>1. OpTypeOK /\ ~Running
  BY DEF NatInit, OpTypeOK, Idle, Running
<1> QED BY <1>1, EmptyFits DEF NatInit

LEMMA ResetKept ==
  ASSUME DriverInv, op = Idle, ipa_nati_reset_tbl
  PROVE  DriverInv'
<1>1. ~Running /\ cmd = <<>>
  BY RestingOps DEF DriverInv, NoneRuns
<1>2. OpTypeOK' /\ ~Running' /\ cmd' = <<>>
  BY <1>1 DEF ipa_nati_reset_tbl, OpTypeOK, Idle, Running
<1>3. EnabledEntries' = {} /\ NamedEntries' = {}
  BY DEF EnabledEntries, NamedEntries, Cleared, ipa_nati_reset_tbl
<1>4. Cleared \in [Entries -> Entries]
  BY SizeFacts DEF Cleared
<1>5. \A home : Chained({}, Cleared, Cleared, home)
  BY <1>4 DEF Chained, Linked, Cleared
<1>6. NoneRuns'
  BY <1>2, <1>3, <1>5 DEF NoneRuns, RulesFit, IndexFits, NamesFit, ipa_nati_reset_tbl
<1>7. NatTypeOK'
  BY <1>4, SizeFacts DEF NatTypeOK, ipa_nati_reset_tbl
<1>8. HandlesFit'
  BY DEF HandlesFit, ipa_nati_reset_tbl
<1>9. ~Adding' /\ ~Deleting'
  BY <1>2 DEF Running, Adding, Deleting
<1> QED BY <1>2, <1>6, <1>7, <1>8, <1>9 DEF DriverInv

-----------------------------------------------------------------------------
(* An addition begins. *)
LEMMA AddKept ==
  ASSUME DriverInv, op = Idle, NEW r \in Rules, add_ipv4_rule(r)
  PROVE  DriverInv'
<1>1. ~Running /\ ~Deleting /\ NoneRuns
  BY RestingOps DEF DriverInv
<1>2. CASE op' = [fn |-> "done", ret |-> 0] /\ UNCHANGED <<ruleTable, indexTable, rule_id_array, cmd>>
  BY <1>1, <1>2, TablesKept
<1>3. CASE \E e, i, p, ip \in Entries :
            /\ GenerateEntry(EnabledEntries, next_index, dst_hash[r], e, p)
            /\ GenerateEntry(NamedEntries, index_next, src_hash[r], i, ip)
            /\ rule' = [rule EXCEPT ![e] = r]
            /\ enable' = [enable EXCEPT ![e] = FALSE]
            /\ next_index' = [next_index EXCEPT ![e] = 0]
            /\ prev_index' = [prev_index EXCEPT ![e] = p]
            /\ indx_tbl_entry' = [indx_tbl_entry EXCEPT ![e] = i]
            /\ meta_prev' = (IF i \in Expn THEN [meta_prev EXCEPT ![i] = ip] ELSE meta_prev)
            /\ cmd' = AddCommands(e, p, i, ip)
            /\ op' = [fn |-> "add", entry |-> e]
            /\ UNCHANGED <<tbl_entry, index_next, rule_id_array>>
  <2>a. PICK e \in Entries, i \in Entries, p \in Entries, ip \in Entries :
            /\ GenerateEntry(EnabledEntries, next_index, dst_hash[r], e, p)
            /\ GenerateEntry(NamedEntries, index_next, src_hash[r], i, ip)
            /\ rule' = [rule EXCEPT ![e] = r]
            /\ enable' = [enable EXCEPT ![e] = FALSE]
            /\ next_index' = [next_index EXCEPT ![e] = 0]
            /\ prev_index' = [prev_index EXCEPT ![e] = p]
            /\ indx_tbl_entry' = [indx_tbl_entry EXCEPT ![e] = i]
            /\ meta_prev' = (IF i \in Expn THEN [meta_prev EXCEPT ![i] = ip] ELSE meta_prev)
            /\ cmd' = AddCommands(e, p, i, ip)
            /\ op' = [fn |-> "add", entry |-> e]
            /\ UNCHANGED <<tbl_entry, index_next, rule_id_array>>
    BY <1>3
  <2>0. NatTypeOK /\ dst_hash[r] \in Base /\ src_hash[r] \in Base
    BY HashAssumption DEF DriverInv
  <2>1. /\ e \in Cells /\ e \notin EnabledEntries
        /\ \/ e = dst_hash[r] /\ p = 0
           \/ e \in Expn /\ p \in EnabledEntries /\ p # e /\ p # 0 /\ p \in Chain(next_index, dst_hash[r])
              /\ next_index[p] = 0
    <3>1. Chained(EnabledEntries, next_index, prev_index, RuleHome(rule))
      BY <1>1 DEF NoneRuns, RulesFit
    <3> QED BY <2>a, <2>0, <3>1, EntryChosen
  <2>2. /\ i \in Cells /\ i \notin NamedEntries
        /\ \/ i = src_hash[r] /\ ip = 0
           \/ i \in Expn /\ ip \in NamedEntries /\ ip # i /\ ip # 0 /\ ip \in Chain(index_next, src_hash[r])
              /\ index_next[ip] = 0
    <3>1. Chained(NamedEntries, index_next, meta_prev, IndexHome(tbl_entry, rule))
      BY <1>1 DEF NoneRuns, IndexFits
    <3> QED BY <2>a, <2>0, <3>1, EntryChosen
  <2>3. e # 0 /\ i # 0 /\ (e \in Base <=> p = 0) /\ (i \in Base <=> ip = 0) /\ (i \in Expn <=> ip # 0)
        /\ (e \in Expn <=> p # 0)
    BY <2>0, <2>1, <2>2, SizeFacts DEF Cells
  <2>4. ~enable[e] /\ next_index[e] = 0 /\ tbl_entry[i] = 0 /\ index_next[i] = 0
    BY <1>1, <2>1, <2>2 DEF EnabledEntries, NamedEntries, NoneRuns, RulesFit, IndexFits, Chained, Linked
  <2>5. /\ rule'[e] = r /\ prev_index'[e] = p /\ indx_tbl_entry'[e] = i /\ ~enable'[e]
        /\ \A x \in Entries : x # e => /\ rule'[x] = rule[x] /\ prev_index'[x] = prev_index[x]
                                       /\ indx_tbl_entry'[x] = indx_tbl_entry[x] /\ enable'[x] = enable[x]
        /\ \A x \in Entries : next_index'[x] = next_index[x]
        /\ ip # 0 => meta_prev'[i] = ip
        /\ \A x \in Entries : x # i => meta_prev'[x] = meta_prev[x]
    BY <2>a, <2>0, <2>3, <2>4 DEF NatTypeOK
  <2>6. NatTypeOK'
    BY <2>a, <2>0, SizeFacts DEF NatTypeOK
  <2>7. next_index' = next_index /\ next_index' \in [Entries -> Entries] /\ index_next' \in [Entries -> Entries]
    BY <2>a, <2>0, <2>5, <2>6 DEF NatTypeOK
  <2>8. EnabledEntries' = EnabledEntries /\ NamedEntries' = NamedEntries
    BY <2>a, <2>4, <2>5 DEF EnabledEntries, NamedEntries
  <2>9. OpTypeOK' /\ Adding' /\ ~Deleting' /\ Running' /\ op'.entry = e /\ op'.fn = "add"
    BY <2>a DEF OpTypeOK, Adding, Deleting, Running
  <2>10. NewIndex' = i /\ RuleBefore' = p /\ IndexBefore' = ip
    BY <2>3, <2>5, <2>9 DEF NewIndex, RuleBefore, IndexBefore
  <2>11. (RuleLinked' <=> p = 0) /\ (IndexLinked' <=> ip = 0) /\ ~IndexNamed'
    BY <2>a, <2>1, <2>2, <2>3, <2>4, <2>7, <2>9, <2>10 DEF RuleLinked, IndexLinked, IndexNamed
  <2>12. EnabledEntries \subseteq Entries \ {e} /\ NamedEntries \subseteq Entries \ {i}
    BY <2>1, <2>2 DEF EnabledEntries, NamedEntries
  <2>13. NewRuleFits'
    BY <2>1, <2>3, <2>4, <2>5, <2>7, <2>8, <2>9, <2>10, <2>11, <2>12 DEF NewRuleFits
  <2>14. NewIndexFits'
    <3>1. rule'[op'.entry] = r /\ index_next' = index_next /\ tbl_entry' = tbl_entry
      BY <2>a, <2>5, <2>9
    <3> QED BY <2>2, <2>11, <2>3, <2>4, <2>8, <2>10, <3>1 DEF NewIndexFits
  <2>15. AddStage'
    BY <2>a, <2>5, <2>9, <2>10, <2>11, AddedCommands DEF AddStage, LinkRule, NameRule, LinkIndex, EnableRule
  <2>16. RulesFit(EnabledEntries, rule', next_index', prev_index')
    <3>1. \A x \in EnabledEntries : rule'[x] = rule[x] /\ prev_index'[x] = prev_index[x]
      BY <2>5, <2>12
    <3>2. RulesFit(EnabledEntries, rule, next_index, prev_index)
      BY <1>1 DEF NoneRuns
    <3> QED BY <2>5, <2>7, <3>1, <3>2, RulesElsewhere
  <2>17. RulesFit(EnabledEntries \cup (IF RuleLinked THEN {op.entry} ELSE {}), rule, next_index, prev_index)'
    <3>1. CASE p # 0
      BY <2>8, <2>11, <2>16, <3>1
    <3>2. CASE p = 0
      <4>1. e \in Base /\ e = dst_hash[r]
        BY <2>1, <2>3, <3>2
      <4>2. RuleHome(rule')[e] = e
        BY <4>1 DEF RuleHome
      <4>3. Chained(EnabledEntries \cup {e}, next_index', prev_index', RuleHome(rule'))
        BY <2>1, <2>16, <4>1, <4>2, ChainedHead DEF RulesFit
      <4>4. RulesFit(EnabledEntries \cup {e}, rule', next_index', prev_index')
        BY <2>5, <2>16, <4>1, <4>3 DEF RulesFit
      <4> QED BY <2>8, <2>9, <2>11, <3>2, <4>4
    <3> QED BY <3>1, <3>2
  <2>18. \A x \in NamedEntries : tbl_entry[x] \in EnabledEntries
    BY <1>1 DEF NoneRuns, NamesFit
  <2>19. IndexFits(NamedEntries, tbl_entry', index_next', meta_prev', rule')
    <3>1. \A x \in NamedEntries : /\ tbl_entry'[x] = tbl_entry[x] /\ rule'[tbl_entry[x]] = rule[tbl_entry[x]]
                                  /\ x \in Expn => meta_prev'[x] = meta_prev[x]
      BY <2>a, <2>5, <2>12, <2>18
    <3>2. IndexFits(NamedEntries, tbl_entry, index_next, meta_prev, rule)
      BY <1>1 DEF NoneRuns
    <3>3. index_next' = index_next
      BY <2>a
    <3> QED BY <2>7, <3>1, <3>2, <3>3, IndexElsewhere
  <2>20. IndexFits(NamedEntries \ (IF IndexLinked THEN {} ELSE {NewIndex}), tbl_entry, index_next, meta_prev, rule)'
    <3>1. NamedEntries \ (IF IndexLinked' THEN {} ELSE {i}) = NamedEntries
      BY <2>12
    <3> QED BY <2>8, <2>10, <2>19, <3>1
  <2>21. NamesFit(EnabledEntries \ {op.entry}, NamedEntries \ {NewIndex}, rule, tbl_entry, indx_tbl_entry)'
    <3>1. NamesFit(EnabledEntries, NamedEntries, rule', tbl_entry', indx_tbl_entry')
      <4>1. NamesFit(EnabledEntries, NamedEntries, rule, tbl_entry, indx_tbl_entry)
        BY <1>1 DEF NoneRuns
      <4>2. /\ \A x \in EnabledEntries : rule'[x] = rule[x] /\ indx_tbl_entry'[x] = indx_tbl_entry[x]
            /\ \A x \in NamedEntries : tbl_entry'[x] = tbl_entry[x]
        BY <2>a, <2>5, <2>12
      <4> QED BY <4>1, <4>2, NamesElsewhere
    <3>2. EnabledEntries \ {e} = EnabledEntries /\ NamedEntries \ {i} = NamedEntries
      BY <2>12
    <3> QED BY <2>8, <2>9, <2>10, <3>1, <3>2
  <2>22. HandlesFit'
    BY <1>1, <2>a, <2>1, <2>5, <2>8, <2>9, <2>12 DEF DriverInv, HandlesFit, BeingDeleted, Deleting
  <2> QED BY <2>6, <2>9, <2>13, <2>14, <2>15, <2>17, <2>20, <2>21, <2>22 DEF DriverInv, OneIsAdded
<1> QED BY <1>2, <1>3 DEF add_ipv4_rule

-----------------------------------------------------------------------------
(* What a write does, by its command. *)
LEMMA Written ==
  ASSUME Write, NEW f, NEW a, NEW v, Head(cmd) = Order(f, a, v)
  PROVE  /\ cmd # <<>> /\ cmd' = Tail(cmd) /\ Running
         /\ next_index' = IF f = "next_index" THEN [next_index EXCEPT ![a] = v] ELSE next_index
         /\ enable' = IF f = "enable" THEN [enable EXCEPT ![a] = v] ELSE enable
         /\ rule' = IF f = "protocol" THEN [rule EXCEPT ![a] = v] ELSE rule
         /\ tbl_entry' = IF f \in {"index", "tbl_entry"} THEN [tbl_entry EXCEPT ![a] = v] ELSE tbl_entry
         /\ index_next' = IF f = "index" THEN [index_next EXCEPT ![a] = 0]
                          ELSE IF f = "index_next" THEN [index_next EXCEPT ![a] = v] ELSE index_next
         /\ UNCHANGED <<prev_index, indx_tbl_entry, meta_prev, rule_id_array, op>>
<1>1. Head(cmd).field = f /\ Head(cmd).at = a /\ Head(cmd).value = v
  BY DEF Order
<1>2. cmd # <<>> /\ cmd' = Tail(cmd) /\ Running /\ UNCHANGED <<prev_index, indx_tbl_entry, meta_prev, rule_id_array, op>>
  BY DEF Write
<1>3. /\ next_index' = IF f = "next_index" THEN [next_index EXCEPT ![a] = v] ELSE next_index
      /\ enable' = IF f = "enable" THEN [enable EXCEPT ![a] = v] ELSE enable
      /\ rule' = IF f = "protocol" THEN [rule EXCEPT ![a] = v] ELSE rule
  BY <1>1 DEF Write
<1>4. tbl_entry' = IF f \in {"index", "tbl_entry"} THEN [tbl_entry EXCEPT ![a] = v] ELSE tbl_entry
  BY <1>1 DEF Write
<1>5. index_next' = IF f = "index" THEN [index_next EXCEPT ![a] = 0]
                    ELSE IF f = "index_next" THEN [index_next EXCEPT ![a] = v] ELSE index_next
  BY <1>1 DEF Write
<1> QED BY <1>2, <1>3, <1>4, <1>5

(* An entry of a chain that is used starts where the chain starts. *)
LEMMA ChainMember ==
  ASSUME NEW used, NEW nxt, NEW prv, NEW home, Chained(used, nxt, prv, home),
         NEW s \in Base, NEW p \in used, p \in Chain(nxt, s)
  PROVE  home[p] = s
<1>1. CASE s \in used
  BY <1>1, ChainUsed
<1>2. CASE s \notin used
  <2>1. nxt[s] = 0
    BY <1>2, SizeFacts DEF Chained, Linked
  <2> QED BY <1>2, <2>1, ChainEmpty
<1> QED BY <1>1, <1>2

(* The facts about an addition that its writes need. *)
LEMMA AddFacts ==
  ASSUME DriverInv, Adding
  PROVE  /\ NatTypeOK /\ OneIsAdded /\ ~Deleting /\ Running
         /\ op.entry \in Cells /\ op.entry \in Entries /\ op.entry # 0
         /\ NewIndex \in Cells /\ NewIndex \in Entries /\ NewIndex # 0
         /\ RuleBefore = prev_index[op.entry] /\ RuleBefore \in Entries /\ IndexBefore \in Entries
         /\ RuleBefore # op.entry /\ IndexBefore # NewIndex
         /\ rule[op.entry] \in Rules /\ indx_tbl_entry[op.entry] = NewIndex
         /\ op.entry \in Base <=> RuleBefore = 0
         /\ NewIndex \in Base <=> IndexBefore = 0
<1>1. NatTypeOK /\ OneIsAdded /\ ~Deleting /\ Running /\ NewRuleFits /\ NewIndexFits
  BY DEF DriverInv, Adding, Deleting, Running, OneIsAdded
<1>2. op.entry \in Cells /\ op.entry \in Entries /\ op.entry # 0
      /\ NewIndex \in Cells /\ NewIndex \in Entries /\ NewIndex # 0
  BY <1>1, SizeFacts DEF NewRuleFits, NewIndexFits
<1>3. RuleBefore \in Entries /\ IndexBefore \in Entries
  BY <1>1, <1>2, SizeFacts DEF NatTypeOK, RuleBefore, IndexBefore
<1>4. RuleBefore # op.entry /\ (op.entry \in Base <=> RuleBefore = 0)
  <2>1. \A x \in EnabledEntries : x # 0
    BY <1>1, SizeFacts DEF OneIsAdded, RulesFit, Chained
  <2> QED BY <1>1, <1>2, <2>1, SizeFacts DEF NewRuleFits, Cells
<1>5. IndexBefore # NewIndex /\ (NewIndex \in Base <=> IndexBefore = 0)
  <2>1. \A x \in NamedEntries \ {NewIndex} : x # 0
    BY <1>1, SizeFacts DEF OneIsAdded, IndexFits, Chained
  <2>2. NewIndex \in Base => NewIndex \notin Expn
    BY SizeFacts
  <2> QED BY <1>1, <1>2, <2>1, <2>2 DEF NewIndexFits, IndexBefore, Cells
<1> QED BY <1>1, <1>2, <1>3, <1>4, <1>5 DEF NewRuleFits, NewIndex, RuleBefore

(* The rule is chained to the last one that hashes alike. *)
LEMMA LinkRuleKept ==
  ASSUME DriverInv, Adding, Write, ~RuleLinked, ~IndexNamed, IndexLinked <=> IndexBefore = 0, ~enable[op.entry],
         cmd = IF IndexBefore = 0 THEN <<LinkRule, NameRule, EnableRule>>
               ELSE <<LinkRule, NameRule, LinkIndex, EnableRule>>
  PROVE  DriverInv'
<1> DEFINE e == op.entry  p == RuleBefore
<1>0. /\ NatTypeOK /\ OneIsAdded /\ ~Deleting /\ Running /\ NewRuleFits /\ NewIndexFits
      /\ e \in Entries /\ p \in Entries /\ p # e /\ p # 0 /\ e \in Expn /\ prev_index[e] = p /\ e # 0
  BY AddFacts DEF RuleLinked, OneIsAdded, Cells
<1>1. Head(cmd) = Order("next_index", p, e)
  BY DEF LinkRule
<1>2. /\ next_index' = [next_index EXCEPT ![p] = e]
      /\ UNCHANGED <<enable, rule, tbl_entry, index_next, prev_index, indx_tbl_entry, meta_prev, rule_id_array, op>>
      /\ cmd' = Tail(cmd)
  BY <1>1, Written
<1>3. next_index' \in [Entries -> Entries] /\ next_index'[p] = e /\ next_index'[e] = next_index[e]
  BY <1>0, <1>2 DEF NatTypeOK
<1>4. /\ EnabledEntries' = EnabledEntries /\ NamedEntries' = NamedEntries /\ NewIndex' = NewIndex
      /\ RuleBefore' = RuleBefore /\ IndexBefore' = IndexBefore /\ IndexNamed' = IndexNamed
      /\ IndexLinked' = IndexLinked
  BY <1>2 DEF EnabledEntries, NamedEntries, NewIndex, RuleBefore, IndexBefore, IndexNamed, IndexLinked
<1>5. NatTypeOK' /\ OpTypeOK' /\ ~Deleting' /\ Running' /\ Adding'
  BY <1>0, <1>2, <1>3 DEF DriverInv, NatTypeOK, OpTypeOK, Deleting, Running, Adding
<1>6. RuleLinked'
  BY <1>2, <1>3, <1>4 DEF RuleLinked
<1>7. NewRuleFits' /\ NewIndexFits'
  BY <1>0, <1>2, <1>3, <1>4, <1>6 DEF NewRuleFits, NewIndexFits
<1>8. AddStage'
  <2>1. cmd' = IF IndexBefore = 0 THEN <<NameRule, EnableRule>> ELSE <<NameRule, LinkIndex, EnableRule>>
    BY <1>2
  <2>2. NameRule' = NameRule /\ LinkIndex' = LinkIndex /\ EnableRule' = EnableRule
    BY <1>2, <1>4 DEF NameRule, LinkIndex, EnableRule
  <2> QED BY <1>2, <1>4, <1>6, <2>1, <2>2 DEF AddStage
<1>9. RulesFit(EnabledEntries \cup {e}, rule, next_index', prev_index)
  <2>1. RulesFit(EnabledEntries, rule, next_index, prev_index)
    <3>1. EnabledEntries \cup (IF RuleLinked THEN {op.entry} ELSE {}) = EnabledEntries
      OBVIOUS
    <3> QED BY <1>0, <3>1 DEF OneIsAdded
  <2>2. Chained(EnabledEntries, next_index, prev_index, RuleHome(rule))
    BY <2>1 DEF RulesFit
  <2>3. p \in EnabledEntries /\ e \notin EnabledEntries /\ next_index[p] = 0
    BY <1>0 DEF NewRuleFits, EnabledEntries
  <2>4. RuleHome(rule)[e] = dst_hash[rule[e]] /\ dst_hash[rule[e]] \in Base
    BY <1>0, HashAssumption, SizeFacts DEF RuleHome, NewRuleFits
  <2>5. p \in Chain(next_index, dst_hash[rule[e]])
    BY <1>0 DEF NewRuleFits
  <2>6. RuleHome(rule)[p] = dst_hash[rule[e]]
    BY <2>2, <2>3, <2>4, <2>5, ChainMember
  <2>7. Chained(EnabledEntries \cup {e}, [next_index EXCEPT ![p] = e], prev_index, RuleHome(rule))
    BY <1>0, <2>2, <2>3, <2>4, <2>5, <2>6, ChainedLast
  <2>8. rule[e] \in Rules /\ e \notin Base
    BY <1>0, SizeFacts DEF NewRuleFits
  <2> QED BY <1>2, <2>1, <2>7, <2>8 DEF RulesFit
<1>10. OneIsAdded'
  <2>1. RulesFit(EnabledEntries \cup (IF RuleLinked THEN {op.entry} ELSE {}), rule, next_index, prev_index)'
    BY <1>2, <1>4, <1>6, <1>9
  <2>2. IndexFits(NamedEntries \ (IF IndexLinked THEN {} ELSE {NewIndex}), tbl_entry, index_next, meta_prev, rule)'
    BY <1>0, <1>2, <1>4 DEF OneIsAdded
  <2>3. NamesFit(EnabledEntries \ {op.entry}, NamedEntries \ {NewIndex}, rule, tbl_entry, indx_tbl_entry)'
    BY <1>0, <1>2, <1>4 DEF OneIsAdded
  <2> QED BY <1>7, <1>8, <2>1, <2>2, <2>3 DEF OneIsAdded
<1>11. HandlesFit'
  BY <1>0, <1>2, <1>4 DEF DriverInv, HandlesFit, BeingDeleted, Running
<1> QED BY <1>5, <1>10, <1>11 DEF DriverInv

(* The entry of the index table is given its rule. *)
LEMMA NameRuleKept ==
  ASSUME DriverInv, Adding, Write, RuleLinked, ~IndexNamed, IndexLinked <=> IndexBefore = 0, ~enable[op.entry],
         cmd = IF IndexBefore = 0 THEN <<NameRule, EnableRule>> ELSE <<NameRule, LinkIndex, EnableRule>>
  PROVE  DriverInv'
<1> DEFINE e == op.entry  i == NewIndex
<1>0. /\ NatTypeOK /\ OneIsAdded /\ ~Deleting /\ Running /\ NewRuleFits /\ NewIndexFits
      /\ e \in Entries /\ i \in Entries /\ e # 0 /\ i # 0 /\ i \in Cells /\ IndexBefore # i
      /\ (i \in Base <=> IndexBefore = 0) /\ tbl_entry[i] = 0 /\ index_next[i] = 0 /\ rule[e] \in Rules
  BY AddFacts DEF OneIsAdded, NewIndexFits
<1>1. Head(cmd) = Order("index", i, e)
  BY DEF NameRule
<1>2. /\ tbl_entry' = [tbl_entry EXCEPT ![i] = e] /\ index_next' = [index_next EXCEPT ![i] = 0]
      /\ UNCHANGED <<enable, rule, next_index, prev_index, indx_tbl_entry, meta_prev, rule_id_array, op>>
      /\ cmd' = Tail(cmd)
  BY <1>1, Written
<1>3. /\ tbl_entry' \in [Entries -> Entries] /\ tbl_entry'[i] = e
      /\ \A x \in Entries : x # i => tbl_entry'[x] = tbl_entry[x]
      /\ index_next' = index_next /\ index_next \in [Entries -> Entries]
  BY <1>0, <1>2 DEF NatTypeOK
<1>4. /\ EnabledEntries' = EnabledEntries /\ NamedEntries' = NamedEntries \cup {i} /\ i \notin NamedEntries
      /\ NewIndex' = NewIndex /\ RuleBefore' = RuleBefore /\ IndexBefore' = IndexBefore
      /\ RuleLinked' = RuleLinked
  <2>1. NamedEntries' = NamedEntries \cup {i} /\ i \notin NamedEntries
    BY <1>0, <1>3 DEF NamedEntries
  <2> QED BY <1>2, <2>1 DEF EnabledEntries, NewIndex, RuleBefore, IndexBefore, RuleLinked
<1>5. NatTypeOK' /\ OpTypeOK' /\ ~Deleting' /\ Running' /\ Adding'
  BY <1>0, <1>2, <1>3 DEF DriverInv, NatTypeOK, OpTypeOK, Deleting, Running, Adding
<1>6. IndexNamed' /\ (IndexLinked' <=> IndexLinked)
  BY <1>2, <1>3, <1>4 DEF IndexNamed, IndexLinked
<1>7. NewRuleFits'
  BY <1>0, <1>2, <1>4 DEF NewRuleFits
<1>8. NewIndexFits'
  BY <1>0, <1>2, <1>3, <1>4, <1>6 DEF NewIndexFits
<1>9. AddStage'
  <2>1. cmd' = IF IndexBefore = 0 THEN <<EnableRule>> ELSE <<LinkIndex, EnableRule>>
    BY <1>2
  <2>2. LinkIndex' = LinkIndex /\ EnableRule' = EnableRule
    BY <1>2, <1>4 DEF LinkIndex, EnableRule
  <2> QED BY <1>2, <1>4, <1>6, <2>1, <2>2 DEF AddStage
<1>10. NamedEntries \ (IF IndexLinked THEN {} ELSE {i}) = NamedEntries
  BY <1>4
<1>11. IndexFits(NamedEntries, tbl_entry, index_next, meta_prev, rule)
  BY <1>0, <1>10 DEF OneIsAdded
<1>12. IndexFits(NamedEntries, tbl_entry', index_next, meta_prev, rule)
  <2>1. \A x \in NamedEntries : tbl_entry'[x] = tbl_entry[x]
    BY <1>3, <1>4 DEF NamedEntries
  <2> QED BY <1>3, <1>11, <2>1, IndexElsewhere
<1>13. IndexFits(NamedEntries' \ (IF IndexLinked THEN {} ELSE {i}), tbl_entry', index_next, meta_prev, rule)
  <2>1. CASE IndexBefore # 0
    <3>1. NamedEntries' \ {i} = NamedEntries
      BY <1>4
    <3> QED BY <1>12, <2>1, <3>1
  <2>2. CASE IndexBefore = 0
    <3>1. i \in Base /\ src_hash[rule[e]] = i
      BY <1>0, <2>2 DEF NewIndexFits
    <3>2. IndexHome(tbl_entry', rule)[i] = i
      BY <3>1, <1>0 DEF IndexHome
    <3>3. Chained(NamedEntries, index_next, meta_prev, IndexHome(tbl_entry', rule))
      BY <1>12 DEF IndexFits
    <3>4. Chained(NamedEntries \cup {i}, index_next, meta_prev, IndexHome(tbl_entry', rule))
      BY <1>4, <3>1, <3>2, <3>3, ChainedHead
    <3>5. IndexFits(NamedEntries \cup {i}, tbl_entry', index_next, meta_prev, rule)
      BY <1>3, <1>12, <3>1, <3>4 DEF IndexFits
    <3>6. NamedEntries' \ {} = NamedEntries \cup {i}
      BY <1>4
    <3> QED BY <2>2, <3>5, <3>6
  <2> QED BY <2>1, <2>2
<1>14. OneIsAdded'
  <2>1. RulesFit(EnabledEntries \cup (IF RuleLinked THEN {op.entry} ELSE {}), rule, next_index, prev_index)'
    BY <1>0, <1>2, <1>4 DEF OneIsAdded
  <2>2. IndexFits(NamedEntries \ (IF IndexLinked THEN {} ELSE {NewIndex}), tbl_entry, index_next, meta_prev, rule)'
    BY <1>2, <1>3, <1>4, <1>6, <1>13
  <2>3. NamesFit(EnabledEntries \ {op.entry}, NamedEntries \ {NewIndex}, rule, tbl_entry, indx_tbl_entry)'
    <3>1. NamesFit(EnabledEntries \ {e}, NamedEntries \ {i}, rule, tbl_entry, indx_tbl_entry)
      BY <1>0 DEF OneIsAdded
    <3>2. NamedEntries' \ {i} = NamedEntries \ {i}
      BY <1>4
    <3>3. \A x \in NamedEntries \ {i} : tbl_entry'[x] = tbl_entry[x]
      BY <1>3 DEF NamedEntries
    <3>4. NamesFit(EnabledEntries \ {e}, NamedEntries \ {i}, rule, tbl_entry', indx_tbl_entry)
      BY <3>1, <3>3, NamesElsewhere
    <3> QED BY <1>2, <1>4, <3>2, <3>4
  <2> QED BY <1>7, <1>8, <1>9, <2>1, <2>2, <2>3 DEF OneIsAdded
<1>15. HandlesFit'
  BY <1>0, <1>2, <1>4 DEF DriverInv, HandlesFit, BeingDeleted, Running
<1> QED BY <1>5, <1>14, <1>15 DEF DriverInv

(* The entry of the index table is chained to the last that hashes alike. *)
LEMMA LinkIndexKept ==
  ASSUME DriverInv, Adding, Write, RuleLinked, IndexNamed, ~IndexLinked, ~enable[op.entry],
         cmd = <<LinkIndex, EnableRule>>
  PROVE  DriverInv'
<1> DEFINE e == op.entry  i == NewIndex  ip == IndexBefore
<1>0. /\ NatTypeOK /\ OneIsAdded /\ ~Deleting /\ Running /\ NewRuleFits /\ NewIndexFits
      /\ e \in Entries /\ i \in Entries /\ e # 0 /\ i # 0 /\ ip \in Entries /\ ip # i /\ ip # 0 /\ i \in Expn
      /\ index_next[i] = 0 /\ rule[e] \in Rules /\ tbl_entry[i] = e /\ meta_prev[i] = ip
  <2>1. IndexBefore # 0
    BY DEF IndexLinked
  <2>2. i \in Expn /\ meta_prev[i] = ip
    BY <2>1 DEF IndexBefore
  <2> QED BY <2>1, <2>2, AddFacts DEF OneIsAdded, NewIndexFits, IndexNamed
<1>1. Head(cmd) = Order("index_next", ip, i)
  BY DEF LinkIndex
<1>2. /\ index_next' = [index_next EXCEPT ![ip] = i]
      /\ UNCHANGED <<enable, rule, next_index, tbl_entry, prev_index, indx_tbl_entry, meta_prev, rule_id_array, op>>
      /\ cmd' = Tail(cmd)
  BY <1>1, Written
<1>3. index_next' \in [Entries -> Entries] /\ index_next'[ip] = i /\ index_next'[i] = index_next[i]
  BY <1>0, <1>2 DEF NatTypeOK
<1>4. /\ EnabledEntries' = EnabledEntries /\ NamedEntries' = NamedEntries
      /\ NewIndex' = NewIndex /\ RuleBefore' = RuleBefore /\ IndexBefore' = IndexBefore
      /\ RuleLinked' = RuleLinked /\ IndexNamed' = IndexNamed
  BY <1>2 DEF EnabledEntries, NamedEntries, NewIndex, RuleBefore, IndexBefore, RuleLinked, IndexNamed
<1>5. NatTypeOK' /\ OpTypeOK' /\ ~Deleting' /\ Running' /\ Adding'
  BY <1>0, <1>2, <1>3 DEF DriverInv, NatTypeOK, OpTypeOK, Deleting, Running, Adding
<1>6. IndexLinked'
  BY <1>2, <1>3, <1>4 DEF IndexLinked
<1>7. NewRuleFits'
  BY <1>0, <1>2, <1>4 DEF NewRuleFits
<1>8. NewIndexFits'
  BY <1>0, <1>2, <1>3, <1>4, <1>6 DEF NewIndexFits
<1>9. AddStage'
  <2>1. cmd' = <<EnableRule>>
    BY <1>2
  <2>2. EnableRule' = EnableRule
    BY <1>2 DEF EnableRule
  <2> QED BY <1>2, <1>4, <1>6, <2>1, <2>2 DEF AddStage
<1>10. IndexFits(NamedEntries, tbl_entry, index_next', meta_prev, rule)
  <2> DEFINE home == IndexHome(tbl_entry, rule)
  <2>1. IndexFits(NamedEntries \ {i}, tbl_entry, index_next, meta_prev, rule)
    BY <1>0 DEF OneIsAdded
  <2>2. Chained(NamedEntries \ {i}, index_next, meta_prev, home)
    BY <2>1 DEF IndexFits
  <2>3. ip \in NamedEntries \ {i} /\ index_next[ip] = 0 /\ ip \in Chain(index_next, src_hash[rule[e]])
    BY <1>0 DEF NewIndexFits
  <2>4. home[i] = src_hash[rule[e]] /\ src_hash[rule[e]] \in Base
    BY <1>0, HashAssumption, SizeFacts DEF IndexHome
  <2>5. home[ip] = src_hash[rule[e]]
    BY <2>2, <2>3, <2>4, ChainMember
  <2>6. Chained((NamedEntries \ {i}) \cup {i}, [index_next EXCEPT ![ip] = i], meta_prev, home)
    BY <1>0, <2>2, <2>3, <2>4, <2>5, ChainedLast
  <2>7. (NamedEntries \ {i}) \cup {i} = NamedEntries
    BY <1>0 DEF NamedEntries
  <2>8. \A x \in NamedEntries \cap Base : src_hash[rule[tbl_entry[x]]] = x
    BY <1>0, <2>1, SizeFacts DEF IndexFits
  <2> QED BY <1>2, <2>6, <2>7, <2>8 DEF IndexFits
<1>11. OneIsAdded'
  <2>1. RulesFit(EnabledEntries \cup (IF RuleLinked THEN {op.entry} ELSE {}), rule, next_index, prev_index)'
    BY <1>0, <1>2, <1>4 DEF OneIsAdded
  <2>2. IndexFits(NamedEntries \ (IF IndexLinked THEN {} ELSE {NewIndex}), tbl_entry, index_next, meta_prev, rule)'
    <3>1. NamedEntries \ {} = NamedEntries
      OBVIOUS
    <3> QED BY <1>2, <1>4, <1>6, <1>10, <3>1
  <2>3. NamesFit(EnabledEntries \ {op.entry}, NamedEntries \ {NewIndex}, rule, tbl_entry, indx_tbl_entry)'
    BY <1>0, <1>2, <1>4 DEF OneIsAdded
  <2> QED BY <1>7, <1>8, <1>9, <2>1, <2>2, <2>3 DEF OneIsAdded
<1>12. HandlesFit'
  BY <1>0, <1>2, <1>4 DEF DriverInv, HandlesFit, BeingDeleted, Running
<1> QED BY <1>5, <1>11, <1>12 DEF DriverInv

(* The rule is enabled. *)
LEMMA EnableKept ==
  ASSUME DriverInv, Adding, Write, RuleLinked, IndexNamed, IndexLinked, ~enable[op.entry], cmd = <<EnableRule>>
  PROVE  DriverInv' /\ enable' = [enable EXCEPT ![op.entry] = TRUE]
         /\ UNCHANGED <<rule, next_index, tbl_entry, index_next, op>> /\ cmd' = <<>>
<1> DEFINE e == op.entry
<1>0. /\ NatTypeOK /\ OneIsAdded /\ ~Deleting /\ Running /\ NewRuleFits /\ NewIndexFits /\ e \in Entries
  BY AddFacts DEF OneIsAdded
<1>1. Head(cmd) = Order("enable", e, TRUE)
  BY DEF EnableRule
<1>2. /\ enable' = [enable EXCEPT ![e] = TRUE]
      /\ UNCHANGED <<index_next, rule, next_index, tbl_entry, prev_index, indx_tbl_entry, meta_prev, rule_id_array, op>>
      /\ cmd' = Tail(cmd)
  BY <1>1, Written
<1>3. enable' \in [Entries -> BOOLEAN] /\ enable'[e] /\ EnabledEntries' = EnabledEntries \cup {e}
      /\ e \notin EnabledEntries
  BY <1>0, <1>2 DEF NatTypeOK, EnabledEntries
<1>4. /\ NamedEntries' = NamedEntries /\ NewIndex' = NewIndex /\ RuleBefore' = RuleBefore
      /\ IndexBefore' = IndexBefore /\ RuleLinked' = RuleLinked /\ IndexNamed' = IndexNamed
      /\ IndexLinked' = IndexLinked
  BY <1>2 DEF NamedEntries, NewIndex, RuleBefore, IndexBefore, RuleLinked, IndexNamed, IndexLinked
<1>5. NatTypeOK' /\ OpTypeOK' /\ ~Deleting' /\ Running' /\ Adding'
  BY <1>0, <1>2, <1>3 DEF DriverInv, NatTypeOK, OpTypeOK, Deleting, Running, Adding
<1>6. cmd' = <<>>
  BY <1>2
<1>7. AddStage'
  BY <1>2, <1>3, <1>4, <1>6 DEF AddStage
<1>8. NewRuleFits' /\ NewIndexFits'
  BY <1>0, <1>2, <1>3, <1>4 DEF NewRuleFits, NewIndexFits
<1>9. OneIsAdded'
  <2>1. RulesFit(EnabledEntries \cup (IF RuleLinked THEN {op.entry} ELSE {}), rule, next_index, prev_index)'
    <3>1. EnabledEntries' \cup {e} = EnabledEntries \cup {e}
      BY <1>3
    <3> QED BY <1>0, <1>2, <1>4, <3>1 DEF OneIsAdded
  <2>2. IndexFits(NamedEntries \ (IF IndexLinked THEN {} ELSE {NewIndex}), tbl_entry, index_next, meta_prev, rule)'
    BY <1>0, <1>2, <1>4 DEF OneIsAdded
  <2>3. NamesFit(EnabledEntries \ {op.entry}, NamedEntries \ {NewIndex}, rule, tbl_entry, indx_tbl_entry)'
    <3>1. EnabledEntries' \ {e} = EnabledEntries \ {e}
      BY <1>3
    <3> QED BY <1>0, <1>2, <1>4, <3>1 DEF OneIsAdded
  <2> QED BY <1>7, <1>8, <2>1, <2>2, <2>3 DEF OneIsAdded
<1>10. HandlesFit'
  BY <1>0, <1>2, <1>3 DEF DriverInv, HandlesFit, BeingDeleted, Running
<1> QED BY <1>2, <1>5, <1>6, <1>9, <1>10 DEF DriverInv

(* There is a free handle, and it is not the last, which nothing could delete. *)
LEMMA HandleLeft ==
  ASSUME DriverInv, ~Deleting, RulesFit(EnabledEntries, rule, next_index, prev_index)
  PROVE  \E h \in Handles : rule_id_array[h] = 0 /\ h < TableEntries + ExpnEntries
<1> SUFFICES ASSUME \A h \in Handles : h < TableEntries + ExpnEntries => rule_id_array[h] # 0 PROVE FALSE
  OBVIOUS
<1> DEFINE H == 1 .. TableEntries + ExpnEntries - 1  f == [h \in H |-> rule_id_array[h]]
<1>1. H \subseteq Handles /\ \A h \in H : h < TableEntries + ExpnEntries
  BY SizeFacts DEF Handles
<1>2. \A h \in H : rule_id_array[h] \in Cells
  <2>1. \A h \in H : rule_id_array[h] \in EnabledEntries
    BY <1>1 DEF DriverInv, HandlesFit, BeingDeleted, Deleting
  <2> QED BY <2>1 DEF RulesFit, Chained
<1>3. IsFiniteSet(Cells) /\ Cardinality(Cells) <= TableEntries + ExpnEntries - 2
  <2>1. IsFiniteSet(Base) /\ Cardinality(Base) = TableEntries - 1
    BY SizeFacts, FS_Interval DEF Base
  <2>2. IsFiniteSet(Expn) /\ Cardinality(Expn) = ExpnEntries - 1
    BY SizeFacts, FS_Interval DEF Expn
  <2>3. IsFiniteSet(Cells) /\ Cardinality(Cells) = Cardinality(Base) + Cardinality(Expn) - Cardinality(Base \cap Expn)
    BY <2>1, <2>2, FS_Union DEF Cells
  <2>4. Cardinality(Base \cap Expn) = 0
    BY SizeFacts, FS_EmptySet
  <2> QED BY <2>1, <2>2, <2>3, <2>4, SizeFacts
<1>4. IsFiniteSet(H) /\ Cardinality(H) = TableEntries + ExpnEntries - 1
  BY SizeFacts, FS_Interval
<1>5. f \in [H -> Cells]
  BY <1>2
<1> HIDE DEF f
<1>6. PICK g \in H, h \in H : g # h /\ f[g] = f[h]
  BY <1>3, <1>4, <1>5, SizeFacts, FS_PigeonHole, FS_CardinalityType
<1>7. rule_id_array[g] = rule_id_array[h] /\ rule_id_array[g] # 0
  BY <1>1, <1>6 DEF f
<1> QED BY <1>1, <1>6, <1>7 DEF DriverInv, HandlesFit

(* The handle is given out. *)
LEMMA AddReturnsKept ==
  ASSUME DriverInv, AddReturns
  PROVE  DriverInv' /\ \E h \in Handles : rule_id_array[h] = 0 /\ op' = [fn |-> "done", ret |-> h]
                                          /\ rule_id_array' = [rule_id_array EXCEPT ![h] = op.entry]
<1> DEFINE e == op.entry
<1>0. Adding /\ cmd = <<>> /\ UNCHANGED <<ruleTable, indexTable, cmd>>
  BY DEF AddReturns, Adding
<1>1. NatTypeOK /\ OneIsAdded /\ ~Deleting /\ Running /\ NewRuleFits /\ NewIndexFits /\ e \in Entries /\ e # 0
      /\ NewIndex \in Entries /\ rule[e] \in Rules /\ indx_tbl_entry[e] = NewIndex
  BY <1>0, AddFacts DEF OneIsAdded
<1>2. RuleLinked /\ IndexNamed /\ IndexLinked /\ enable[e]
  <2>1. AddStage
    BY <1>1 DEF OneIsAdded
  <2> QED BY <1>0, <2>1 DEF AddStage
<1>3. e \in EnabledEntries /\ NewIndex \in NamedEntries /\ tbl_entry[NewIndex] = e
  BY <1>1, <1>2 DEF EnabledEntries, NamedEntries, IndexNamed
<1>4. RulesFit(EnabledEntries, rule, next_index, prev_index)
  <2>1. EnabledEntries \cup {e} = EnabledEntries
    BY <1>3
  <2> QED BY <1>1, <1>2, <2>1 DEF OneIsAdded
<1>5. IndexFits(NamedEntries, tbl_entry, index_next, meta_prev, rule)
  <2>1. NamedEntries \ {} = NamedEntries
    OBVIOUS
  <2> QED BY <1>1, <1>2, <2>1 DEF OneIsAdded
<1>6. NamesFit(EnabledEntries, NamedEntries, rule, tbl_entry, indx_tbl_entry)
  <2>1. NamesFit(EnabledEntries \ {e}, NamedEntries \ {NewIndex}, rule, tbl_entry, indx_tbl_entry)
    BY <1>1 DEF OneIsAdded
  <2> QED BY <1>1, <1>3, <2>1 DEF NamesFit
<1>7. PICK h \in Handles : /\ h = Least({k \in Handles : rule_id_array[k] = 0})
                           /\ rule_id_array' = [rule_id_array EXCEPT ![h] = op.entry]
                           /\ op' = [fn |-> "done", ret |-> h]
  BY DEF AddReturns
<1>8. rule_id_array[h] = 0 /\ h < TableEntries + ExpnEntries
  <2> DEFINE S == {k \in Handles : rule_id_array[k] = 0}
  <2>1. PICK k \in Handles : rule_id_array[k] = 0 /\ k < TableEntries + ExpnEntries
    BY <1>1, <1>4, HandleLeft
  <2>2. k \in S /\ S \in SUBSET Nat
    BY <2>1, SizeFacts
  <2>3. h \in S /\ h <= k
    <3> HIDE DEF S
    <3>1. Least(S) \in S /\ Least(S) <= k
      BY <2>2, LeastIsMember
    <3> QED BY <1>7, <3>1 DEF S
  <2> QED BY <2>1, <2>3, SizeFacts
<1>9. OpTypeOK' /\ ~Running' /\ ~Adding' /\ ~Deleting'
  BY <1>7 DEF OpTypeOK, Running, Adding, Deleting
<1>10. NatTypeOK'
  BY <1>0, <1>1, <1>7 DEF NatTypeOK, ruleTable, indexTable
<1>11. NoneRuns'
  BY <1>0, <1>4, <1>5, <1>6 DEF NoneRuns, ruleTable, indexTable, EnabledEntries, NamedEntries
<1>12. HandlesFit'
  <2>1. rule_id_array'[h] = e /\ \A k \in Handles : k # h => rule_id_array'[k] = rule_id_array[k]
    BY <1>1, <1>7 DEF NatTypeOK
  <2>2. EnabledEntries' = EnabledEntries /\ rule' = rule
    BY <1>0 DEF ruleTable, EnabledEntries
  <2>3. \A k \in Handles : rule_id_array[k] # 0 =>
           /\ rule_id_array[k] \in EnabledEntries /\ rule[rule_id_array[k]] \in Rules
           /\ rule_id_array[k] # e /\ k < TableEntries + ExpnEntries
    BY <1>1 DEF DriverInv, HandlesFit, BeingDeleted, Deleting
  <2>4. \A k \in Handles : rule_id_array'[k] # 0 =>
           /\ rule_id_array'[k] \in EnabledEntries /\ rule[rule_id_array'[k]] \in Rules
           /\ k < TableEntries + ExpnEntries
    BY <1>1, <1>3, <1>8, <2>1, <2>3
  <2>5. \A k, g \in Handles : rule_id_array'[g] # 0 /\ rule_id_array'[g] = rule_id_array'[k] => g = k
    BY <2>1, <2>3 DEF DriverInv, HandlesFit
  <2> QED BY <1>9, <2>2, <2>4, <2>5 DEF HandlesFit
<1>13. DriverInv'
  BY <1>9, <1>10, <1>11, <1>12 DEF DriverInv
<1> QED BY <1>7, <1>8, <1>13

-----------------------------------------------------------------------------
(* Deletions.  The commands of one. *)
LEMMA OneRuleCommand ==
  ASSUME NEW e
  PROVE  DelRuleCommand(e) = <<Head(DelRuleCommand(e))>>
<1>1. \A c : Head(<<c>>) = c
  OBVIOUS
<1>2. \E c : DelRuleCommand(e) = <<c>>
  BY Zenon DEF DelRuleCommand
<1> QED BY <1>1, <1>2, Zenon

LEMMA Positions ==
  ASSUME NEW nxt, NEW e \in Cells
  PROVE  /\ Position(nxt, e) \in {"only_one", "head", "middle", "last"}
         /\ Position(nxt, e) \in {"only_one", "head"} <=> e \in Base
         /\ Position(nxt, e) \in {"middle", "last"} <=> e \in Expn
         /\ Position(nxt, e) \in {"only_one", "last"} <=> nxt[e] = 0
BY SizeFacts DEF Position, Cells

LEMMA DelBegins ==
  ASSUME DriverInv, op = Idle, NEW h, del_ipv4_rule(h)
  PROVE  DriverInv' /\ (op' = [fn |-> "done", ret |-> 0] \/ (op'.fn = "del" /\ op'.hdl = h /\ NothingDeleted'))
         /\ UNCHANGED <<ruleTable, indexTable, rule_id_array>>
<1> DEFINE e == IF h \in Handles /\ h < TableEntries + ExpnEntries THEN rule_id_array[h] ELSE 0
           i == indx_tbl_entry[e]
<1>1. ~Running /\ ~Deleting /\ NoneRuns /\ NatTypeOK
  BY RestingOps DEF DriverInv
<1>2. CASE op' = [fn |-> "done", ret |-> 0] /\ UNCHANGED <<ruleTable, indexTable, rule_id_array, cmd>>
  BY <1>1, <1>2, TablesKept
<1>3. CASE /\ e # 0 /\ enable[e]
           /\ op' = [fn |-> "del", hdl |-> h, entry |-> e, pos |-> Position(next_index, e),
                     indx |-> i, indx_pos |-> Position(index_next, i), moved |-> index_next[i]]
           /\ cmd' = DelIndexCommands(i) \o DelRuleCommand(e)
           /\ UNCHANGED <<ruleTable, indexTable, rule_id_array>>
  <2>1. h \in Handles /\ rule_id_array[h] = e
    BY <1>3
  <2>2. e \in EnabledEntries /\ rule[e] \in Rules /\ e \in Cells
    <3>1. e \in EnabledEntries /\ rule[e] \in Rules
      BY <1>1, <1>3, <2>1 DEF DriverInv, HandlesFit, BeingDeleted, Deleting
    <3> QED BY <1>1, <3>1 DEF NoneRuns, RulesFit, Chained
  <2>3. i \in NamedEntries /\ tbl_entry[i] = e /\ i \in Cells
    <3>1. i \in NamedEntries /\ tbl_entry[i] = e
      BY <1>1, <2>2 DEF NoneRuns, NamesFit
    <3> QED BY <1>1, <3>1 DEF NoneRuns, IndexFits, Chained
  <2> HIDE DEF e, i
  <2>4. /\ op'.fn = "del" /\ op'.hdl = h /\ op'.entry = e /\ op'.pos = Position(next_index, e) /\ op'.indx = i
        /\ op'.indx_pos = Position(index_next, i) /\ op'.moved = index_next[i]
    BY <1>3
  <2>5. Adding' = FALSE /\ Deleting' /\ Running'
    BY <2>4 DEF Adding, Deleting, Running
  <2>6. /\ NatTypeOK' /\ EnabledEntries' = EnabledEntries /\ NamedEntries' = NamedEntries
        /\ UNCHANGED <<rule, enable, next_index, prev_index, indx_tbl_entry, tbl_entry, index_next, meta_prev,
                       rule_id_array>>
    BY <1>1, <1>3 DEF NatTypeOK, ruleTable, indexTable, EnabledEntries, NamedEntries
  <2>7. OpTypeOK'
    <3>1. index_next[i] \in Entries /\ e \in Entries /\ i \in Entries
      BY <1>1, <2>2, <2>3, SizeFacts DEF NatTypeOK
    <3>2. Position(next_index, e) \in {"only_one", "head", "middle", "last"}
      BY <2>2, Positions
    <3>3. Position(index_next, i) \in {"only_one", "head", "middle", "last"}
      BY <2>3, Positions
    <3> QED BY <1>3, <2>1, <3>1, <3>2, <3>3 DEF OpTypeOK
  <2>8. NothingDeleted'
    <3>1. cmd' = DelIndexCommands(i) \o <<Head(DelRuleCommand(e))>>
      BY <1>3, OneRuleCommand
    <3>2. DelRule' = DelRuleCommand(e)
      BY <2>4, <2>6 DEF DelRule, DelRuleCommand, Position
    <3>3. RulesWhole'
      BY <1>1, <2>2, <2>4, <2>6 DEF RulesWhole, NoneRuns, Position
    <3>4. op'.indx_pos = Position(index_next', op'.indx) /\ i = indx_tbl_entry[e]
      BY <2>4, <2>6 DEF i
    <3>5. /\ IndexFits(NamedEntries, tbl_entry, index_next, meta_prev, rule)'
          /\ NamesFit(EnabledEntries, NamedEntries, rule, tbl_entry, indx_tbl_entry)'
      BY <1>1, <2>6 DEF NoneRuns
    <3>6. cmd' = DelIndexCommands(op.indx)' \o <<Head(DelRule)>>'
      <4>1. DelIndexCommands(op.indx)' = DelIndexCommands(i)
        BY <2>4, <2>6 DEF DelIndexCommands, Position
      <4> QED BY <3>1, <3>2, <4>1
    <3> QED BY <2>4, <2>6, <3>3, <3>4, <3>5, <3>6 DEF NothingDeleted
  <2>9. OneIsDeleted'
    BY <2>1, <2>2, <2>3, <2>4, <2>6, <2>8 DEF OneIsDeleted
  <2>10. HandlesFit'
    BY <1>1, <1>3, <2>1, <2>4, <2>5, <2>6 DEF DriverInv, HandlesFit, BeingDeleted, Deleting
  <2>11. DriverInv'
    BY <2>5, <2>6, <2>7, <2>9, <2>10 DEF DriverInv
  <2> QED BY <1>3, <2>4, <2>8, <2>11
<1> QED BY <1>2, <1>3 DEF del_ipv4_rule

(* What every write of a deletion keeps. *)
LEMMA DelWriteKept ==
  ASSUME DriverInv, Deleting, Running, NatTypeOK',
         UNCHANGED <<rule_id_array, op>>,
         \A x \in Entries : x # op.entry => rule'[x] = rule[x] /\ enable'[x] = enable[x],
         (NothingDeleted \/ HeadOverwritten \/ IndexDeleted \/ RuleDeleted)'
  PROVE  DriverInv'
<1>1. OpTypeOK' /\ ~Adding' /\ Deleting' /\ Running'
  BY DEF DriverInv, OpTypeOK, Adding, Deleting, Running
<1>2. OneIsDeleted'
  BY DEF DriverInv, OneIsDeleted
<1>3. HandlesFit'
  <2>1. ASSUME NEW h \in Handles, rule_id_array[h] # 0, ~BeingDeleted(h)
        PROVE  rule_id_array[h] \in EnabledEntries' /\ rule'[rule_id_array[h]] \in Rules /\ rule_id_array[h] # op.entry
    <3>1. rule_id_array[h] \in EnabledEntries /\ rule[rule_id_array[h]] \in Rules /\ rule_id_array[h] # op.entry
      BY <2>1 DEF DriverInv, HandlesFit
    <3> QED BY <3>1 DEF EnabledEntries
  <2> QED BY <2>1 DEF DriverInv, HandlesFit, BeingDeleted
<1> QED BY <1>1, <1>2, <1>3 DEF DriverInv

(* What there is to know about a deletion of which nothing is written yet. *)
LEMMA DelFacts ==
  ASSUME DriverInv, Deleting, NothingDeleted
  PROVE  /\ op.entry \in Cells /\ op.entry \in EnabledEntries /\ rule[op.entry] \in Rules
         /\ op.indx \in Cells /\ op.indx \in NamedEntries /\ tbl_entry[op.indx] = op.entry
         /\ op.indx_pos \in {"only_one", "head"} <=> op.indx \in Base
         /\ op.indx_pos \in {"middle", "last"} <=> op.indx \in Expn
         /\ op.indx_pos \in {"only_one", "last"} <=> op.moved = 0
         /\ op.indx_pos \in {"only_one", "head", "middle", "last"}
         /\ op.moved # 0 => /\ op.moved \in NamedEntries \cap Expn /\ op.moved # op.indx
                            /\ meta_prev[op.moved] = op.indx
                            /\ IndexHome(tbl_entry, rule)[op.moved] = IndexHome(tbl_entry, rule)[op.indx]
         /\ \A x \in NamedEntries : tbl_entry[x] = op.entry => x = op.indx
<1>1. op.entry \in Cells /\ op.indx \in Cells /\ op.entry \in EnabledEntries /\ rule[op.entry] \in Rules
  BY DEF DriverInv, OneIsDeleted, NothingDeleted, RulesWhole
<1>2. op.indx \in NamedEntries /\ tbl_entry[op.indx] = op.entry /\ \A x \in NamedEntries : tbl_entry[x] = op.entry => x = op.indx
  BY <1>1 DEF NothingDeleted, NamesFit
<1>3. /\ op.indx_pos \in {"only_one", "head"} <=> op.indx \in Base
      /\ op.indx_pos \in {"middle", "last"} <=> op.indx \in Expn
      /\ op.indx_pos \in {"only_one", "last"} <=> op.moved = 0
      /\ op.indx_pos \in {"only_one", "head", "middle", "last"}
  BY <1>1, Positions DEF NothingDeleted
<1>4. ASSUME op.moved # 0
      PROVE  /\ op.moved \in NamedEntries \cap Expn /\ op.moved # op.indx /\ meta_prev[op.moved] = op.indx
             /\ IndexHome(tbl_entry, rule)[op.moved] = IndexHome(tbl_entry, rule)[op.indx]
  <2>1. Chained(NamedEntries, index_next, meta_prev, IndexHome(tbl_entry, rule)) /\ op.moved = index_next[op.indx]
    BY DEF NothingDeleted, IndexFits
  <2>2. /\ op.moved \in NamedEntries \cap Expn /\ meta_prev[op.moved] = op.indx
        /\ IndexHome(tbl_entry, rule)[op.moved] = IndexHome(tbl_entry, rule)[op.indx]
    BY <1>2, <1>4, <2>1 DEF Chained, Linked
  <2>3. op.moved # op.indx
    <3> SUFFICES ASSUME op.moved = op.indx PROVE FALSE OBVIOUS
    <3> DEFINE S == (NamedEntries \cap Expn) \ {op.indx}  s == IndexHome(tbl_entry, rule)[op.indx]
    <3>1. s \in Base /\ op.indx \in Chain(index_next, s) /\ op.indx \notin Base
      BY <1>2, <2>1, <2>2, SizeFacts DEF Chained
    <3>2. Follows(index_next, S \cup {s})
      <4>1. ASSUME NEW x \in S \cup {s}, index_next[x] # 0, index_next[x] \notin S PROVE FALSE
        <5>1. x \in Entries /\ x # op.indx
          BY <3>1, SizeFacts
        <5>2. x \in NamedEntries
          BY <2>1, <4>1, <5>1 DEF Chained, Linked
        <5>3. index_next[x] \in NamedEntries \cap Expn /\ meta_prev[index_next[x]] = x
          BY <2>1, <4>1, <5>2 DEF Chained, Linked
        <5>4. index_next[x] = op.indx
          BY <4>1, <5>3
        <5> QED BY <2>2, <5>1, <5>3, <5>4
      <4> QED BY <4>1 DEF Follows
    <3>3. S \in SUBSET Expn /\ op.indx \notin S /\ op.indx # s
      BY <3>1
    <3> HIDE DEF S, s
    <3> QED BY <3>1, <3>2, <3>3, ChainLeast
  <2> QED BY <2>2, <2>3
<1> QED BY <1>1, <1>2, <1>3, <1>4

-----------------------------------------------------------------------------
(* The tables without one of their entries. *)
LEMMA IndexUnlinked ==
  ASSUME NEW used, NEW tb, NEW inx, NEW mp, NEW ru, IndexFits(used, tb, inx, mp, ru),
         NEW i \in used \cap Expn, NEW inx2 \in [Entries -> Entries], NEW tb2, NEW mp2,
         \A x \in Entries : inx2[x] = IF x = mp[i] THEN inx[i] ELSE IF x = i THEN 0 ELSE inx[x],
         \A x \in used \ {i} : tb2[x] = tb[x],
         \A x \in used \ {i} : x \in Expn => mp2[x] = IF x = inx[i] THEN mp[i] ELSE mp[x]
  PROVE  IndexFits(used \ {i}, tb2, inx2, mp2, ru)
<1>1. used \subseteq Entries
  BY SizeFacts DEF IndexFits, Chained
<1>2. Chained(used \ {i}, inx2, mp2, IndexHome(tb, ru))
  <2>1. Chained(used, inx, mp, IndexHome(tb, ru))
    BY DEF IndexFits
  <2> QED BY <2>1, ChainedUnlinked
<1>3. \A x \in used \ {i} : IndexHome(tb2, ru)[x] = IndexHome(tb, ru)[x]
  BY <1>1 DEF IndexHome
<1>4. Chained(used \ {i}, inx2, mp2, IndexHome(tb2, ru))
  <2>1. \A x \in Entries : inx2[x] = inx2[x]
    OBVIOUS
  <2> QED BY <1>2, <1>3, <2>1, ChainedElsewhere
<1> QED BY <1>4 DEF IndexFits

LEMMA IndexDropped ==
  ASSUME NEW used, NEW tb, NEW inx, NEW mp, NEW ru, IndexFits(used, tb, inx, mp, ru),
         NEW i \in used \cap Base, inx[i] = 0, NEW inx2 \in [Entries -> Entries], NEW tb2, NEW mp2,
         \A x \in Entries : inx2[x] = inx[x],
         \A x \in used \ {i} : tb2[x] = tb[x],
         \A x \in used \ {i} : x \in Expn => mp2[x] = mp[x]
  PROVE  IndexFits(used \ {i}, tb2, inx2, mp2, ru)
<1>1. used \subseteq Entries
  BY SizeFacts DEF IndexFits, Chained
<1>2. Chained(used \ {i}, inx, mp, IndexHome(tb, ru))
  <2>1. Chained(used, inx, mp, IndexHome(tb, ru))
    BY DEF IndexFits
  <2> QED BY <2>1, ChainedDropped
<1>3. \A x \in used \ {i} : IndexHome(tb2, ru)[x] = IndexHome(tb, ru)[x]
  BY <1>1 DEF IndexHome
<1>4. Chained(used \ {i}, inx2, mp2, IndexHome(tb2, ru))
  BY <1>2, <1>3, ChainedElsewhere
<1> QED BY <1>4 DEF IndexFits

LEMMA RulesUnlinked ==
  ASSUME NEW used, NEW ru, NEW nx, NEW pv, RulesFit(used, ru, nx, pv),
         NEW e \in used \cap Expn, NEW nx2 \in [Entries -> Entries], NEW pv2,
         \A x \in Entries : nx2[x] = IF x = pv[e] THEN nx[e] ELSE IF x = e THEN 0 ELSE nx[x],
         \A x \in used \ {e} : x \in Expn => pv2[x] = IF x = nx[e] THEN pv[e] ELSE pv[x]
  PROVE  RulesFit(used \ {e}, ru, nx2, pv2)
<1>1. Chained(used \ {e}, nx2, pv2, RuleHome(ru))
  <2>1. Chained(used, nx, pv, RuleHome(ru))
    BY DEF RulesFit
  <2> QED BY <2>1, ChainedUnlinked
<1> QED BY <1>1 DEF RulesFit

LEMMA RulesDropped ==
  ASSUME NEW used, NEW ru, NEW nx, NEW pv, RulesFit(used, ru, nx, pv),
         NEW D, \A d \in D \cap used : d \in Base /\ nx[d] = 0
  PROVE  RulesFit(used \ D, ru, nx, pv)
<1>1. Chained(used \ D, nx, pv, RuleHome(ru))
  <2>1. Chained(used, nx, pv, RuleHome(ru))
    BY DEF RulesFit
  <2> QED BY <2>1, ChainedDropped
<1> QED BY <1>1 DEF RulesFit

(* The commands of a deletion, by the place of its entry of the index table. *)
LEMMA DelCommands ==
  ASSUME DriverInv, Deleting, NothingDeleted
  PROVE  /\ op.indx_pos = "only_one" => cmd = <<Order("tbl_entry", op.indx, 0), Head(DelRule)>>
         /\ op.indx_pos = "head" => cmd = <<Order("tbl_entry", op.indx, tbl_entry[op.moved]),
                                            Order("index_next", op.indx, index_next[op.moved]), Head(DelRule)>>
         /\ op.indx_pos \in {"middle", "last"} =>
              cmd = <<Order("index_next", meta_prev[op.indx], op.moved), Head(DelRule)>>
<1> DEFINE last == Head(DelRule)
<1>1. cmd = DelIndexCommands(op.indx) \o <<last>> /\ op.indx_pos = Position(index_next, op.indx)
      /\ op.moved = index_next[op.indx]
  BY DEF NothingDeleted
<1> HIDE DEF last
<1>2. ASSUME op.indx_pos = "only_one" PROVE cmd = <<Order("tbl_entry", op.indx, 0), last>>
  <2> DEFINE a == Order("tbl_entry", op.indx, 0)
  <2>1. DelIndexCommands(op.indx) = <<a>>
    BY <1>1, <1>2 DEF DelIndexCommands, Order
  <2> HIDE DEF a
  <2>2. cmd = <<a, last>>
    BY <1>1, <2>1, PairJoined, Zenon
  <2> QED BY <2>2 DEF a
<1>3. ASSUME op.indx_pos = "head"
      PROVE  cmd = <<Order("tbl_entry", op.indx, tbl_entry[op.moved]),
                     Order("index_next", op.indx, index_next[op.moved]), last>>
  <2> DEFINE a == Order("tbl_entry", op.indx, tbl_entry[op.moved])
             b == Order("index_next", op.indx, index_next[op.moved])
  <2>1. DelIndexCommands(op.indx) = <<a, b>>
    BY <1>1, <1>3 DEF DelIndexCommands, Order
  <2> HIDE DEF a, b
  <2>2. cmd = <<a, b, last>>
    BY <1>1, <2>1, TripleJoined, Zenon
  <2> QED BY <2>2 DEF a, b
<1>4. ASSUME op.indx_pos \in {"middle", "last"}
      PROVE  cmd = <<Order("index_next", meta_prev[op.indx], op.moved), last>>
  <2> DEFINE a == Order("index_next", meta_prev[op.indx], op.moved)
  <2>0. Position(index_next, op.indx) # "only_one" /\ Position(index_next, op.indx) # "head"
    BY <1>1, <1>4
  <2>1. DelIndexCommands(op.indx) = <<a>>
    BY <1>1, <2>0, Zenon DEF DelIndexCommands, Order
  <2> HIDE DEF a
  <2>2. cmd = <<a, last>>
    BY <1>1, <2>1, PairJoined, Zenon
  <2> QED BY <2>2 DEF a
<1> QED BY <1>2, <1>3, <1>4 DEF last

-----------------------------------------------------------------------------
(* What a write to the index table leaves alone. *)
LEMMA RulesLeft ==
  ASSUME DriverInv, RulesWhole,
         UNCHANGED <<rule, enable, next_index, prev_index, indx_tbl_entry, meta_prev, rule_id_array, op>>
  PROVE  /\ RulesWhole' /\ DelRule' = DelRule /\ EnabledEntries' = EnabledEntries
         /\ \A x \in Entries : x # op.entry => rule'[x] = rule[x] /\ enable'[x] = enable[x]
<1>1. EnabledEntries' = EnabledEntries /\ DelRule' = DelRule
  BY DEF EnabledEntries, DelRule, DelRuleCommand, Position
<1> QED BY <1>1 DEF RulesWhole, Position

(* The only entry of its chain of the index table is emptied. *)
LEMMA EmptyIndexKept ==
  ASSUME DriverInv, Deleting, NothingDeleted, op.indx_pos = "only_one", Write
  PROVE  DriverInv'
<1> DEFINE i == op.indx  e == op.entry
<1>0. /\ NatTypeOK /\ RulesWhole /\ Running /\ i \in Cells /\ i \in NamedEntries /\ i \in Base /\ i \in Entries
      /\ op.moved = 0 /\ index_next[i] = 0 /\ tbl_entry[i] = e
      /\ IndexFits(NamedEntries, tbl_entry, index_next, meta_prev, rule)
      /\ NamesFit(EnabledEntries, NamedEntries, rule, tbl_entry, indx_tbl_entry)
  <2>1. i \in Cells /\ i \in NamedEntries /\ i \in Base /\ op.moved = 0 /\ tbl_entry[i] = e
    BY DelFacts
  <2> QED BY <2>1, SizeFacts DEF DriverInv, NothingDeleted, Write
<1>1. cmd = <<Order("tbl_entry", i, 0), Head(DelRule)>>
  BY DelCommands
<1>2. /\ tbl_entry' = [tbl_entry EXCEPT ![i] = 0]
      /\ UNCHANGED <<rule, enable, next_index, index_next, prev_index, indx_tbl_entry, meta_prev, rule_id_array, op>>
      /\ cmd' = <<Head(DelRule)>>
  <2>1. Head(cmd) = Order("tbl_entry", i, 0)
    BY <1>1
  <2>2. cmd' = Tail(cmd) /\ tbl_entry' = [tbl_entry EXCEPT ![i] = 0]
        /\ UNCHANGED <<rule, enable, next_index, index_next, prev_index, indx_tbl_entry, meta_prev, rule_id_array, op>>
    BY <2>1, Written
  <2>3. Tail(cmd) = <<Head(DelRule)>>
    BY <1>1
  <2> QED BY <2>2, <2>3
<1>3. /\ RulesWhole' /\ DelRule' = DelRule /\ EnabledEntries' = EnabledEntries
      /\ \A x \in Entries : x # e => rule'[x] = rule[x] /\ enable'[x] = enable[x]
  BY <1>0, <1>2, RulesLeft
<1>4. NatTypeOK'
  BY <1>0, <1>2, SizeFacts DEF NatTypeOK
<1>5. FreedIndex' = i
  BY <1>2 DEF FreedIndex
<1>6. \A x \in Entries : /\ IndexAfter'[x] = IF x = i THEN 0 ELSE tbl_entry[x]
                         /\ IndexNextAfter'[x] = index_next[x] /\ MetaAfterDelete'[x] = meta_prev[x]
                         /\ NamesAfter'[x] = indx_tbl_entry[x]
  <2>1. \A x \in Entries : IndexAfter'[x] = IF x = i THEN 0 ELSE tbl_entry[x]
    BY <1>0, <1>2, <1>5 DEF IndexAfter, NatTypeOK
  <2>2. \A x \in Entries : IndexNextAfter'[x] = index_next[x]
    BY <1>0, <1>2, <1>5 DEF IndexNextAfter, NatTypeOK
  <2>3. \A x \in Entries : MetaAfterDelete'[x] = meta_prev[x]
    BY <1>2 DEF MetaAfterDelete
  <2>4. \A x \in Entries : NamesAfter'[x] = indx_tbl_entry[x]
    BY <1>2 DEF NamesAfter
  <2> QED BY <2>1, <2>2, <2>3, <2>4
<1>7. NamedIn(IndexAfter') = NamedEntries \ {i}
  BY <1>0, <1>6 DEF NamedIn, NamedEntries
<1>8. IndexFits(NamedEntries \ {i}, IndexAfter', IndexNextAfter', MetaAfterDelete', rule)
  <2>1. IndexNextAfter' \in [Entries -> Entries]
    BY <1>0, <1>2, <1>5, SizeFacts DEF IndexNextAfter, NatTypeOK
  <2>2. \A x \in Entries : IndexNextAfter'[x] = index_next[x]
    BY <1>6
  <2>3. \A x \in NamedEntries \ {i} : IndexAfter'[x] = tbl_entry[x]
    BY <1>6 DEF NamedEntries
  <2>4. \A x \in NamedEntries \ {i} : x \in Expn => MetaAfterDelete'[x] = meta_prev[x]
    BY <1>6 DEF NamedEntries
  <2>5. i \in NamedEntries \cap Base /\ index_next[i] = 0
    BY <1>0
  <2>6. IndexFits(NamedEntries, tbl_entry, index_next, meta_prev, rule)
    BY <1>0
  <2> HIDE DEF i
  <2> QED BY <2>1, <2>2, <2>3, <2>4, <2>5, <2>6, IndexDropped
<1>9. NamesFit(EnabledEntries \ {e}, NamedEntries \ {i}, rule, IndexAfter', NamesAfter')
  <2>1. NamesFit(EnabledEntries \ {e}, NamedEntries \ {i}, rule, tbl_entry, indx_tbl_entry)
    BY <1>0, DelFacts DEF NamesFit
  <2>2. \A x \in EnabledEntries \ {e} : rule[x] = rule[x] /\ NamesAfter'[x] = indx_tbl_entry[x]
    BY <1>6 DEF EnabledEntries
  <2>3. \A x \in NamedEntries \ {i} : IndexAfter'[x] = tbl_entry[x]
    BY <1>6 DEF NamedEntries
  <2> QED BY <2>1, <2>2, <2>3, NamesElsewhere
<1>10. IndexDeleted'
  <2>1. IndexTold'
    <3>1. (FreedIndex \in Base => tbl_entry[FreedIndex] = 0)'
      BY <1>0, <1>2, <1>5 DEF NatTypeOK
    <3> QED BY <1>2, <1>3, <1>7, <1>8, <1>9, <3>1 DEF IndexTold, NamedIn
  <2>2. cmd' = <<Head(DelRule')>>
    BY <1>2, <1>3
  <2> QED BY <1>3, <2>1, <2>2 DEF IndexDeleted
<1> QED BY <1>0, <1>2, <1>3, <1>4, <1>10, DelWriteKept

(* The head of a chain of the index table takes the name the entry after it holds. *)
LEMMA OverwriteHeadKept ==
  ASSUME DriverInv, Deleting, NothingDeleted, op.indx_pos = "head", Write
  PROVE  DriverInv'
<1> DEFINE i == op.indx  e == op.entry  n == op.moved
<1>0. /\ NatTypeOK /\ RulesWhole /\ Running /\ i \in NamedEntries /\ i \in Base /\ i \in Entries
      /\ n # 0 /\ n = index_next[i] /\ tbl_entry[i] = e /\ n \in NamedEntries /\ n \in Entries /\ n \in Expn /\ n # i
      /\ IndexFits(NamedEntries, tbl_entry, index_next, meta_prev, rule)
      /\ NamesFit(EnabledEntries, NamedEntries, rule, tbl_entry, indx_tbl_entry)
      /\ IndexHome(tbl_entry, rule)[n] = IndexHome(tbl_entry, rule)[i]
      /\ tbl_entry[n] # 0 /\ tbl_entry[n] # e
  <2>1. /\ i \in Cells /\ i \in NamedEntries /\ i \in Base /\ n # 0 /\ tbl_entry[i] = e /\ n \in NamedEntries
        /\ n \in Expn /\ n # i /\ IndexHome(tbl_entry, rule)[n] = IndexHome(tbl_entry, rule)[i]
        /\ tbl_entry[n] # e
    BY DelFacts
  <2>2. n = index_next[i] /\ tbl_entry[n] # 0
    BY <2>1 DEF NothingDeleted, NamedEntries
  <2> QED BY <2>1, <2>2, SizeFacts DEF DriverInv, NothingDeleted, Write
<1>1. cmd = <<Order("tbl_entry", i, tbl_entry[n]), Order("index_next", i, index_next[n]), Head(DelRule)>>
  BY DelCommands
<1>2. /\ tbl_entry' = [tbl_entry EXCEPT ![i] = tbl_entry[n]]
      /\ UNCHANGED <<rule, enable, next_index, index_next, prev_index, indx_tbl_entry, meta_prev, rule_id_array, op>>
      /\ cmd' = <<Order("index_next", i, index_next[n]), Head(DelRule)>>
  <2>1. Head(cmd) = Order("tbl_entry", i, tbl_entry[n])
    BY <1>1
  <2>2. cmd' = Tail(cmd) /\ tbl_entry' = [tbl_entry EXCEPT ![i] = tbl_entry[n]]
        /\ UNCHANGED <<rule, enable, next_index, index_next, prev_index, indx_tbl_entry, meta_prev, rule_id_array, op>>
    BY <2>1, Written
  <2>3. Tail(cmd) = <<Order("index_next", i, index_next[n]), Head(DelRule)>>
    BY <1>1
  <2> QED BY <2>2, <2>3
<1>3. /\ RulesWhole' /\ DelRule' = DelRule /\ EnabledEntries' = EnabledEntries
      /\ \A x \in Entries : x # e => rule'[x] = rule[x] /\ enable'[x] = enable[x]
  BY <1>0, <1>2, RulesLeft
<1>4. NatTypeOK'
  BY <1>0, <1>2 DEF NatTypeOK
<1>5. tbl_entry'[i] = tbl_entry[n] /\ \A x \in Entries : x # i => tbl_entry'[x] = tbl_entry[x]
  BY <1>0, <1>2 DEF NatTypeOK
<1>6. NamedEntries' = NamedEntries
  BY <1>0, <1>5 DEF NamedEntries
<1>7. IndexFits(NamedEntries, tbl_entry', index_next, meta_prev, rule)
  <2>1. Chained(NamedEntries, index_next, meta_prev, IndexHome(tbl_entry, rule))
    BY <1>0 DEF IndexFits
  <2>2. \A x \in NamedEntries : IndexHome(tbl_entry', rule)[x] = IndexHome(tbl_entry, rule)[x]
    BY <1>0, <1>5, SizeFacts DEF IndexHome, NamedEntries
  <2>3. Chained(NamedEntries, index_next, meta_prev, IndexHome(tbl_entry', rule))
    <3>1. index_next \in [Entries -> Entries]
      BY <1>0 DEF NatTypeOK
    <3> QED BY <2>1, <2>2, <3>1, ChainedElsewhere
  <2>4. src_hash[rule[tbl_entry[n]]] = i
    BY <1>0, SizeFacts DEF IndexHome
  <2>5. \A x \in NamedEntries \cap Base : src_hash[rule[tbl_entry'[x]]] = x
    BY <1>0, <1>5, <2>4 DEF IndexFits, NamedEntries
  <2> QED BY <2>3, <2>5 DEF IndexFits
<1>8. NamesFit(EnabledEntries \ {e}, NamedEntries \ {i}, rule, tbl_entry', indx_tbl_entry)
  <2>1. NamesFit(EnabledEntries \ {e}, NamedEntries \ {i}, rule, tbl_entry, indx_tbl_entry)
    BY <1>0, DelFacts DEF NamesFit
  <2>2. \A x \in NamedEntries \ {i} : tbl_entry'[x] = tbl_entry[x]
    BY <1>5 DEF NamedEntries
  <2> QED BY <2>1, <2>2, NamesElsewhere
<1>9. HeadOverwritten'
  <2>1. cmd' = <<Order("index_next", op.indx, index_next[op.moved]), Head(DelRule)>>'
    BY <1>2, <1>3 DEF Order
  <2>2. tbl_entry'[i] = tbl_entry'[n]
    BY <1>0, <1>5
  <2> QED BY <1>0, <1>2, <1>3, <1>6, <1>7, <1>8, <2>1, <2>2 DEF HeadOverwritten
<1> QED BY <1>0, <1>2, <1>3, <1>4, <1>9, DelWriteKept

(* An entry of the expansion of the index table is taken out of its chain. *)
LEMMA UnlinkIndexKept ==
  ASSUME DriverInv, Deleting, NothingDeleted, op.indx_pos \in {"middle", "last"}, Write
  PROVE  DriverInv'
<1> DEFINE i == op.indx  e == op.entry  n == op.moved  p == meta_prev[op.indx]
<1>0. /\ NatTypeOK /\ RulesWhole /\ Running /\ i \in NamedEntries /\ i \in Expn /\ i \in Entries /\ p \in Entries
      /\ n \in Entries /\ n = index_next[i] /\ tbl_entry[i] = e /\ index_next[p] = i /\ p # i /\ n # i
      /\ (op.indx_pos = "last" => n = 0)
      /\ IndexFits(NamedEntries, tbl_entry, index_next, meta_prev, rule)
      /\ NamesFit(EnabledEntries, NamedEntries, rule, tbl_entry, indx_tbl_entry)
  <2>1. /\ i \in Cells /\ i \in NamedEntries /\ i \in Expn /\ tbl_entry[i] = e /\ n # i
        /\ (op.indx_pos = "last" => n = 0)
    BY DelFacts, SizeFacts
  <2>2. n = index_next[i] /\ NatTypeOK /\ RulesWhole /\ Running
        /\ IndexFits(NamedEntries, tbl_entry, index_next, meta_prev, rule)
        /\ NamesFit(EnabledEntries, NamedEntries, rule, tbl_entry, indx_tbl_entry)
    BY DEF DriverInv, NothingDeleted, Write
  <2>3. index_next[p] = i
    BY <2>1, <2>2 DEF IndexFits, Chained, Linked
  <2>4. i \in Entries /\ p \in Entries /\ n \in Entries /\ p # i
    BY <2>1, <2>2, <2>3, SizeFacts DEF NatTypeOK
  <2> QED BY <2>1, <2>2, <2>3, <2>4
<1>1. cmd = <<Order("index_next", p, n), Head(DelRule)>>
  BY DelCommands
<1>2. /\ index_next' = [index_next EXCEPT ![p] = n]
      /\ UNCHANGED <<rule, enable, next_index, tbl_entry, prev_index, indx_tbl_entry, meta_prev, rule_id_array, op>>
      /\ cmd' = <<Head(DelRule)>>
  <2>1. Head(cmd) = Order("index_next", p, n)
    BY <1>1
  <2>2. cmd' = Tail(cmd) /\ index_next' = [index_next EXCEPT ![p] = n]
        /\ UNCHANGED <<rule, enable, next_index, tbl_entry, prev_index, indx_tbl_entry, meta_prev, rule_id_array, op>>
    BY <2>1, Written
  <2>3. Tail(cmd) = <<Head(DelRule)>>
    BY <1>1
  <2> QED BY <2>2, <2>3
<1>3. /\ RulesWhole' /\ DelRule' = DelRule /\ EnabledEntries' = EnabledEntries
      /\ \A x \in Entries : x # e => rule'[x] = rule[x] /\ enable'[x] = enable[x]
  BY <1>0, <1>2, RulesLeft
<1>4. NatTypeOK'
  BY <1>0, <1>2 DEF NatTypeOK
<1>5. FreedIndex' = i /\ index_next'[i] = n
  BY <1>0, <1>2 DEF FreedIndex, NatTypeOK
<1>6. /\ \A x \in Entries : IndexAfter'[x] = IF x = i THEN 0 ELSE tbl_entry[x]
      /\ \A x \in Entries : IndexNextAfter'[x] = IF x = p THEN n ELSE IF x = i THEN 0 ELSE index_next[x]
      /\ \A x \in Entries : x # i /\ x # 0 => MetaAfterDelete'[x] = IF x = n THEN p ELSE meta_prev[x]
      /\ \A x \in Entries : NamesAfter'[x] = indx_tbl_entry[x]
  <2>1. \A x \in Entries : IndexAfter'[x] = IF x = i THEN 0 ELSE tbl_entry[x]
    BY <1>0, <1>2, <1>5 DEF IndexAfter, NatTypeOK
  <2>2. \A x \in Entries : IndexNextAfter'[x] = IF x = p THEN n ELSE IF x = i THEN 0 ELSE index_next[x]
    BY <1>0, <1>2, <1>5 DEF IndexNextAfter, NatTypeOK
  <2>3. ASSUME NEW x \in Entries, x # i, x # 0 PROVE MetaAfterDelete'[x] = IF x = n THEN p ELSE meta_prev[x]
    BY <1>0, <1>2, <1>5, <2>3 DEF MetaAfterDelete
  <2>4. \A x \in Entries : NamesAfter'[x] = indx_tbl_entry[x]
    BY <1>2 DEF NamesAfter
  <2> QED BY <2>1, <2>2, <2>3, <2>4
<1>7. NamedIn(IndexAfter') = NamedEntries \ {i}
  BY <1>0, <1>6 DEF NamedIn, NamedEntries
<1>8. IndexFits(NamedEntries \ {i}, IndexAfter', IndexNextAfter', MetaAfterDelete', rule)
  <2>1. IndexNextAfter' \in [Entries -> Entries]
    BY <1>0, <1>2, <1>5, SizeFacts DEF IndexNextAfter, NatTypeOK
  <2>2. \A x \in Entries : IndexNextAfter'[x] = IF x = meta_prev[i] THEN index_next[i] ELSE IF x = i THEN 0 ELSE index_next[x]
    BY <1>0, <1>6
  <2>3. \A x \in NamedEntries \ {i} : IndexAfter'[x] = tbl_entry[x]
    BY <1>6 DEF NamedEntries
  <2>4. \A x \in NamedEntries \ {i} : x \in Expn => MetaAfterDelete'[x] = IF x = index_next[i] THEN meta_prev[i] ELSE meta_prev[x]
    BY <1>0, <1>6, SizeFacts DEF NamedEntries, Cells
  <2> QED BY <1>0, <2>1, <2>2, <2>3, <2>4, IndexUnlinked
<1>9. NamesFit(EnabledEntries \ {e}, NamedEntries \ {i}, rule, IndexAfter', NamesAfter')
  <2>1. NamesFit(EnabledEntries \ {e}, NamedEntries \ {i}, rule, tbl_entry, indx_tbl_entry)
    BY <1>0, DelFacts DEF NamesFit
  <2>2. \A x \in EnabledEntries \ {e} : rule[x] = rule[x] /\ NamesAfter'[x] = indx_tbl_entry[x]
    BY <1>6 DEF EnabledEntries
  <2>3. \A x \in NamedEntries \ {i} : IndexAfter'[x] = tbl_entry[x]
    BY <1>6 DEF NamedEntries
  <2> QED BY <2>1, <2>2, <2>3, NamesElsewhere
<1>10. IndexDeleted'
  <2>1. IndexTold'
    <3>1. (FreedIndex \in Base => tbl_entry[FreedIndex] = 0)'
      BY <1>0, <1>5, SizeFacts
    <3> QED BY <1>2, <1>3, <1>7, <1>8, <1>9, <3>1 DEF IndexTold, NamedIn
  <2>2. cmd' = <<Head(DelRule')>>
    BY <1>2, <1>3
  <2> QED BY <1>3, <2>1, <2>2 DEF IndexDeleted
<1> QED BY <1>0, <1>2, <1>3, <1>4, <1>10, DelWriteKept

(* The entry after the head of a chain of the index table is taken out. *)
LEMMA UnlinkMovedKept ==
  ASSUME DriverInv, Deleting, HeadOverwritten, Write
  PROVE  DriverInv'
<1> DEFINE i == op.indx  e == op.entry  n == op.moved  m == index_next[op.moved]
<1>0. /\ NatTypeOK /\ RulesWhole /\ Running /\ i \in NamedEntries /\ i \in Base /\ i \in Entries /\ i \notin Expn
      /\ n = index_next[i] /\ n # 0 /\ tbl_entry[i] = tbl_entry[n] /\ op.indx_pos = "head"
      /\ IndexFits(NamedEntries, tbl_entry, index_next, meta_prev, rule)
      /\ NamesFit(EnabledEntries \ {e}, NamedEntries \ {i}, rule, tbl_entry, indx_tbl_entry)
      /\ cmd = <<Order("index_next", i, m), Head(DelRule)>>
  BY SizeFacts DEF DriverInv, HeadOverwritten, Write
<1>1. n \in NamedEntries /\ n \in Expn /\ n \in Entries /\ n # i /\ meta_prev[n] = i /\ m \in Entries
  <2>1. n \in NamedEntries \cap Expn /\ meta_prev[n] = i
    BY <1>0 DEF IndexFits, Chained, Linked
  <2> QED BY <1>0, <2>1, SizeFacts DEF NatTypeOK
<1>2. /\ index_next' = [index_next EXCEPT ![i] = m]
      /\ UNCHANGED <<rule, enable, next_index, tbl_entry, prev_index, indx_tbl_entry, meta_prev, rule_id_array, op>>
      /\ cmd' = <<Head(DelRule)>>
  <2>1. Head(cmd) = Order("index_next", i, m)
    BY <1>0
  <2>2. cmd' = Tail(cmd) /\ index_next' = [index_next EXCEPT ![i] = m]
        /\ UNCHANGED <<rule, enable, next_index, tbl_entry, prev_index, indx_tbl_entry, meta_prev, rule_id_array, op>>
    BY <2>1, Written
  <2>3. Tail(cmd) = <<Head(DelRule)>>
    BY <1>0
  <2> QED BY <2>2, <2>3
<1>3. /\ RulesWhole' /\ DelRule' = DelRule /\ EnabledEntries' = EnabledEntries
      /\ \A x \in Entries : x # e => rule'[x] = rule[x] /\ enable'[x] = enable[x]
  BY <1>0, <1>2, RulesLeft
<1>4. NatTypeOK'
  BY <1>0, <1>1, <1>2 DEF NatTypeOK
<1>5. FreedIndex' = n /\ index_next'[n] = m
  BY <1>0, <1>1, <1>2 DEF FreedIndex, NatTypeOK
<1>6. /\ \A x \in Entries : IndexAfter'[x] = IF x = n THEN 0 ELSE tbl_entry[x]
      /\ \A x \in Entries : IndexNextAfter'[x] = IF x = i THEN m ELSE IF x = n THEN 0 ELSE index_next[x]
      /\ \A x \in Entries : x # 0 => MetaAfterDelete'[x] = IF x = m THEN i ELSE meta_prev[x]
      /\ \A x \in Entries : NamesAfter'[x] = IF x = tbl_entry[i] THEN i ELSE indx_tbl_entry[x]
  <2>1. \A x \in Entries : IndexAfter'[x] = IF x = n THEN 0 ELSE tbl_entry[x]
    BY <1>0, <1>1, <1>2, <1>5 DEF IndexAfter, NatTypeOK
  <2>2. \A x \in Entries : IndexNextAfter'[x] = IF x = i THEN m ELSE IF x = n THEN 0 ELSE index_next[x]
    BY <1>0, <1>1, <1>2, <1>5 DEF IndexNextAfter, NatTypeOK
  <2>3. ASSUME NEW x \in Entries, x # 0 PROVE MetaAfterDelete'[x] = IF x = m THEN i ELSE meta_prev[x]
    BY <1>0, <1>2, <1>5, <2>3 DEF MetaAfterDelete
  <2>4. \A x \in Entries : NamesAfter'[x] = IF x = tbl_entry[i] THEN i ELSE indx_tbl_entry[x]
    BY <1>0, <1>2 DEF NamesAfter
  <2> QED BY <2>1, <2>2, <2>3, <2>4
<1>7. NamedIn(IndexAfter') = NamedEntries \ {n}
  BY <1>1, <1>6 DEF NamedIn, NamedEntries
<1>8. IndexFits(NamedEntries \ {n}, IndexAfter', IndexNextAfter', MetaAfterDelete', rule)
  <2>1. IndexNextAfter' \in [Entries -> Entries]
    BY <1>0, <1>1, <1>2, <1>5, SizeFacts DEF IndexNextAfter, NatTypeOK
  <2>2. \A x \in Entries : IndexNextAfter'[x] = IF x = meta_prev[n] THEN index_next[n] ELSE IF x = n THEN 0 ELSE index_next[x]
    BY <1>1, <1>6
  <2>3. \A x \in NamedEntries \ {n} : IndexAfter'[x] = tbl_entry[x]
    BY <1>6 DEF NamedEntries
  <2>4. \A x \in NamedEntries \ {n} : x \in Expn => MetaAfterDelete'[x] = IF x = index_next[n] THEN meta_prev[n] ELSE meta_prev[x]
    BY <1>1, <1>6, SizeFacts DEF NamedEntries, Cells
  <2>5. n \in NamedEntries \cap Expn
    BY <1>1
  <2> QED BY <1>0, <2>1, <2>2, <2>3, <2>4, <2>5, IndexUnlinked
<1>9. NamesFit(EnabledEntries \ {e}, NamedEntries \ {n}, rule, IndexAfter', NamesAfter')
  <2>0. /\ \A x \in NamedEntries \ {i} : /\ tbl_entry[x] \in EnabledEntries \ {e} /\ rule[tbl_entry[x]] \in Rules
                                         /\ indx_tbl_entry[tbl_entry[x]] = x
        /\ \A y \in EnabledEntries \ {e} : rule[y] \in Rules =>
             indx_tbl_entry[y] \in NamedEntries \ {i} /\ tbl_entry[indx_tbl_entry[y]] = y
    BY <1>0 DEF NamesFit
  <2>1. ASSUME NEW x \in NamedEntries \ {n}
        PROVE  /\ IndexAfter'[x] \in EnabledEntries \ {e} /\ rule[IndexAfter'[x]] \in Rules
               /\ NamesAfter'[IndexAfter'[x]] = x
    <3>1. IndexAfter'[x] = tbl_entry[x] /\ tbl_entry[x] \in Entries /\ tbl_entry[n] \in Entries
      BY <1>0, <1>1, <1>6 DEF NamedEntries, NatTypeOK
    <3>2. CASE x = i
      BY <1>0, <1>1, <1>6, <2>0, <3>1, <3>2
    <3>3. CASE x # i
      BY <1>0, <1>1, <1>6, <2>0, <3>1, <3>3
    <3> QED BY <3>2, <3>3
  <2>2. ASSUME NEW y \in EnabledEntries \ {e}, rule[y] \in Rules
        PROVE  NamesAfter'[y] \in NamedEntries \ {n} /\ IndexAfter'[NamesAfter'[y]] = y
    <3>1. y \in Entries /\ indx_tbl_entry[y] \in Entries
      BY <1>0 DEF EnabledEntries, NatTypeOK
    <3>2. CASE y = tbl_entry[i]
      BY <1>0, <1>1, <1>6, <3>1, <3>2
    <3>3. CASE y # tbl_entry[i]
      BY <1>0, <1>1, <1>6, <2>0, <2>2, <3>1, <3>3
    <3> QED BY <3>2, <3>3
  <2> QED BY <2>1, <2>2 DEF NamesFit
<1>10. IndexDeleted'
  <2>1. IndexTold'
    <3>1. (FreedIndex \in Base => tbl_entry[FreedIndex] = 0)'
      BY <1>1, <1>5, SizeFacts
    <3> QED BY <1>2, <1>3, <1>7, <1>8, <1>9, <3>1 DEF IndexTold, NamedIn
  <2>2. cmd' = <<Head(DelRule')>>
    BY <1>2, <1>3
  <2> QED BY <1>3, <2>1, <2>2 DEF IndexDeleted
<1> QED BY <1>0, <1>2, <1>3, <1>4, <1>10, DelWriteKept

-----------------------------------------------------------------------------
(* The rule is deleted: disabled, marked as dead, or taken out of its chain. *)
LEMMA RuleCommand ==
  ASSUME DriverInv, RulesWhole, op.entry \in Cells
  PROVE  /\ op.pos \in {"only_one", "head", "middle", "last"}
         /\ op.pos = "only_one" => Head(DelRule) = Order("enable", op.entry, FALSE)
         /\ op.pos = "head" => Head(DelRule) = Order("protocol", op.entry, Dead)
         /\ op.pos \in {"middle", "last"} =>
              Head(DelRule) = Order("next_index", prev_index[op.entry], next_index[op.entry])
         /\ op.pos \in {"only_one", "head"} <=> op.entry \in Base
         /\ op.pos \in {"middle", "last"} <=> op.entry \in Expn
         /\ op.pos \in {"only_one", "last"} <=> next_index[op.entry] = 0
<1>0. op.pos = Position(next_index, op.entry)
  BY DEF RulesWhole
<1>1. /\ op.pos \in {"only_one", "head", "middle", "last"}
      /\ op.pos \in {"only_one", "head"} <=> op.entry \in Base
      /\ op.pos \in {"middle", "last"} <=> op.entry \in Expn
      /\ op.pos \in {"only_one", "last"} <=> next_index[op.entry] = 0
  BY <1>0, Positions
<1>2. \A c : Head(<<c>>) = c
  OBVIOUS
<1>3. ASSUME op.pos = "only_one" PROVE Head(DelRule) = Order("enable", op.entry, FALSE)
  <2>1. DelRule = <<Order("enable", op.entry, FALSE)>>
    BY <1>0, <1>3 DEF DelRule, DelRuleCommand, Order
  <2> QED BY <1>2, <2>1, Zenon
<1>4. ASSUME op.pos = "head" PROVE Head(DelRule) = Order("protocol", op.entry, Dead)
  <2>1. DelRule = <<Order("protocol", op.entry, Dead)>>
    BY <1>0, <1>4 DEF DelRule, DelRuleCommand, Order
  <2> QED BY <1>2, <2>1, Zenon
<1>5. ASSUME op.pos \in {"middle", "last"}
      PROVE  Head(DelRule) = Order("next_index", prev_index[op.entry], next_index[op.entry])
  <2>0. Position(next_index, op.entry) # "only_one" /\ Position(next_index, op.entry) # "head"
    BY <1>0, <1>5
  <2>1. DelRule = <<Order("next_index", prev_index[op.entry], next_index[op.entry])>>
    BY <2>0, Zenon DEF DelRule, DelRuleCommand, Order
  <2> QED BY <1>2, <2>1, Zenon
<1> QED BY <1>1, <1>3, <1>4, <1>5

(* The index table does not change, and names none of the rules that do. *)
LEMMA IndexLeft ==
  ASSUME DriverInv, IndexTold, NatTypeOK', EnabledEntries' \ {op.entry} = EnabledEntries \ {op.entry},
         UNCHANGED <<tbl_entry, index_next, meta_prev, indx_tbl_entry, op>>,
         \A x \in Entries : x # op.entry => rule'[x] = rule[x], op \in [fn : {"del"}, hdl : Handles,
               entry : Entries, pos : {"only_one", "head", "middle", "last"},
               indx : Entries, indx_pos : {"only_one", "head", "middle", "last"}, moved : Entries]
  PROVE  IndexTold'
<1>1. /\ IndexAfter' = IndexAfter /\ IndexNextAfter' = IndexNextAfter /\ MetaAfterDelete' = MetaAfterDelete
      /\ NamesAfter' = NamesAfter
  BY DEF IndexAfter, IndexNextAfter, MetaAfterDelete, NamesAfter, FreedIndex
<1> DEFINE named == NamedIn(IndexAfter)
<1>2. /\ IndexFits(named, IndexAfter, IndexNextAfter, MetaAfterDelete, rule)
      /\ NamesFit(EnabledEntries \ {op.entry}, named, rule, IndexAfter, NamesAfter)
  BY DEF IndexTold
<1>3. \A x \in EnabledEntries \ {op.entry} : rule'[x] = rule[x]
  BY DEF EnabledEntries
<1>4. \A x \in named : rule'[IndexAfter[x]] = rule[IndexAfter[x]]
  BY <1>2, <1>3 DEF NamesFit
<1>5. IndexFits(named, IndexAfter, IndexNextAfter, MetaAfterDelete, rule')
  <2>1. IndexNextAfter \in [Entries -> Entries]
    BY <1>2 DEF IndexFits, Chained
  <2>2. \A x \in Entries : IndexNextAfter[x] = IndexNextAfter[x]
    OBVIOUS
  <2>3. \A x \in named : /\ IndexAfter[x] = IndexAfter[x] /\ rule'[IndexAfter[x]] = rule[IndexAfter[x]]
                         /\ (x \in Expn => MetaAfterDelete[x] = MetaAfterDelete[x])
    BY <1>4
  <2> HIDE DEF named
  <2> QED BY <1>2, <2>1, <2>2, <2>3, IndexElsewhere
<1>6. NamesFit(EnabledEntries \ {op.entry}, named, rule', IndexAfter, NamesAfter)
  BY <1>2, <1>3 DEF NamesFit
<1>7. NamedIn(IndexAfter)' = named
  BY <1>1 DEF NamedIn
<1>8. (FreedIndex \in Base => tbl_entry[FreedIndex] = 0)'
  BY DEF IndexTold, FreedIndex
<1> QED BY <1>1, <1>5, <1>6, <1>7, <1>8 DEF IndexTold

-----------------------------------------------------------------------------
(* What the last write of a deletion starts from. *)
LEMMA LastWrite ==
  ASSUME DriverInv, Deleting, IndexDeleted, Write
  PROVE  /\ NatTypeOK /\ Running /\ RulesWhole /\ IndexTold /\ op.entry \in Cells /\ op.entry \in Entries
         /\ op.entry # 0 /\ op.entry \in EnabledEntries /\ rule[op.entry] \in Rules
         /\ RulesFit(EnabledEntries, rule, next_index, prev_index)
         /\ cmd = <<Head(DelRule)>> /\ Head(cmd) = Head(DelRule) /\ cmd' = <<>>
         /\ op \in [fn : {"del"}, hdl : Handles, entry : Entries, pos : {"only_one", "head", "middle", "last"},
                    indx : Entries, indx_pos : {"only_one", "head", "middle", "last"}, moved : Entries]
<1>1. /\ NatTypeOK /\ RulesWhole /\ IndexTold /\ op.entry \in Cells /\ op.entry \in EnabledEntries
      /\ rule[op.entry] \in Rules /\ RulesFit(EnabledEntries, rule, next_index, prev_index)
  BY DEF DriverInv, OneIsDeleted, IndexDeleted, RulesWhole
<1>2. cmd = <<Head(DelRule)>> /\ Running /\ cmd' = Tail(cmd)
  BY DEF IndexDeleted, Write
<1> DEFINE c == Head(DelRule)
<1>3. Head(cmd) = c /\ cmd' = <<>>
  <2>1. \A d : Head(<<d>>) = d /\ Tail(<<d>>) = <<>>
    OBVIOUS
  <2> QED BY <1>2, <2>1, Zenon
<1>4. op.entry \in Entries /\ op.entry # 0
  BY <1>1, SizeFacts
<1>5. op \in [fn : {"del"}, hdl : Handles, entry : Entries, pos : {"only_one", "head", "middle", "last"},
              indx : Entries, indx_pos : {"only_one", "head", "middle", "last"}, moved : Entries]
  BY DEF DriverInv, OpTypeOK, Deleting, Idle
<1> QED BY <1>1, <1>2, <1>3, <1>4, <1>5

(* The only entry of its chain is disabled. *)
LEMMA DisableKept ==
  ASSUME DriverInv, Deleting, IndexDeleted, Write, op.pos = "only_one"
  PROVE  DriverInv' /\ RuleDeleted'
<1> DEFINE e == op.entry
<1>0. e \in Base /\ next_index[e] = 0 /\ Head(DelRule) = Order("enable", e, FALSE)
  BY LastWrite, RuleCommand
<1>1. Head(cmd) = Order("enable", e, FALSE)
  BY <1>0, LastWrite
<1>2. /\ enable' = [enable EXCEPT ![e] = FALSE]
      /\ UNCHANGED <<rule, next_index, tbl_entry, index_next, prev_index, indx_tbl_entry, meta_prev, rule_id_array, op>>
  BY <1>1, Written
<1>3. NatTypeOK'
  BY <1>2, LastWrite DEF NatTypeOK
<1>4. EnabledEntries' = EnabledEntries \ {e} /\ \A x \in Entries : x # e => enable'[x] = enable[x]
  BY <1>2, LastWrite DEF EnabledEntries, NatTypeOK
<1> DEFINE D == EmptiedNow
<1>5. EmptiedNow' = D /\ e \in D /\ \A d \in D : d \in Base /\ next_index[d] = 0
  BY <1>0, <1>2 DEF EmptiedNow, Emptied
<1>6. RulesFit(EnabledEntries \ D, RulesAfter', NextAfter', PrevAfterDelete(op.pos, op.entry)')
  <2>1. \A d \in D \cap EnabledEntries : d \in Base /\ next_index[d] = 0
    BY <1>5
  <2>2. \A d \in D \cap Entries : next_index[d] = 0
    BY <1>5
  <2>3. NextAfter' \in [Entries -> Entries]
    BY <1>2, LastWrite, SizeFacts DEF NextAfter, NatTypeOK
  <2>4. \A x \in Entries : NextAfter'[x] = IF x \in D THEN 0 ELSE next_index[x]
    BY <1>2, <1>5 DEF NextAfter
  <2>5. \A x \in EnabledEntries \ D : RulesAfter'[x] = rule[x] /\ PrevAfterDelete(op.pos, op.entry)'[x] = prev_index[x]
    BY <1>2, <1>5 DEF RulesAfter, PrevAfterDelete, EmptiedNow, EnabledEntries
  <2>6. RulesFit(EnabledEntries, rule, next_index, prev_index)
    BY LastWrite
  <2> HIDE DEF D
  <2>7. RulesFit(EnabledEntries \ D, rule, next_index, prev_index)
    BY <2>1, <2>6, RulesDropped
  <2>8. \A x \in Entries : NextAfter'[x] = next_index[x]
    BY <2>2, <2>4
  <2> QED BY <2>3, <2>5, <2>7, <2>8, RulesElsewhere
<1>7. EnabledEntries' \ D = EnabledEntries \ D
  BY <1>4, <1>5
<1>8. IndexTold'
  <2>1. EnabledEntries' \ {op.entry} = EnabledEntries \ {op.entry}
    BY <1>4
  <2> QED BY <1>2, <1>3, <2>1, LastWrite, IndexLeft
<1>9. RuleDeleted'
  <2>1. op'.entry \notin EnabledEntries'
    BY <1>2, <1>4
  <2>2. cmd' = <<>>
    BY LastWrite
  <2>3. RulesFit(EnabledEntries \ EmptiedNow, RulesAfter, NextAfter, PrevAfterDelete(op.pos, op.entry))'
    BY <1>5, <1>6, <1>7
  <2> QED BY <1>2, <1>8, <2>1, <2>2, <2>3 DEF RuleDeleted
<1>10. \A x \in Entries : x # op.entry => rule'[x] = rule[x] /\ enable'[x] = enable[x]
  BY <1>2, <1>4
<1> QED BY <1>2, <1>3, <1>9, <1>10, LastWrite, DelWriteKept

(* The head of a chain, with others chained to it, is marked as dead. *)
LEMMA MarkDeadKept ==
  ASSUME DriverInv, Deleting, IndexDeleted, Write, op.pos = "head"
  PROVE  DriverInv' /\ RuleDeleted'
<1> DEFINE e == op.entry
<1>0. e \in Base /\ next_index[e] # 0 /\ Head(DelRule) = Order("protocol", e, Dead)
  BY LastWrite, RuleCommand
<1>1. Head(cmd) = Order("protocol", e, Dead)
  BY <1>0, LastWrite
<1>2. /\ rule' = [rule EXCEPT ![e] = Dead]
      /\ UNCHANGED <<enable, next_index, tbl_entry, index_next, prev_index, indx_tbl_entry, meta_prev, rule_id_array, op>>
  BY <1>1, Written
<1>3. NatTypeOK'
  BY <1>2, LastWrite DEF NatTypeOK
<1>4. EnabledEntries' = EnabledEntries /\ rule'[e] = Dead /\ \A x \in Entries : x # e => rule'[x] = rule[x]
  BY <1>2, LastWrite DEF EnabledEntries, NatTypeOK
<1>5. RulesFit(EnabledEntries, rule', next_index, prev_index)
  <2>0. RulesFit(EnabledEntries, rule, next_index, prev_index)
    BY LastWrite
  <2>1. Chained(EnabledEntries, next_index, prev_index, RuleHome(rule))
    BY <2>0 DEF RulesFit
  <2>2. \A x \in EnabledEntries : RuleHome(rule')[x] = RuleHome(rule)[x]
    BY <1>0, <1>4 DEF RuleHome, EnabledEntries
  <2>3. Chained(EnabledEntries, next_index, prev_index, RuleHome(rule'))
    <3>1. next_index \in [Entries -> Entries]
      BY <2>1 DEF Chained
    <3> QED BY <2>1, <2>2, <3>1, ChainedElsewhere
  <2>4. \A x \in EnabledEntries : rule'[x] \in Rules \/ (x \in Base /\ rule'[x] = Dead)
    BY <1>0, <1>4, <2>0 DEF RulesFit, EnabledEntries
  <2>5. \A x \in EnabledEntries \cap Base : rule'[x] \in Rules => dst_hash[rule'[x]] = x
    BY <1>4, <2>0, RuleAssumption DEF RulesFit, EnabledEntries
  <2> QED BY <2>3, <2>4, <2>5 DEF RulesFit
<1> DEFINE D == {d \in Base : rule'[d] = Dead /\ next_index[d] = 0}
<1>6. EmptiedNow' = D /\ \A d \in D : d \in Base /\ next_index[d] = 0
  BY <1>2 DEF EmptiedNow, Emptied
<1>7. RulesFit(EnabledEntries \ D, RulesAfter', NextAfter', PrevAfterDelete(op.pos, op.entry)')
  <2>1. \A d \in D \cap EnabledEntries : d \in Base /\ next_index[d] = 0
    BY <1>6
  <2>2. \A d \in D \cap Entries : next_index[d] = 0
    BY <1>6
  <2>3. NextAfter' \in [Entries -> Entries]
    BY <1>2, LastWrite, SizeFacts DEF NextAfter, NatTypeOK
  <2>4. \A x \in Entries : NextAfter'[x] = IF x \in D THEN 0 ELSE next_index[x]
    BY <1>2, <1>6 DEF NextAfter
  <2>5. \A x \in EnabledEntries \ D : RulesAfter'[x] = rule'[x] /\ PrevAfterDelete(op.pos, op.entry)'[x] = prev_index[x]
    BY <1>2, <1>6 DEF RulesAfter, PrevAfterDelete, EmptiedNow, EnabledEntries
  <2> HIDE DEF D
  <2>6. RulesFit(EnabledEntries \ D, rule', next_index, prev_index)
    BY <1>5, <2>1, RulesDropped
  <2>7. \A x \in Entries : NextAfter'[x] = next_index[x]
    BY <2>2, <2>4
  <2> QED BY <2>3, <2>5, <2>6, <2>7, RulesElsewhere
<1>8. IndexTold'
  <2>1. EnabledEntries' \ {op.entry} = EnabledEntries \ {op.entry}
    BY <1>4
  <2> QED BY <1>2, <1>3, <1>4, <2>1, LastWrite, IndexLeft
<1>9. RuleDeleted'
  <2>1. rule'[op'.entry] = Dead
    BY <1>2, <1>4
  <2>2. cmd' = <<>>
    BY LastWrite
  <2>3. RulesFit(EnabledEntries \ EmptiedNow, RulesAfter, NextAfter, PrevAfterDelete(op.pos, op.entry))'
    BY <1>4, <1>6, <1>7
  <2> QED BY <1>8, <2>1, <2>2, <2>3 DEF RuleDeleted
<1>10. \A x \in Entries : x # op.entry => rule'[x] = rule[x] /\ enable'[x] = enable[x]
  BY <1>2, <1>4
<1> QED BY <1>2, <1>3, <1>9, <1>10, LastWrite, DelWriteKept

(* An entry of the expansion table is taken out of its chain; so are heads *)
(* marked as dead that nothing is chained to any more.                     *)
LEMMA UnlinkRuleKept ==
  ASSUME DriverInv, Deleting, IndexDeleted, Write, op.pos \in {"middle", "last"}
  PROVE  DriverInv' /\ RuleDeleted'
<1> DEFINE e == op.entry  p == prev_index[op.entry]  n == next_index[op.entry]
<1>0. /\ e \in Expn /\ e \notin Base /\ (op.pos = "last" => n = 0) /\ Head(DelRule) = Order("next_index", p, n)
      /\ (op.pos \in {"only_one", "last"} <=> next_index[op.entry] = 0)
  BY LastWrite, RuleCommand, SizeFacts
<1>1. Head(cmd) = Order("next_index", p, n)
  BY <1>0, LastWrite
<1>2. /\ next_index' = [next_index EXCEPT ![p] = n]
      /\ UNCHANGED <<enable, rule, tbl_entry, index_next, prev_index, indx_tbl_entry, meta_prev, rule_id_array, op>>
  BY <1>1, Written
<1>3. Chained(EnabledEntries, next_index, prev_index, RuleHome(rule))
  BY LastWrite DEF RulesFit
<1>4. e \in Entries /\ e # 0 /\ p \in Entries /\ n \in Entries /\ next_index[p] = e /\ e \in EnabledEntries
  BY <1>0, LastWrite, <1>3 DEF NatTypeOK, Chained, Linked
<1>5. p # e /\ n # e
  <2>1. \A x \in EnabledEntries : next_index[x] = e => x = p
    BY <1>3, <1>4 DEF Chained, Linked
  <2>2. CASE n = e
    <3> DEFINE S == (EnabledEntries \cap Expn) \ {e}  s == RuleHome(rule)[e]
    <3>1. s \in Base /\ e \in Chain(next_index, s) /\ p = e
      BY <1>3, <1>4, <2>1, <2>2 DEF Chained
    <3>2. Follows(next_index, S \cup {s})
      <4>1. ASSUME NEW x \in S \cup {s}, next_index[x] # 0, next_index[x] \notin S PROVE FALSE
        <5>1. x \in Entries /\ x # e
          BY <1>0, <3>1, SizeFacts
        <5>2. x \in EnabledEntries
          BY <1>3, <4>1, <5>1 DEF Chained, Linked
        <5>3. next_index[x] \in EnabledEntries \cap Expn
          BY <1>3, <4>1, <5>2 DEF Chained, Linked
        <5>4. next_index[x] = e
          BY <4>1, <5>3
        <5> QED BY <2>1, <3>1, <5>1, <5>2, <5>4
      <4> QED BY <4>1 DEF Follows
    <3>3. S \in SUBSET Expn /\ e \notin S /\ e # s
      BY <1>0, <3>1
    <3> HIDE DEF S, s
    <3> QED BY <3>1, <3>2, <3>3, ChainLeast
  <2>3. CASE p = e
    BY <1>4, <2>2, <2>3
  <2> QED BY <2>2, <2>3
<1>6. NatTypeOK' /\ next_index' \in [Entries -> Entries]
  BY <1>2, <1>4, LastWrite DEF NatTypeOK
<1>7. next_index'[p] = n /\ next_index'[e] = n /\ \A x \in Entries : x # p => next_index'[x] = next_index[x]
  BY <1>2, <1>3, <1>4, <1>5 DEF Chained
<1> DEFINE nx == [x \in Entries |-> IF x = e THEN 0 ELSE next_index'[x]]
           D == {d \in Base : rule[d] = Dead /\ next_index'[d] = 0}
           pv == PrevAfterDelete(op.pos, op.entry)'
<1>8. EmptiedNow' = {e} \cup D
  BY <1>0, <1>2 DEF EmptiedNow, Emptied
<1>9. nx \in [Entries -> Entries] /\ \A x \in Entries : nx[x] = IF x = p THEN n ELSE IF x = e THEN 0 ELSE next_index[x]
  BY <1>4, <1>5, <1>6, <1>7, SizeFacts
<1>10. \A x \in EnabledEntries \ {e} : x \in Expn => pv[x] = IF x = n THEN p ELSE prev_index[x]
  <2> SUFFICES ASSUME NEW x \in EnabledEntries \ {e}, x \in Expn PROVE pv[x] = IF x = n THEN p ELSE prev_index[x]
    OBVIOUS
  <2>1. x \in Entries /\ x # 0 /\ x \notin EmptiedNow'
    BY <1>8, SizeFacts DEF Cells
  <2>2. pv[x] = IF op.pos = "middle" /\ x = next_index'[e] THEN prev_index[e] ELSE prev_index[x]
    BY <1>2, <2>1 DEF PrevAfterDelete, EmptiedNow
  <2> QED BY <1>0, <1>7, <2>1, <2>2
<1>11. RulesFit(EnabledEntries \ {e}, rule, nx, pv)
  <2>1. RulesFit(EnabledEntries, rule, next_index, prev_index) /\ e \in EnabledEntries \cap Expn
    BY <1>0, <1>4, LastWrite
  <2>2. \A x \in Entries : nx[x] = IF x = prev_index[e] THEN next_index[e] ELSE IF x = e THEN 0 ELSE next_index[x]
    BY <1>9
  <2>3. \A x \in EnabledEntries \ {e} : x \in Expn => pv[x] = IF x = next_index[e] THEN prev_index[e] ELSE prev_index[x]
    BY <1>10
  <2>4. nx \in [Entries -> Entries]
    BY <1>9
  <2> HIDE DEF nx, pv
  <2> QED BY <2>1, <2>2, <2>3, <2>4, RulesUnlinked
<1>12. RulesFit((EnabledEntries \ {e}) \ D, RulesAfter', NextAfter', pv)
  <2>1. \A d \in D : d \in Base /\ d \in Entries /\ d # e /\ nx[d] = 0
    BY <1>0, SizeFacts
  <2>2. \A d \in D \cap (EnabledEntries \ {e}) : d \in Base /\ nx[d] = 0
    BY <2>1
  <2>3. \A d \in D \cap Entries : nx[d] = 0
    BY <2>1
  <2>4. NextAfter' \in [Entries -> Entries]
    BY <1>6, SizeFacts DEF NextAfter
  <2>5. \A x \in Entries : NextAfter'[x] = IF x \in D THEN 0 ELSE nx[x]
    BY <1>8 DEF NextAfter
  <2>6. \A x \in (EnabledEntries \ {e}) \ D : RulesAfter'[x] = rule[x] /\ pv[x] = pv[x]
    BY <1>2, <1>8 DEF RulesAfter, EnabledEntries
  <2> HIDE DEF D, nx, pv
  <2>7. RulesFit((EnabledEntries \ {e}) \ D, rule, nx, pv)
    BY <1>11, <2>2, RulesDropped
  <2>8. \A x \in Entries : NextAfter'[x] = nx[x]
    BY <2>3, <2>5
  <2> QED BY <2>4, <2>6, <2>7, <2>8, RulesElsewhere
<1>13. EnabledEntries' \ EmptiedNow' = (EnabledEntries \ {e}) \ D
  BY <1>2, <1>8 DEF EnabledEntries
<1>14. EnabledEntries' = EnabledEntries /\ \A x \in Entries : x # op.entry => rule'[x] = rule[x] /\ enable'[x] = enable[x]
  BY <1>2 DEF EnabledEntries
<1>15. IndexTold'
  <2>1. EnabledEntries' \ {op.entry} = EnabledEntries \ {op.entry}
    BY <1>14
  <2> QED BY <1>2, <1>6, <1>14, <2>1, LastWrite, IndexLeft
<1>16. RuleDeleted'
  <2>1. op'.entry \in EmptiedNow' \cap Expn
    BY <1>0, <1>2, <1>8
  <2>2. cmd' = <<>>
    BY LastWrite
  <2>3. RulesFit(EnabledEntries \ EmptiedNow, RulesAfter, NextAfter, PrevAfterDelete(op.pos, op.entry))'
    BY <1>12, <1>13
  <2> QED BY <1>15, <2>1, <2>2, <2>3 DEF RuleDeleted
<1> QED BY <1>2, <1>6, <1>14, <1>16, LastWrite, DelWriteKept

-----------------------------------------------------------------------------
(* The bookkeeping of a deletion: what had been said of the tables as they  *)
(* will be is true of them.                                                 *)
LEMMA DelReturnsFacts ==
  ASSUME DriverInv, DelReturns
  PROVE  /\ Deleting /\ Running /\ NatTypeOK /\ RuleDeleted /\ IndexTold /\ op.hdl \in Handles
         /\ op.entry \in Cells /\ op.entry \in Entries /\ cmd' = <<>>
         /\ op.indx \in Entries /\ op.moved \in Entries /\ FreedIndex \in Entries
         /\ rule' = RulesAfter /\ next_index' = NextAfter /\ prev_index' = PrevAfterDelete(op.pos, op.entry)
         /\ tbl_entry' = IndexAfter /\ index_next' = IndexNextAfter /\ meta_prev' = MetaAfterDelete
         /\ indx_tbl_entry' = IndexOfRuleAfterDelete
         /\ EnabledEntries' = EnabledEntries \ EmptiedNow
         /\ rule_id_array' = [rule_id_array EXCEPT ![op.hdl] = 0]
         /\ op' = [fn |-> "done", ret |-> op.hdl]
         /\ \A x \in Entries : rule'[x] = IF x \in EmptiedNow THEN NoRule ELSE rule[x]
         /\ \A x \in EmptiedNow : x = op.entry \/ rule[x] = Dead
<1>1. Deleting /\ Running /\ NatTypeOK /\ cmd = <<>> /\ OneIsDeleted
  BY DEF DelReturns, DriverInv, Deleting, Running
<1>2. op \in [fn : {"del"}, hdl : Handles, entry : Entries, pos : {"only_one", "head", "middle", "last"},
              indx : Entries, indx_pos : {"only_one", "head", "middle", "last"}, moved : Entries]
  BY <1>1 DEF DriverInv, OpTypeOK, Deleting, Idle
<1>3. op.hdl \in Handles /\ op.indx \in Entries /\ op.moved \in Entries /\ op.entry \in Cells /\ op.entry \in Entries
  BY <1>1, <1>2, SizeFacts DEF OneIsDeleted
<1>4. RuleDeleted
  <2>1. CASE NothingDeleted
    <3>1. op.indx_pos \in {"only_one", "head", "middle", "last"}
      BY <1>2
    <3> DEFINE l == Head(DelRule)
    <3>2. \A a, b, c : <<a, b>> # <<>> /\ <<a, b, c>> # <<>>
      OBVIOUS
    <3> QED BY <1>1, <2>1, <3>1, <3>2, DelCommands, Zenon
  <2>2. CASE HeadOverwritten
    <3>1. \A a, b : <<a, b>> # <<>>
      OBVIOUS
    <3> QED BY <1>1, <2>2, <3>1, Zenon DEF HeadOverwritten
  <2>3. CASE IndexDeleted
    <3>1. \A a : <<a>> # <<>>
      OBVIOUS
    <3> QED BY <1>1, <2>3, <3>1, Zenon DEF IndexDeleted
  <2> QED BY <1>1, <2>1, <2>2, <2>3 DEF OneIsDeleted
<1>5. FreedIndex \in Entries
  BY <1>3 DEF FreedIndex
<1>6. /\ rule' = RulesAfter /\ next_index' = NextAfter /\ prev_index' = PrevAfterDelete(op.pos, op.entry)
      /\ indx_tbl_entry' = IndexOfRuleAfterDelete /\ meta_prev' = MetaAfterDelete
      /\ tbl_entry' = IndexAfter /\ index_next' = IndexNextAfter /\ cmd' = <<>>
      /\ rule_id_array' = [rule_id_array EXCEPT ![op.hdl] = 0] /\ op' = [fn |-> "done", ret |-> op.hdl]
  BY <1>1 DEF DelReturns, RulesAfter, NextAfter, EmptiedNow, IndexAfter, IndexNextAfter
<1>7. EnabledEntries' = EnabledEntries \ EmptiedNow
  BY DEF DelReturns, EnabledEntries, EmptiedNow
<1>8. \A x \in Entries : rule'[x] = IF x \in EmptiedNow THEN NoRule ELSE rule[x]
  BY <1>6 DEF RulesAfter
<1>9. \A x \in EmptiedNow : x = op.entry \/ rule[x] = Dead
  BY DEF EmptiedNow, Emptied
<1>10. IndexTold
  BY <1>4 DEF RuleDeleted
<1> QED BY <1>1, <1>3, <1>4, <1>5, <1>6, <1>7, <1>8, <1>9, <1>10

LEMMA DelReturnsKept ==
  ASSUME DriverInv, DelReturns
  PROVE  DriverInv'
<1> DEFINE e == op.entry  D == EmptiedNow
<1>1. OpTypeOK' /\ ~Running' /\ ~Adding' /\ ~Deleting'
  BY DelReturnsFacts DEF OpTypeOK, Running, Adding, Deleting
<1>2. NatTypeOK'
  <2>1. rule' \in [Entries -> Rules \cup {NoRule, Dead}] /\ next_index' \in [Entries -> Entries]
    BY DelReturnsFacts, SizeFacts DEF NatTypeOK, RulesAfter, NextAfter
  <2>2. prev_index' \in [Entries -> Entries] /\ indx_tbl_entry' \in [Entries -> Entries]
        /\ meta_prev' \in [Entries -> Entries]
    <3>0. /\ prev_index \in [Entries -> Entries] /\ indx_tbl_entry \in [Entries -> Entries]
          /\ meta_prev \in [Entries -> Entries] /\ 0 \in Entries /\ op.indx \in Entries /\ op.entry \in Entries
      BY DelReturnsFacts, SizeFacts DEF NatTypeOK
    <3>1. PrevAfterDelete(op.pos, op.entry) \in [Entries -> Entries]
      BY <3>0 DEF PrevAfterDelete
    <3>2. IndexOfRuleAfterDelete \in [Entries -> Entries]
      BY <3>0 DEF IndexOfRuleAfterDelete
    <3>3. MetaAfterDelete \in [Entries -> Entries]
      BY <3>0 DEF MetaAfterDelete
    <3> QED BY <3>1, <3>2, <3>3, DelReturnsFacts
  <2>3. tbl_entry' \in [Entries -> Entries] /\ index_next' \in [Entries -> Entries]
    BY DelReturnsFacts, SizeFacts DEF NatTypeOK, IndexAfter, IndexNextAfter
  <2>4. rule_id_array' \in [Handles -> Entries]
    BY DelReturnsFacts, SizeFacts DEF NatTypeOK
  <2>5. enable' \in [Entries -> BOOLEAN]
    BY DelReturnsFacts DEF NatTypeOK, DelReturns
  <2> QED BY <2>1, <2>2, <2>3, <2>4, <2>5 DEF NatTypeOK
<1>3. RulesFit(EnabledEntries, rule, next_index, prev_index)'
  BY DelReturnsFacts DEF RuleDeleted
<1> DEFINE named == NamedIn(IndexAfter)
<1>4. NamedEntries' = named
  BY DelReturnsFacts DEF NamedIn, NamedEntries
<1>5. /\ IndexFits(named, IndexAfter, IndexNextAfter, MetaAfterDelete, rule)
      /\ NamesFit(EnabledEntries \ {e}, named, rule, IndexAfter, NamesAfter)
  BY DelReturnsFacts DEF IndexTold
<1>6. \A y \in EnabledEntries \ {e} : rule[y] \in Rules => y \notin D /\ rule'[y] = rule[y] /\ y \in Entries
  BY DelReturnsFacts, RuleAssumption DEF EnabledEntries
<1>7. IndexFits(NamedEntries, tbl_entry, index_next, meta_prev, rule)'
  <2>1. \A x \in named : rule'[IndexAfter[x]] = rule[IndexAfter[x]]
    BY <1>5, <1>6 DEF NamesFit
  <2>2. IndexNextAfter \in [Entries -> Entries]
    BY <1>5 DEF IndexFits, Chained
  <2>3. \A x \in Entries : IndexNextAfter[x] = IndexNextAfter[x]
    OBVIOUS
  <2>4. \A x \in named : /\ IndexAfter[x] = IndexAfter[x] /\ rule'[IndexAfter[x]] = rule[IndexAfter[x]]
                         /\ (x \in Expn => MetaAfterDelete[x] = MetaAfterDelete[x])
    BY <2>1
  <2>5. IndexFits(named, IndexAfter, IndexNextAfter, MetaAfterDelete, rule')
    <3> HIDE DEF named
    <3> QED BY <1>5, <2>2, <2>3, <2>4, IndexElsewhere
  <2> QED BY <1>4, <2>5, DelReturnsFacts
<1>8. NamesFit(EnabledEntries, NamedEntries, rule, tbl_entry, indx_tbl_entry)'
  <2>1. \A x \in Entries \ D : IndexOfRuleAfterDelete[x] = NamesAfter[x]
    BY DEF IndexOfRuleAfterDelete, NamesAfter, EmptiedNow
  <2>2. ASSUME NEW i \in named
        PROVE  /\ IndexAfter[i] \in EnabledEntries' /\ rule'[IndexAfter[i]] \in Rules
               /\ IndexOfRuleAfterDelete[IndexAfter[i]] = i
    <3>1. IndexAfter[i] \in EnabledEntries \ {e} /\ rule[IndexAfter[i]] \in Rules /\ NamesAfter[IndexAfter[i]] = i
      BY <1>5 DEF NamesFit
    <3>2. IndexAfter[i] \notin D /\ rule'[IndexAfter[i]] = rule[IndexAfter[i]] /\ IndexAfter[i] \in Entries
      BY <1>6, <3>1
    <3> QED BY <2>1, <3>1, <3>2, DelReturnsFacts
  <2>3. ASSUME NEW y \in EnabledEntries', rule'[y] \in Rules
        PROVE  IndexOfRuleAfterDelete[y] \in named /\ IndexAfter[IndexOfRuleAfterDelete[y]] = y
    <3>1. y \in EnabledEntries /\ y \notin D /\ y \in Entries
      BY DelReturnsFacts DEF EnabledEntries
    <3>2. rule'[y] = rule[y]
      BY <3>1, DelReturnsFacts
    <3>3. y # e
      BY <2>3, <3>1, <3>2, RuleAssumption, DelReturnsFacts DEF RuleDeleted
    <3>4. NamesAfter[y] \in named /\ IndexAfter[NamesAfter[y]] = y
      BY <1>5, <2>3, <3>1, <3>2, <3>3 DEF NamesFit
    <3> QED BY <2>1, <3>1, <3>4
  <2>4. NamesFit(EnabledEntries', named, rule', IndexAfter, IndexOfRuleAfterDelete)
    BY <2>2, <2>3 DEF NamesFit
  <2> QED BY <1>4, <2>4, DelReturnsFacts
<1>9. NoneRuns'
  BY <1>3, <1>7, <1>8, DelReturnsFacts DEF NoneRuns
<1>10. HandlesFit'
  <2>1. rule_id_array'[op.hdl] = 0 /\ \A h \in Handles : h # op.hdl => rule_id_array'[h] = rule_id_array[h]
    BY DelReturnsFacts DEF NatTypeOK
  <2>2. ASSUME NEW h \in Handles, rule_id_array'[h] # 0
        PROVE  /\ rule_id_array'[h] = rule_id_array[h]
               /\ rule_id_array'[h] \in EnabledEntries' /\ rule'[rule_id_array'[h]] \in Rules
               /\ h < TableEntries + ExpnEntries
    <3>1. h # op.hdl /\ rule_id_array'[h] = rule_id_array[h]
      BY <2>1, <2>2
    <3>2. rule_id_array[h] \in EnabledEntries /\ rule[rule_id_array[h]] \in Rules /\ rule_id_array[h] # e
          /\ h < TableEntries + ExpnEntries
      BY <2>2, <3>1, DelReturnsFacts DEF DriverInv, HandlesFit, BeingDeleted
    <3>3. rule_id_array[h] \notin D /\ rule'[rule_id_array[h]] = rule[rule_id_array[h]]
      BY <1>6, <3>2
    <3> QED BY <3>1, <3>2, <3>3, DelReturnsFacts
  <2>3. \A g, h \in Handles : rule_id_array'[g] # 0 /\ rule_id_array'[g] = rule_id_array'[h] => g = h
    BY <2>2 DEF DriverInv, HandlesFit
  <2> QED BY <1>1, <2>2, <2>3 DEF HandlesFit
<1> QED BY <1>1, <1>2, <1>9, <1>10 DEF DriverInv

(* Every step of the driver keeps the invariant. *)
LEMMA WriteKept ==
  ASSUME DriverInv, Write
  PROVE  DriverInv'
<1>1. Running
  BY DEF Write
<1>2. CASE Adding
  <2>1. AddStage
    BY <1>2 DEF DriverInv, OneIsAdded
  <2>2. cmd # <<>>
    BY DEF Write
  <2> QED BY <1>2, <2>1, <2>2, LinkRuleKept, NameRuleKept, LinkIndexKept, EnableKept DEF AddStage
<1>3. CASE Deleting
  <2>0. cmd # <<>> /\ OneIsDeleted
    BY <1>3 DEF Write, DriverInv
  <2>1. CASE NothingDeleted
    <3>1. op.indx_pos \in {"only_one", "head", "middle", "last"}
      BY <1>3, <2>1, DelFacts
    <3> QED BY <1>3, <2>1, <3>1, EmptyIndexKept, OverwriteHeadKept, UnlinkIndexKept
  <2>2. CASE HeadOverwritten
    BY <1>3, <2>2, UnlinkMovedKept
  <2>3. CASE IndexDeleted
    <3>1. op.pos \in {"only_one", "head", "middle", "last"}
      BY <1>3, <2>3, LastWrite
    <3> QED BY <1>3, <2>3, <3>1, DisableKept, MarkDeadKept, UnlinkRuleKept
  <2>4. CASE RuleDeleted
    BY <2>0, <2>4 DEF RuleDeleted
  <2> QED BY <2>0, <2>1, <2>2, <2>3, <2>4 DEF OneIsDeleted
<1> QED BY <1>1, <1>2, <1>3 DEF Running, Adding, Deleting

LEMMA DriverStepKept ==
  ASSUME DriverInv, DriverStep
  PROVE  DriverInv'
BY WriteKept, AddReturnsKept, DelReturnsKept DEF DriverStep

-----------------------------------------------------------------------------
(* What the hardware finds. *)
LEMMA RuleFound ==
  ASSUME NEW used, NEW ru, NEW nx, NEW pv, RulesFit(used, ru, nx, pv), NEW e \in used, ru[e] \in Rules
  PROVE  e \in Chain(nx, dst_hash[ru[e]])
<1>1. e \in Entries /\ e \in Cells /\ e \in Chain(nx, RuleHome(ru)[e])
  BY SizeFacts DEF RulesFit, Chained
<1>2. RuleHome(ru)[e] = dst_hash[ru[e]]
  BY <1>1 DEF RuleHome, RulesFit
<1> QED BY <1>1, <1>2

LEMMA IndexFound ==
  ASSUME NEW used, NEW tb, NEW inx, NEW mp, NEW ru, IndexFits(used, tb, inx, mp, ru), NEW i \in used
  PROVE  i \in Chain(inx, src_hash[ru[tb[i]]])
<1>1. i \in Entries /\ i \in Chain(inx, IndexHome(tb, ru)[i])
  BY SizeFacts DEF IndexFits, Chained
<1>2. IndexHome(tb, ru)[i] = src_hash[ru[tb[i]]]
  BY <1>1 DEF IndexHome, IndexFits
<1> QED BY <1>1, <1>2

(* A deletion's first command has been executed, or not. *)
Untouched == Len(cmd) = IF op.indx_pos = "head" THEN 3 ELSE 2

LEMMA StageByLength ==
  ASSUME DriverInv, Deleting
  PROVE  /\ NothingDeleted => Untouched /\ cmd # <<>>
         /\ HeadOverwritten => ~Untouched /\ cmd # <<>>
         /\ IndexDeleted => ~Untouched /\ cmd # <<>>
         /\ RuleDeleted => ~Untouched /\ cmd = <<>>
<1>1. \A a, b, c : Len(<<a>>) = 1 /\ Len(<<a, b>>) = 2 /\ Len(<<a, b, c>>) = 3 /\ <<a>> # <<>> /\ <<a, b>> # <<>>
                   /\ <<a, b, c>> # <<>>
  OBVIOUS
<1>2. Len(<<>>) = 0 /\ 0 # 2 /\ 0 # 3 /\ 1 # 2 /\ 1 # 3 /\ 2 # 3
  OBVIOUS
<1>3. ASSUME NothingDeleted PROVE Untouched /\ cmd # <<>>
  <2>1. op.indx_pos \in {"only_one", "head", "middle", "last"}
    BY <1>3, DelFacts
  <2>2. CASE op.indx_pos = "head"
    BY <1>1, <1>3, <2>2, DelCommands, Zenon DEF Untouched
  <2>3. CASE op.indx_pos # "head"
    <3>1. \E a, b : cmd = <<a, b>>
      <4>1. CASE op.indx_pos = "only_one"
        BY <1>3, <4>1, DelCommands, Zenon
      <4>2. CASE op.indx_pos \in {"middle", "last"}
        BY <1>3, <4>2, DelCommands, Zenon
      <4> QED BY <2>1, <2>3, <4>1, <4>2
    <3> QED BY <1>1, <2>3, <3>1, Zenon DEF Untouched
  <2> QED BY <2>2, <2>3
<1>4. ASSUME HeadOverwritten PROVE ~Untouched /\ cmd # <<>>
  <2>1. op.indx_pos = "head" /\ \E a, b : cmd = <<a, b>>
    BY <1>4, Zenon DEF HeadOverwritten
  <2>2. Len(cmd) = 2 /\ cmd # <<>>
    BY <1>1, <2>1, Zenon
  <2> QED BY <1>2, <2>1, <2>2 DEF Untouched
<1>5. ASSUME IndexDeleted PROVE ~Untouched /\ cmd # <<>>
  <2>1. \E a : cmd = <<a>>
    BY <1>5, Zenon DEF IndexDeleted
  <2>2. Len(cmd) = 1 /\ cmd # <<>>
    BY <1>1, <2>1, Zenon
  <2> QED BY <1>2, <2>2 DEF Untouched
<1>6. ASSUME RuleDeleted PROVE ~Untouched /\ cmd = <<>>
  <2>1. cmd = <<>>
    BY <1>6 DEF RuleDeleted
  <2> QED BY <1>2, <2>1 DEF Untouched
<1> QED BY <1>3, <1>4, <1>5, <1>6

(* The entries of the rule table that packets out, and packets in, can find. *)
Sending == EnabledEntries \ (IF Deleting /\ ~Untouched THEN {op.entry} ELSE {})
Receiving == EnabledEntries \ (IF Deleting /\ cmd = <<>> THEN {op.entry} ELSE {})
HeldIn(S) == {r \in Rules : \E e \in S : rule[e] = r}

LEMMA DownlinkFound ==
  ASSUME DriverInv, NEW e \in Receiving, rule[e] \in Rules
  PROVE  DownlinkHits(rule[e])
<1>0. e \in EnabledEntries /\ enable[e]
  BY DEF Receiving, EnabledEntries
<1>1. e \in Chain(next_index, dst_hash[rule[e]])
  <2>1. CASE ~Running
    BY <1>0, <2>1, RuleFound DEF DriverInv, NoneRuns
  <2>2. CASE Adding
    <3> DEFINE used == EnabledEntries \cup (IF RuleLinked THEN {op.entry} ELSE {})
    <3>1. RulesFit(used, rule, next_index, prev_index) /\ e \in used
      BY <1>0, <2>2 DEF DriverInv, OneIsAdded
    <3> HIDE DEF used
    <3> QED BY <3>1, RuleFound
  <2>3. CASE Deleting
    <3>1. CASE NothingDeleted \/ HeadOverwritten \/ IndexDeleted
      <4>1. RulesFit(EnabledEntries, rule, next_index, prev_index)
        BY <3>1 DEF NothingDeleted, HeadOverwritten, IndexDeleted, RulesWhole
      <4> QED BY <1>0, <4>1, RuleFound
    <3>2. CASE RuleDeleted
      <4>1. e # op.entry
        BY <2>3, <3>2 DEF Receiving, RuleDeleted
      <4>2. e \notin EmptiedNow /\ e \in Entries
        BY <1>0, <4>1, RuleAssumption DEF EmptiedNow, Emptied, EnabledEntries
      <4>3. RulesAfter[e] = rule[e]
        BY <4>2 DEF RulesAfter
      <4> DEFINE used == EnabledEntries \ EmptiedNow  pv == PrevAfterDelete(op.pos, op.entry)
      <4>4. RulesFit(used, RulesAfter, NextAfter, pv) /\ e \in used
        BY <1>0, <3>2, <4>2 DEF RuleDeleted
      <4>5. e \in Chain(NextAfter, dst_hash[rule[e]])
        <5> HIDE DEF used, pv
        <5> QED BY <4>3, <4>4, RuleFound
      <4>6. \A x \in Entries : NextAfter[x] \in {next_index[x], 0}
        BY DEF NextAfter
      <4>7. dst_hash[rule[e]] \in Entries
        BY HashAssumption, SizeFacts
      <4> QED BY <4>5, <4>6, <4>7, ChainShrinks
    <3> QED BY <2>3, <3>1, <3>2 DEF DriverInv, OneIsDeleted
  <2> QED BY <2>1, <2>2, <2>3 DEF Running, Adding, Deleting
<1> QED BY <1>0, <1>1 DEF DownlinkHits, Matches

LEMMA UplinkFound ==
  ASSUME DriverInv, NEW e \in Sending, rule[e] \in Rules
  PROVE  UplinkHits(rule[e])
<1>0. e \in EnabledEntries /\ enable[e] /\ e \in Entries
  BY DEF Sending, EnabledEntries
<1>1. \E s \in Chain(index_next, src_hash[rule[e]]) : tbl_entry[s] = e /\ tbl_entry[s] # 0
  <2> DEFINE s == indx_tbl_entry[e]
  <2>1. CASE ~Running
    <3>1. IndexFits(NamedEntries, tbl_entry, index_next, meta_prev, rule) /\ s \in NamedEntries /\ tbl_entry[s] = e
      BY <1>0, <2>1 DEF DriverInv, NoneRuns, NamesFit
    <3>2. s \in Chain(index_next, src_hash[rule[tbl_entry[s]]])
      <4> HIDE DEF s
      <4> QED BY <3>1, IndexFound
    <3> QED BY <3>1, <3>2 DEF NamedEntries
  <2>2. CASE Adding
    <3> DEFINE used == NamedEntries \ (IF IndexLinked THEN {} ELSE {NewIndex})
    <3>0. OneIsAdded
      BY <2>2 DEF DriverInv
    <3>1. IndexFits(used, tbl_entry, index_next, meta_prev, rule)
      BY <3>0 DEF OneIsAdded
    <3>2. CASE e # op.entry
      <4>1. s \in NamedEntries \ {NewIndex} /\ tbl_entry[s] = e
        BY <1>0, <3>0, <3>2 DEF OneIsAdded, NamesFit
      <4>2. s \in Chain(index_next, src_hash[rule[tbl_entry[s]]])
        <5>1. s \in used
          BY <4>1
        <5> HIDE DEF s, used
        <5> QED BY <3>1, <5>1, IndexFound
      <4> QED BY <4>1, <4>2 DEF NamedEntries
    <3>3. CASE e = op.entry
      <4>1. IndexNamed /\ IndexLinked
        BY <1>0, <3>0, <3>3 DEF OneIsAdded, AddStage
      <4>2. e # 0 /\ NewIndex \in Entries /\ s = NewIndex
        BY <2>2, <3>3, AddFacts
      <4>3. s \in used /\ tbl_entry[s] = e /\ s \in NamedEntries
        BY <3>3, <4>1, <4>2 DEF IndexNamed, NamedEntries
      <4>4. s \in Chain(index_next, src_hash[rule[tbl_entry[s]]])
        <5> HIDE DEF s, used
        <5> QED BY <3>1, <4>3, IndexFound
      <4> QED BY <4>2, <4>3, <4>4
    <3> QED BY <3>2, <3>3
  <2>3. CASE Deleting
    <3>1. CASE NothingDeleted
      <4>1. IndexFits(NamedEntries, tbl_entry, index_next, meta_prev, rule) /\ s \in NamedEntries /\ tbl_entry[s] = e
        BY <1>0, <3>1 DEF NothingDeleted, NamesFit
      <4>2. s \in Chain(index_next, src_hash[rule[tbl_entry[s]]])
        <5> HIDE DEF s
        <5> QED BY <4>1, IndexFound
      <4> QED BY <4>1, <4>2 DEF NamedEntries
    <3>2. CASE HeadOverwritten
      <4>0. e # op.entry
        BY <2>3, <3>2, StageByLength DEF Sending
      <4>1. IndexFits(NamedEntries, tbl_entry, index_next, meta_prev, rule) /\ s \in NamedEntries /\ tbl_entry[s] = e
        BY <1>0, <3>2, <4>0 DEF HeadOverwritten, NamesFit
      <4>2. s \in Chain(index_next, src_hash[rule[tbl_entry[s]]])
        <5> HIDE DEF s
        <5> QED BY <4>1, IndexFound
      <4> QED BY <4>1, <4>2 DEF NamedEntries
    <3>3. CASE IndexDeleted \/ RuleDeleted
      <4> DEFINE t == NamesAfter[e]  used == NamedIn(IndexAfter)
      <4>0. e # op.entry /\ IndexTold
        BY <2>3, <3>3, StageByLength DEF Sending, IndexDeleted, RuleDeleted
      <4>1. IndexFits(used, IndexAfter, IndexNextAfter, MetaAfterDelete, rule) /\ t \in used /\ IndexAfter[t] = e
        BY <1>0, <4>0 DEF IndexTold, NamesFit
      <4>2. t \in Chain(IndexNextAfter, src_hash[rule[IndexAfter[t]]])
        <5> HIDE DEF t, used
        <5> QED BY <4>1, IndexFound
      <4>3. t \in Entries /\ IndexAfter[t] # 0
        BY <4>1 DEF NamedIn
      <4>4. tbl_entry[t] = e /\ e # 0
        BY <4>1, <4>3 DEF DriverInv, NatTypeOK, IndexAfter
      <4>5. \A x \in Entries : IndexNextAfter[x] \in {index_next[x], 0}
        BY DEF DriverInv, NatTypeOK, IndexNextAfter
      <4>6. src_hash[rule[e]] \in Entries
        BY HashAssumption, SizeFacts
      <4>7. t \in Chain(index_next, src_hash[rule[e]])
        BY <4>1, <4>2, <4>5, <4>6, ChainShrinks
      <4> QED BY <4>4, <4>7
    <3> QED BY <2>3, <3>1, <3>2, <3>3 DEF DriverInv, OneIsDeleted
  <2> QED BY <2>1, <2>2, <2>3 DEF Running, Adding, Deleting
<1> QED BY <1>0, <1>1 DEF UplinkHits, Matches

(* A rule in hand that is not being deleted is found both ways. *)
LEMMA DriverReaches == DriverInv => RuleInHandReachable
<1> SUFFICES ASSUME DriverInv, NEW h \in Handles, rule_id_array[h] # 0, ~BeingDeleted(h)
             PROVE  DownlinkHits(RuleOfHandle(h)) /\ UplinkHits(RuleOfHandle(h))
  BY DEF RuleInHandReachable
<1> DEFINE e == rule_id_array[h]
<1>1. e \in EnabledEntries /\ rule[e] \in Rules /\ (Running => e # op.entry) /\ RuleOfHandle(h) = rule[e]
  BY DEF DriverInv, HandlesFit, RuleOfHandle
<1>2. e \in Sending /\ e \in Receiving
  BY <1>1 DEF Sending, Receiving, Deleting, Running
<1> HIDE DEF e
<1> QED BY <1>1, <1>2, DownlinkFound, UplinkFound

(* Between two operations the lists match. *)
LEMMA DriverListsMatch == DriverInv => ListsMatch
<1> SUFFICES ASSUME DriverInv, ~Running PROVE ListsMatch
  BY DEF ListsMatch
<1>1. NoneRuns /\ NatTypeOK
  BY DEF DriverInv
<1>2. /\ \A e \in Expn : enable[e] => prev_index[e] # 0 /\ next_index[prev_index[e]] = e
      /\ \A e \in Entries : next_index[e] # 0 => prev_index[next_index[e]] = e
  <2>1. Chained(EnabledEntries, next_index, prev_index, RuleHome(rule))
    BY <1>1 DEF NoneRuns, RulesFit
  <2>2. \A e \in Expn : enable[e] => e \in EnabledEntries
    BY SizeFacts DEF EnabledEntries
  <2> QED BY <2>1, <2>2, SizeFacts DEF Chained, Linked
<1>3. /\ \A i \in Expn : tbl_entry[i] # 0 => index_next[meta_prev[i]] = i
      /\ \A i \in Entries : index_next[i] # 0 => meta_prev[index_next[i]] = i
  <2>1. Chained(NamedEntries, index_next, meta_prev, IndexHome(tbl_entry, rule))
    BY <1>1 DEF NoneRuns, IndexFits
  <2>2. \A e \in Expn : tbl_entry[e] # 0 => e \in NamedEntries
    BY SizeFacts DEF NamedEntries
  <2> QED BY <2>1, <2>2, SizeFacts DEF Chained, Linked
<1>4. \A i \in Entries : tbl_entry[i] # 0 => indx_tbl_entry[tbl_entry[i]] = i
  BY <1>1 DEF NoneRuns, NamesFit, NamedEntries
<1>5. \A e \in Entries : enable[e] /\ rule[e] # Dead => tbl_entry[indx_tbl_entry[e]] = e
  BY <1>1 DEF NoneRuns, NamesFit, RulesFit, EnabledEntries
<1> QED BY <1>2, <1>3, <1>4, <1>5 DEF ListsMatch

-----------------------------------------------------------------------------
(* It finds nothing else. *)
LEMMA DownlinkOnly ==
  ASSUME DriverInv, NEW r \in Rules, DownlinkHits(r)
  PROVE  r \in HeldIn(Receiving)
<1> DEFINE s == dst_hash[r]
<1>a. PICK e \in Chain(next_index, s) : enable[e] /\ rule[e] = r
  BY DEF DownlinkHits, Matches
<1>1. s \in Base
  BY HashAssumption
<1>2. e \in EnabledEntries
  <2>1. e \in Base \cup Expn
    BY <1>a, <1>1 DEF Chain
  <2> QED BY <1>a, <2>1, SizeFacts DEF EnabledEntries
<1>3. ASSUME Deleting, cmd = <<>>, e = op.entry PROVE FALSE
  <2>1. RuleDeleted
    BY <1>3, StageByLength DEF DriverInv, OneIsDeleted
  <2>2. e \in EmptiedNow /\ e \in Expn
    BY <1>a, <1>2, <1>3, <2>1, RuleAssumption DEF RuleDeleted
  <2> DEFINE used == EnabledEntries \ EmptiedNow  S == used \cap Expn
  <2>3. Chained(used, NextAfter, PrevAfterDelete(op.pos, op.entry), RuleHome(RulesAfter))
    BY <2>1 DEF RuleDeleted, RulesFit
  <2>4. \A x \in Entries : x \notin EmptiedNow => NextAfter[x] = next_index[x]
    BY DEF NextAfter
  <2>5. \A x \in used : x \in Entries /\ x \notin EmptiedNow
    BY DEF EnabledEntries
  <2>6. Follows(next_index, S \cup {s})
    <3>1. ASSUME NEW x \in S PROVE next_index[x] \in S \cup {0}
      <4>1. x \in used /\ NextAfter[x] = next_index[x]
        BY <2>4, <2>5
      <4>2. NextAfter[x] = 0 \/ NextAfter[x] \in used \cap Expn
        BY <2>3, <4>1 DEF Chained, Linked
      <4> QED BY <4>1, <4>2
    <3>2. next_index[s] \in S \cup {0}
      <4>0. s \in Entries /\ s # e
        BY <1>1, <2>2, SizeFacts
      <4>1. CASE s \in EmptiedNow
        BY <1>3, <4>0, <4>1 DEF EmptiedNow, Emptied
      <4>2. CASE s \notin EmptiedNow
        <5>1. NextAfter[s] = 0 \/ NextAfter[s] \in used \cap Expn
          BY <2>3, <4>0 DEF Chained, Linked
        <5> QED BY <2>4, <4>0, <4>2, <5>1
      <4> QED BY <4>1, <4>2
    <3> QED BY <3>1, <3>2 DEF Follows
  <2>7. S \in SUBSET Expn /\ e \notin S /\ e # s
    BY <1>1, <2>2, SizeFacts
  <2> HIDE DEF S, s
  <2> QED BY <1>a, <2>6, <2>7, ChainLeast
<1>4. e \in Receiving
  BY <1>2, <1>3 DEF Receiving
<1> QED BY <1>a, <1>4 DEF HeldIn

LEMMA UplinkOnly ==
  ASSUME DriverInv, NEW r \in Rules, UplinkHits(r)
  PROVE  r \in HeldIn(Sending)
<1> DEFINE s == src_hash[r]
<1>a. PICK i \in Chain(index_next, s) : tbl_entry[i] # 0 /\ enable[tbl_entry[i]] /\ rule[tbl_entry[i]] = r
  BY DEF UplinkHits, Matches
<1> DEFINE e == tbl_entry[i]
<1>1. s \in Base
  BY HashAssumption
<1>2. i \in Entries /\ i \in NamedEntries /\ e \in Entries /\ e \in EnabledEntries
  <2>1. i \in Base \cup Expn
    BY <1>a, <1>1 DEF Chain
  <2>2. i \in Entries
    BY <2>1, SizeFacts
  <2>3. e \in Entries
    BY <2>2 DEF DriverInv, NatTypeOK
  <2> QED BY <1>a, <2>2, <2>3 DEF EnabledEntries, NamedEntries
<1>3. ASSUME Deleting, ~Untouched, e = op.entry PROVE FALSE
  <2>1. CASE HeadOverwritten
    <3>1. \A x \in NamedEntries \ {op.indx} : tbl_entry[x] # op.entry
      BY <2>1 DEF HeadOverwritten, NamesFit
    <3>2. op.moved \in NamedEntries /\ op.moved # op.indx
      <4>1. op.moved \in NamedEntries \cap Expn /\ op.indx \in Base
        BY <2>1 DEF HeadOverwritten, IndexFits, Chained, Linked
      <4> QED BY <4>1, SizeFacts
    <3>3. tbl_entry[op.indx] = tbl_entry[op.moved]
      BY <2>1 DEF HeadOverwritten
    <3> QED BY <1>2, <1>3, <3>1, <3>2, <3>3
  <2>2. CASE IndexTold
    <3> DEFINE used == NamedIn(IndexAfter)  S == used \cap Expn  f == FreedIndex
    <3>1. Chained(used, IndexNextAfter, MetaAfterDelete, IndexHome(IndexAfter, rule))
      BY <2>2 DEF IndexTold, IndexFits
    <3>2. \A x \in used : IndexAfter[x] # op.entry
      BY <2>2 DEF IndexTold, NamesFit
    <3>3. \A x \in Entries : x # f => IndexAfter[x] = tbl_entry[x] /\ IndexNextAfter[x] = index_next[x]
      BY DEF DriverInv, NatTypeOK, IndexAfter, IndexNextAfter
    <3>4. i = f
      <4> SUFFICES ASSUME i # f PROVE FALSE OBVIOUS
      <4>1. IndexAfter[i] = e
        BY <1>2, <3>3
      <4>2. i \in used
        BY <1>a, <1>2, <4>1 DEF NamedIn
      <4> QED BY <1>3, <3>2, <4>1, <4>2
    <3>5. f \in Entries /\ f \notin used
      <4>1. IndexAfter[f] = 0
        BY <1>2, <3>4 DEF DriverInv, NatTypeOK, IndexAfter
      <4> QED BY <1>2, <3>4, <4>1 DEF NamedIn
    <3>6. f \notin Base
      BY <1>a, <2>2, <3>4 DEF IndexTold
    <3>7. Follows(index_next, S \cup {s})
      <4>1. ASSUME NEW x \in S \cup {s} PROVE index_next[x] \in S \cup {0}
        <5>1. x \in Entries /\ x # f
          BY <1>1, <3>5, <3>6, SizeFacts
        <5>2. IndexNextAfter[x] = index_next[x]
          BY <3>3, <5>1
        <5>3. IndexNextAfter[x] = 0 \/ IndexNextAfter[x] \in used \cap Expn
          BY <3>1, <5>1 DEF Chained, Linked
        <5> QED BY <5>2, <5>3
      <4> QED BY <4>1 DEF Follows
    <3>8. S \in SUBSET Expn /\ i \notin S /\ i # s
      BY <1>1, <3>4, <3>5, <3>6
    <3> HIDE DEF S, s
    <3> QED BY <1>a, <3>7, <3>8, ChainLeast
  <2>3. ~NothingDeleted /\ OneIsDeleted
    BY <1>3, StageByLength DEF DriverInv
  <2> QED BY <2>1, <2>2, <2>3 DEF OneIsDeleted, IndexDeleted, RuleDeleted
<1>4. e \in Sending
  BY <1>2, <1>3 DEF Sending
<1> QED BY <1>a, <1>4 DEF HeldIn

(* So the connections that are translated are those of these entries. *)
LEMMA HitsAreHeld ==
  ASSUME DriverInv
  PROVE  /\ {r \in Rules : UplinkHits(r)} = HeldIn(Sending)
         /\ {r \in Rules : DownlinkHits(r)} = HeldIn(Receiving)
<1>1. \A r \in Rules : UplinkHits(r) <=> r \in HeldIn(Sending)
  BY UplinkOnly, UplinkFound DEF HeldIn
<1>2. \A r \in Rules : DownlinkHits(r) <=> r \in HeldIn(Receiving)
  BY DownlinkOnly, DownlinkFound DEF HeldIn
<1> QED BY <1>1, <1>2 DEF HeldIn

-----------------------------------------------------------------------------
(* What a step of the driver does to the connections that are translated.   *)
Sent == HeldIn(Sending)
Received == HeldIn(Receiving)

SeenAlike == Sent' = Sent /\ Received' = Received
Inserted(r) == Sent = Received /\ Sent' = Sent \cup {r} /\ Received' = Received \cup {r}
StoppedSending(r) == Sent = Received /\ Sent' = Sent \ {r} /\ Received' = Received
StoppedReceiving(r) == r \in Received \ Sent /\ Received' = Received \ {r} /\ Sent' = Sent

LEMMA AllSeen ==
  /\ ~Deleting => Sending = EnabledEntries /\ Receiving = EnabledEntries
  /\ Deleting /\ Untouched /\ cmd # <<>> => Sending = EnabledEntries /\ Receiving = EnabledEntries
  /\ Deleting /\ ~Untouched /\ cmd # <<>> => Sending = EnabledEntries \ {op.entry} /\ Receiving = EnabledEntries
  /\ Deleting /\ ~Untouched /\ cmd = <<>> =>
        Sending = EnabledEntries \ {op.entry} /\ Receiving = EnabledEntries \ {op.entry}
BY DEF Sending, Receiving

LEMMA HeldWithout ==
  ASSUME NEW S, NEW e \in S
  PROVE  \/ HeldIn(S \ {e}) = HeldIn(S)
         \/ rule[e] \in HeldIn(S) /\ rule[e] \notin HeldIn(S \ {e}) /\ HeldIn(S \ {e}) = HeldIn(S) \ {rule[e]}
BY DEF HeldIn

LEMMA AddWriteSeen ==
  ASSUME DriverInv, Adding, Write
  PROVE  (SeenAlike \/ \E r \in Rules : Inserted(r)) /\ rule' = rule
<1>0. OneIsAdded /\ AddStage /\ cmd # <<>> /\ op' = op /\ ~Deleting /\ ~Deleting' /\ rule[op.entry] \in Rules
      /\ op.entry \in Entries /\ NatTypeOK
  BY AddFacts DEF DriverInv, OneIsAdded, Write, Deleting
<1>1. /\ Sending = EnabledEntries /\ Receiving = EnabledEntries
      /\ Sending' = EnabledEntries' /\ Receiving' = EnabledEntries'
  BY <1>0 DEF Sending, Receiving
<1>2. CASE cmd = <<EnableRule>>
  <2>1. Head(cmd) = Order("enable", op.entry, TRUE)
    BY <1>2 DEF EnableRule
  <2>2. enable' = [enable EXCEPT ![op.entry] = TRUE] /\ rule' = rule
    BY <2>1, Written
  <2>3. EnabledEntries' = EnabledEntries \cup {op.entry}
    BY <1>0, <2>2 DEF NatTypeOK, EnabledEntries
  <2>4. HeldIn(EnabledEntries)' = HeldIn(EnabledEntries) \cup {rule[op.entry]}
    BY <1>0, <2>2, <2>3 DEF HeldIn
  <2>5. Inserted(rule[op.entry])
    BY <1>1, <2>4 DEF Inserted, Sent, Received, HeldIn
  <2> QED BY <1>0, <2>2, <2>5
<1>3. CASE cmd # <<EnableRule>>
  <2>1. \E f, a, v : Head(cmd) = Order(f, a, v) /\ f # "enable" /\ f # "protocol"
    <3>1. Head(cmd) \in {LinkRule, NameRule, LinkIndex}
      BY <1>0, <1>3 DEF AddStage
    <3>2. LinkRule = Order("next_index", RuleBefore, op.entry) /\ "next_index" # "enable" /\ "next_index" # "protocol"
      BY DEF LinkRule
    <3>3. NameRule = Order("index", NewIndex, op.entry) /\ "index" # "enable" /\ "index" # "protocol"
      BY DEF NameRule
    <3>4. LinkIndex = Order("index_next", IndexBefore, NewIndex) /\ "index_next" # "enable" /\ "index_next" # "protocol"
      BY DEF LinkIndex
    <3> QED BY <3>1, <3>2, <3>3, <3>4, Zenon
  <2>2. enable' = enable /\ rule' = rule
    <3>1. PICK f, a, v : Head(cmd) = Order(f, a, v) /\ f # "enable" /\ f # "protocol"
      BY <2>1
    <3> QED BY <3>1, Written
  <2> QED BY <1>1, <2>2 DEF SeenAlike, Sent, Received, HeldIn, EnabledEntries
<1> QED BY <1>2, <1>3

LEMMA IndexWriteSeen ==
  ASSUME DriverInv, Deleting, NothingDeleted \/ HeadOverwritten, Write
  PROVE  (SeenAlike \/ \E r \in Rules : StoppedSending(r)) /\ rule' = rule
<1>0. /\ op.entry \in EnabledEntries /\ rule[op.entry] \in Rules /\ op' = op /\ Deleting' /\ cmd' = Tail(cmd)
      /\ op.indx_pos \in {"only_one", "head", "middle", "last"}
  <2>1. op.entry \in EnabledEntries /\ rule[op.entry] \in Rules
    BY DEF NothingDeleted, HeadOverwritten, RulesWhole
  <2>2. op.indx_pos \in {"only_one", "head", "middle", "last"}
    BY DelFacts DEF HeadOverwritten
  <2> QED BY <2>1, <2>2 DEF Write, Deleting
<1>1. /\ NothingDeleted => Untouched /\ cmd # <<>>
      /\ HeadOverwritten => ~Untouched /\ cmd # <<>>
  BY StageByLength
<1>2. \E a, v, f, last : /\ cmd = <<Order(f, a, v), last>> \/ \E b : cmd = <<Order(f, a, v), b, last>> /\ NothingDeleted
                         /\ f # "enable" /\ f # "protocol"
  <2>0. "tbl_entry" # "enable" /\ "tbl_entry" # "protocol" /\ "index_next" # "enable" /\ "index_next" # "protocol"
    OBVIOUS
  <2>1. CASE HeadOverwritten
    BY <2>0, <2>1, Zenon DEF HeadOverwritten
  <2>2. CASE NothingDeleted /\ op.indx_pos = "only_one"
    BY <2>0, <2>2, DelCommands, Zenon
  <2>3. CASE NothingDeleted /\ op.indx_pos = "head"
    BY <2>0, <2>3, DelCommands, Zenon
  <2>4. CASE NothingDeleted /\ op.indx_pos \in {"middle", "last"}
    BY <2>0, <2>4, DelCommands, Zenon
  <2> QED BY <1>0, <2>1, <2>2, <2>3, <2>4
<1>a. PICK a, v, f, last : /\ cmd = <<Order(f, a, v), last>> \/ \E b : cmd = <<Order(f, a, v), b, last>> /\ NothingDeleted
                           /\ f # "enable" /\ f # "protocol"
  BY <1>2
<1>3. Head(cmd) = Order(f, a, v) /\ (cmd' = <<last>> \/ \E b : cmd' = <<b, last>> /\ NothingDeleted)
      /\ Len(cmd') = Len(cmd) - 1
  <2>1. CASE cmd = <<Order(f, a, v), last>>
    BY <1>0, <2>1
  <2>2. CASE \E b : cmd = <<Order(f, a, v), b, last>> /\ NothingDeleted
    BY <1>0, <2>2
  <2> QED BY <1>a, <2>1, <2>2
<1>4. enable' = enable /\ rule' = rule
  BY <1>a, <1>3, Written
<1>5. cmd' # <<>> /\ ~Untouched'
  <2>1. cmd' # <<>>
    BY <1>3
  <2>2. CASE NothingDeleted
    <3>1. op'.indx_pos = op.indx_pos /\ Len(cmd) = IF op.indx_pos = "head" THEN 3 ELSE 2
      BY <1>0, <1>1, <2>2 DEF Untouched
    <3>2. Len(cmd') # IF op.indx_pos = "head" THEN 3 ELSE 2
      BY <1>3, <3>1
    <3> QED BY <2>1, <3>1, <3>2 DEF Untouched
  <2>3. CASE HeadOverwritten
    <3>1. op.indx_pos = "head" /\ cmd = <<Order("index_next", op.indx, index_next[op.moved]), Head(DelRule)>>
      BY <2>3 DEF HeadOverwritten
    <3>2. \A b, c : Len(Tail(<<b, c>>)) = 1
      OBVIOUS
    <3>3. Len(cmd') = 1
      BY <1>0, <3>1, <3>2, Zenon
    <3> QED BY <1>0, <2>1, <3>1, <3>3 DEF Untouched
  <2> QED BY <2>1, <2>2, <2>3
<1>6. EnabledEntries' = EnabledEntries /\ \A S : HeldIn(S)' = HeldIn(S)
  BY <1>4 DEF EnabledEntries, HeldIn
<1>7. Sending' = EnabledEntries \ {op.entry} /\ Receiving' = EnabledEntries
  BY <1>0, <1>5, <1>6 DEF Sending, Receiving
<1>8. Sent' = HeldIn(EnabledEntries \ {op.entry}) /\ Received' = HeldIn(EnabledEntries)
  BY <1>4, <1>7 DEF Sent, Received, HeldIn
<1>9. CASE NothingDeleted
  <2>1. Sent = HeldIn(EnabledEntries) /\ Received = HeldIn(EnabledEntries)
    BY <1>1, <1>9, AllSeen DEF Sent, Received
  <2>2. \/ HeldIn(EnabledEntries \ {op.entry}) = HeldIn(EnabledEntries)
        \/ HeldIn(EnabledEntries \ {op.entry}) = HeldIn(EnabledEntries) \ {rule[op.entry]}
    BY <1>0, HeldWithout
  <2> QED BY <1>0, <1>4, <1>8, <2>1, <2>2 DEF SeenAlike, StoppedSending
<1>10. CASE HeadOverwritten
  BY <1>1, <1>4, <1>8, <1>10, AllSeen DEF Sent, Received, SeenAlike
<1> QED BY <1>9, <1>10

LEMMA RuleWriteSeen ==
  ASSUME DriverInv, Deleting, IndexDeleted, Write
  PROVE  /\ SeenAlike \/ \E r \in Rules : StoppedReceiving(r)
         /\ \A x \in Entries : x # op.entry => rule'[x] = rule[x]
<1> DEFINE e == op.entry
<1>0. /\ NatTypeOK /\ e \in EnabledEntries /\ rule[e] \in Rules /\ op' = op /\ Deleting' /\ cmd' = <<>> /\ e \in Entries
      /\ Head(cmd) = Head(DelRule)
  BY LastWrite DEF Write, Deleting
<1>1. ~Untouched /\ cmd # <<>> /\ ~Untouched'
  <2>1. Len(<<>>) = 0
    OBVIOUS
  <2> QED BY <1>0, <2>1, StageByLength DEF Untouched
<1>2. \A x \in Entries : x # e => rule'[x] = rule[x] /\ enable'[x] = enable[x]
  <2>0. /\ op.pos \in {"only_one", "head", "middle", "last"}
        /\ op.pos = "only_one" => Head(cmd) = Order("enable", e, FALSE)
        /\ op.pos = "head" => Head(cmd) = Order("protocol", e, Dead)
        /\ op.pos \in {"middle", "last"} => Head(cmd) = Order("next_index", prev_index[e], next_index[e])
    BY <1>0, LastWrite, RuleCommand
  <2>1. CASE op.pos = "only_one"
    <3>1. Head(cmd) = Order("enable", e, FALSE)
      BY <2>0, <2>1
    <3>2. enable' = [enable EXCEPT ![e] = FALSE] /\ rule' = rule
      BY <3>1, Written
    <3> QED BY <1>0, <3>2 DEF NatTypeOK
  <2>2. CASE op.pos = "head"
    <3>1. Head(cmd) = Order("protocol", e, Dead)
      BY <2>0, <2>2
    <3>2. rule' = [rule EXCEPT ![e] = Dead] /\ enable' = enable
      BY <3>1, Written
    <3> QED BY <1>0, <3>2 DEF NatTypeOK
  <2>3. CASE op.pos \in {"middle", "last"}
    <3>1. Head(cmd) = Order("next_index", prev_index[e], next_index[e])
      BY <2>0, <2>3
    <3>2. enable' = enable /\ rule' = rule
      BY <3>1, Written
    <3> QED BY <3>2
  <2> QED BY <2>0, <2>1, <2>2, <2>3
<1>3. EnabledEntries' \ {e} = EnabledEntries \ {e}
  BY <1>2 DEF EnabledEntries
<1>4. Sending' = EnabledEntries \ {e} /\ Receiving' = EnabledEntries \ {e}
  BY <1>0, <1>1, <1>3 DEF Sending, Receiving
<1>5. Sent' = HeldIn(EnabledEntries \ {e}) /\ Received' = HeldIn(EnabledEntries \ {e})
  BY <1>2, <1>4 DEF Sent, Received, HeldIn, EnabledEntries
<1>6. Sent = HeldIn(EnabledEntries \ {e}) /\ Received = HeldIn(EnabledEntries)
  BY <1>1, AllSeen DEF Sent, Received
<1>7. \/ HeldIn(EnabledEntries \ {e}) = HeldIn(EnabledEntries)
      \/ rule[e] \in HeldIn(EnabledEntries) /\ rule[e] \notin HeldIn(EnabledEntries \ {e})
         /\ HeldIn(EnabledEntries \ {e}) = HeldIn(EnabledEntries) \ {rule[e]}
  BY <1>0, HeldWithout
<1> QED BY <1>0, <1>2, <1>5, <1>6, <1>7 DEF SeenAlike, StoppedReceiving

LEMMA WriteSeen ==
  ASSUME DriverInv, Write
  PROVE  SeenAlike \/ \E r \in Rules : Inserted(r) \/ StoppedSending(r) \/ StoppedReceiving(r)
<1>1. CASE Adding
  BY <1>1, AddWriteSeen
<1>2. CASE Deleting
  <2>1. cmd # <<>> /\ OneIsDeleted
    BY <1>2 DEF Write, DriverInv
  <2> QED BY <1>2, <2>1, IndexWriteSeen, RuleWriteSeen DEF OneIsDeleted, RuleDeleted
<1> QED BY <1>1, <1>2 DEF Write, Running, Adding, Deleting

(* Between operations, and at their beginnings and ends, nothing is seen. *)
LEMMA RestSeen ==
  ASSUME ~Running, ~Running', UNCHANGED <<ruleTable, indexTable>>
  PROVE  SeenAlike
<1>1. ~Deleting /\ ~Deleting'
  BY DEF Running, Deleting
<1> QED BY <1>1 DEF SeenAlike, Sent, Received, Sending, Receiving, HeldIn, EnabledEntries, ruleTable

LEMMA AddBeginsSeen ==
  ASSUME DriverInv, op = Idle, NEW r \in Rules, add_ipv4_rule(r)
  PROVE  /\ SeenAlike /\ rule_id_array' = rule_id_array
         /\ \A x \in EnabledEntries : rule'[x] = rule[x]
         /\ op' = [fn |-> "done", ret |-> 0] \/ (op'.fn = "add" /\ rule'[op'.entry] = r)
<1>1. ~Running /\ ~Deleting /\ NoneRuns /\ NatTypeOK
  BY RestingOps DEF DriverInv
<1>2. CASE op' = [fn |-> "done", ret |-> 0] /\ UNCHANGED <<ruleTable, indexTable, rule_id_array, cmd>>
  <2>1. ~Running'
    BY <1>2 DEF Running
  <2> QED BY <1>1, <1>2, <2>1, RestSeen DEF ruleTable
<1>3. CASE ~(op' = [fn |-> "done", ret |-> 0] /\ UNCHANGED <<ruleTable, indexTable, rule_id_array, cmd>>)
  <2>a. PICK e \in Entries, i \in Entries, p \in Entries, ip \in Entries :
            /\ GenerateEntry(EnabledEntries, next_index, dst_hash[r], e, p)
            /\ rule' = [rule EXCEPT ![e] = r]
            /\ enable' = [enable EXCEPT ![e] = FALSE]
            /\ op' = [fn |-> "add", entry |-> e]
            /\ rule_id_array' = rule_id_array
    BY <1>3, Zenon DEF add_ipv4_rule
  <2>1. e \notin EnabledEntries
    <3>1. Chained(EnabledEntries, next_index, prev_index, RuleHome(rule))
      BY <1>1 DEF NoneRuns, RulesFit
    <3>2. dst_hash[r] \in Base
      BY HashAssumption
    <3> QED BY <2>a, <3>1, <3>2, EntryChosen
  <2>2. ~Deleting' /\ op'.fn = "add" /\ op'.entry = e /\ rule'[e] = r
    BY <1>1, <2>a DEF Deleting, NatTypeOK
  <2>3. EnabledEntries' = EnabledEntries /\ \A x \in EnabledEntries : rule'[x] = rule[x]
    BY <1>1, <2>a, <2>1 DEF NatTypeOK, EnabledEntries
  <2>4. HeldIn(EnabledEntries)' = HeldIn(EnabledEntries)
    BY <2>3 DEF HeldIn
  <2>5. Sent' = HeldIn(EnabledEntries)' /\ Received' = HeldIn(EnabledEntries)'
    BY <2>2 DEF Sent, Received, Sending, Receiving, HeldIn
  <2>6. Sent = HeldIn(EnabledEntries) /\ Received = HeldIn(EnabledEntries)
    BY <1>1, AllSeen DEF Sent, Received
  <2> QED BY <2>a, <2>2, <2>3, <2>4, <2>5, <2>6 DEF SeenAlike
<1> QED BY <1>2, <1>3

LEMMA DelBeginsSeen ==
  ASSUME DriverInv, op = Idle, NEW h, del_ipv4_rule(h)
  PROVE  SeenAlike
<1>1. ~Running /\ ~Deleting
  BY RestingOps DEF DriverInv
<1>2. DriverInv' /\ UNCHANGED <<ruleTable, indexTable>>
      /\ (op' = [fn |-> "done", ret |-> 0] \/ (op'.fn = "del" /\ NothingDeleted'))
  BY DelBegins
<1>3. CASE op' = [fn |-> "done", ret |-> 0]
  <2>1. ~Running'
    BY <1>3 DEF Running
  <2> QED BY <1>1, <1>2, <2>1, RestSeen
<1>4. CASE op'.fn = "del" /\ NothingDeleted'
  <2>1. Deleting'
    BY <1>4 DEF Deleting
  <2>2. (Untouched /\ cmd # <<>>)'
    <3>1. (DriverInv /\ Deleting /\ NothingDeleted)'
      BY <1>2, <1>4, <2>1
    <3> QED BY <3>1, StageByLength, PTL
  <2>3. EnabledEntries' = EnabledEntries /\ rule' = rule
    BY <1>2 DEF EnabledEntries, ruleTable
  <2>4. Sending' = EnabledEntries /\ Receiving' = EnabledEntries
    BY <2>1, <2>2, <2>3 DEF Sending, Receiving
  <2>5. Sending = EnabledEntries /\ Receiving = EnabledEntries
    BY <1>1, AllSeen
  <2> QED BY <2>3, <2>4, <2>5 DEF SeenAlike, Sent, Received, HeldIn
<1> QED BY <1>2, <1>3, <1>4

LEMMA AddReturnsSeen ==
  ASSUME AddReturns
  PROVE  SeenAlike
<1>1. ~Deleting /\ ~Deleting' /\ rule' = rule /\ EnabledEntries' = EnabledEntries
  BY DEF AddReturns, Deleting, EnabledEntries, ruleTable
<1> QED BY <1>1 DEF SeenAlike, Sent, Received, Sending, Receiving, HeldIn

LEMMA DelReturnsSeen ==
  ASSUME DriverInv, DelReturns
  PROVE  SeenAlike
<1> DEFINE e == op.entry
<1>1. ~Untouched /\ cmd = <<>> /\ Deleting
  BY DelReturnsFacts, StageByLength
<1>2. Sent = HeldIn(EnabledEntries \ {e}) /\ Received = HeldIn(EnabledEntries \ {e})
  BY <1>1, AllSeen DEF Sent, Received
<1>3. ~Deleting'
  BY DelReturnsFacts DEF Deleting
<1>4. Sent' = HeldIn(EnabledEntries)' /\ Received' = HeldIn(EnabledEntries)'
  BY <1>3 DEF Sent, Received, Sending, Receiving, HeldIn
<1>5. HeldIn(EnabledEntries)' = HeldIn(EnabledEntries \ {e})
  <2>1. ASSUME NEW r \in Rules, NEW x \in EnabledEntries', rule'[x] = r
        PROVE  x \in EnabledEntries \ {e} /\ rule[x] = r
    <3>1. x \in EnabledEntries /\ x \notin EmptiedNow /\ x \in Entries
      BY DelReturnsFacts DEF EnabledEntries
    <3>2. rule[x] = r
      BY <2>1, <3>1, DelReturnsFacts
    <3>3. x # e
      BY <3>1, <3>2, RuleAssumption, DelReturnsFacts DEF RuleDeleted
    <3> QED BY <3>1, <3>2, <3>3
  <2>2. ASSUME NEW r \in Rules, NEW x \in EnabledEntries \ {e}, rule[x] = r
        PROVE  x \in EnabledEntries' /\ rule'[x] = r
    <3>1. x \notin EmptiedNow /\ x \in Entries
      BY <2>2, RuleAssumption, DelReturnsFacts DEF EnabledEntries
    <3> QED BY <2>2, <3>1, DelReturnsFacts
  <2> QED BY <2>1, <2>2 DEF HeldIn
<1> QED BY <1>2, <1>4, <1>5 DEF SeenAlike

(* A table that is given up takes all with it. *)
LEMMA ResetSeen ==
  ASSUME DriverInv, op = Idle, ipa_nati_reset_tbl
  PROVE  Sent = Received /\ Sent' = {} /\ Received' = {}
<1>1. ~Deleting
  BY RestingOps DEF DriverInv
<1>2. EnabledEntries' = {}
  BY DEF ipa_nati_reset_tbl, EnabledEntries
<1>3. Sending' = {} /\ Receiving' = {}
  BY <1>2 DEF Sending, Receiving
<1> QED BY <1>1, <1>3, AllSeen DEF Sent, Received, HeldIn

LEMMA DriverStepSeen ==
  ASSUME DriverInv, DriverStep
  PROVE  SeenAlike \/ \E r \in Rules : Inserted(r) \/ StoppedSending(r) \/ StoppedReceiving(r)
BY WriteSeen, AddReturnsSeen, DelReturnsSeen DEF DriverStep

-----------------------------------------------------------------------------
(* What a step of the driver does to the handles.                           *)
InUse(h) == h \in Handles /\ rule_id_array[h] # 0
Alone(h) == InUse(h) => InUse(h)' /\ RuleOfHandle(h)' = RuleOfHandle(h)

LEMMA HandleHeld ==
  ASSUME DriverInv, NEW h, InUse(h), ~BeingDeleted(h)
  PROVE  /\ rule_id_array[h] \in EnabledEntries /\ rule_id_array[h] \in Entries
         /\ rule[rule_id_array[h]] \in Rules /\ RuleOfHandle(h) = rule[rule_id_array[h]]
         /\ (Running => rule_id_array[h] # op.entry)
BY DEF DriverInv, HandlesFit, InUse, RuleOfHandle, EnabledEntries

LEMMA WriteHandles ==
  ASSUME DriverInv, Write
  PROVE  /\ rule_id_array' = rule_id_array /\ op' = op
         /\ op.fn = "add" => rule' = rule
         /\ \A h : ~BeingDeleted(h) => Alone(h)
<1>1. rule_id_array' = rule_id_array /\ op' = op /\ Running
  BY DEF Write
<1>2. op.fn = "add" => rule' = rule
  BY AddWriteSeen DEF Adding
<1>3. \A x \in Entries : x # op.entry => rule'[x] = rule[x]
  <2>1. CASE Adding
    BY <1>2, <2>1 DEF Adding
  <2>2. CASE Deleting
    <3>1. cmd # <<>> /\ OneIsDeleted
      BY <2>2 DEF Write, DriverInv
    <3> QED BY <2>2, <3>1, IndexWriteSeen, RuleWriteSeen DEF OneIsDeleted, RuleDeleted
  <2> QED BY <1>1, <2>1, <2>2 DEF Running, Adding, Deleting
<1>4. ASSUME NEW h, InUse(h), ~BeingDeleted(h) PROVE InUse(h)' /\ RuleOfHandle(h)' = RuleOfHandle(h)
  <2>1. rule_id_array[h] \in Entries /\ rule_id_array[h] # op.entry
    BY <1>1, <1>4, HandleHeld
  <2> QED BY <1>1, <1>3, <1>4, <2>1 DEF InUse, RuleOfHandle
<1> QED BY <1>1, <1>2, <1>4 DEF Alone

LEMMA AddReturnsHandles ==
  ASSUME DriverInv, AddReturns
  PROVE  \E g \in Handles :
            /\ op' = [fn |-> "done", ret |-> g] /\ g # 0 /\ InUse(g)' /\ RuleOfHandle(g)' = rule[op.entry]
            /\ \A h : Alone(h) /\ (InUse(h)' => InUse(h) \/ h = g)
<1>1. PICK g \in Handles : rule_id_array[g] = 0 /\ op' = [fn |-> "done", ret |-> g]
                           /\ rule_id_array' = [rule_id_array EXCEPT ![g] = op.entry]
  BY AddReturnsKept
<1>2. rule' = rule /\ op.entry # 0 /\ rule_id_array \in [Handles -> Entries] /\ g # 0
  <2>1. Adding /\ rule' = rule
    BY DEF AddReturns, Adding, ruleTable
  <2>2. g # 0
    BY SizeFacts DEF Handles
  <2> QED BY <2>1, <2>2, AddFacts DEF NatTypeOK
<1>3. rule_id_array'[g] = op.entry /\ \A h \in Handles : h # g => rule_id_array'[h] = rule_id_array[h]
  BY <1>1, <1>2
<1>4. \A h : Alone(h) /\ (InUse(h)' => InUse(h) \/ h = g)
  BY <1>1, <1>2, <1>3 DEF Alone, InUse, RuleOfHandle
<1>5. InUse(g)' /\ RuleOfHandle(g)' = rule[op.entry]
  BY <1>2, <1>3 DEF InUse, RuleOfHandle
<1> QED BY <1>1, <1>2, <1>4, <1>5

LEMMA DelReturnsHandles ==
  ASSUME DriverInv, DelReturns
  PROVE  \E g \in Handles :
            /\ op.fn = "del" /\ op.hdl = g /\ op' = [fn |-> "done", ret |-> g] /\ g # 0 /\ ~InUse(g)'
            /\ \A h : (h # g => Alone(h)) /\ (InUse(h)' => InUse(h))
<1>1. op.hdl \in Handles /\ op.hdl # 0
  BY DelReturnsFacts, SizeFacts DEF Handles
<1>2. PICK g \in Handles : g = op.hdl
  BY <1>1
<1>3. rule_id_array'[g] = 0 /\ \A h \in Handles : h # g => rule_id_array'[h] = rule_id_array[h]
  BY <1>1, <1>2, DelReturnsFacts DEF NatTypeOK
<1>4. ASSUME NEW h, h # g, InUse(h) PROVE InUse(h)' /\ RuleOfHandle(h)' = RuleOfHandle(h)
  <2>0. ~BeingDeleted(h)
    BY <1>2, <1>4 DEF BeingDeleted
  <2>1. /\ rule_id_array[h] \in Entries /\ rule[rule_id_array[h]] \in Rules /\ rule_id_array[h] # op.entry
        /\ RuleOfHandle(h) = rule[rule_id_array[h]]
    BY <1>4, <2>0, HandleHeld, DelReturnsFacts DEF Running, Deleting
  <2>2. rule_id_array[h] \notin EmptiedNow
    BY <2>1, DelReturnsFacts, RuleAssumption
  <2>3. rule'[rule_id_array[h]] = rule[rule_id_array[h]]
    BY <2>1, <2>2, DelReturnsFacts
  <2> QED BY <1>3, <1>4, <2>1, <2>3 DEF InUse, RuleOfHandle
<1>5. \A h : InUse(h)' => InUse(h)
  BY <1>3, SizeFacts DEF InUse
<1>6. ~InUse(g)'
  BY <1>3 DEF InUse
<1>7. op.fn = "del" /\ op' = [fn |-> "done", ret |-> g] /\ g # 0
  BY <1>1, <1>2, DelReturnsFacts DEF Deleting
<1>8. \A h : h # g => Alone(h)
  BY <1>4 DEF Alone
<1> QED BY <1>2, <1>5, <1>6, <1>7, <1>8

LEMMA AddBeginsHandles ==
  ASSUME DriverInv, op = Idle, NEW r \in Rules, add_ipv4_rule(r)
  PROVE  /\ op' = [fn |-> "done", ret |-> 0] \/ (op'.fn = "add" /\ rule'[op'.entry] = r)
         /\ \A h : Alone(h) /\ (InUse(h)' <=> InUse(h))
<1>1. /\ rule_id_array' = rule_id_array /\ \A x \in EnabledEntries : rule'[x] = rule[x]
      /\ op' = [fn |-> "done", ret |-> 0] \/ (op'.fn = "add" /\ rule'[op'.entry] = r)
  BY AddBeginsSeen
<1>2. \A h : ~BeingDeleted(h)
  BY RestingOps DEF DriverInv, BeingDeleted, Deleting
<1>3. ASSUME NEW h, InUse(h) PROVE RuleOfHandle(h)' = RuleOfHandle(h)
  BY <1>1, <1>2, <1>3, HandleHeld DEF RuleOfHandle
<1> QED BY <1>1, <1>3 DEF Alone, InUse

(* A deletion is refused for a handle that is not in use, and for no other. *)
LEMMA DelBeginsHandles ==
  ASSUME DriverInv, op = Idle, NEW h, del_ipv4_rule(h)
  PROVE  /\ InUse(h) => op'.fn = "del" /\ op'.hdl = h
         /\ ~InUse(h) => op' = [fn |-> "done", ret |-> 0]
         /\ \A g : Alone(g) /\ (InUse(g)' <=> InUse(g))
<1>1. UNCHANGED <<ruleTable, rule_id_array>>
  BY DelBegins
<1>2. ~Running /\ ~BeingDeleted(h)
  BY RestingOps DEF DriverInv, BeingDeleted, Deleting
<1>3. ASSUME InUse(h) PROVE op'.fn = "del" /\ op'.hdl = h
  <2>1. h \in Handles /\ h < TableEntries + ExpnEntries /\ rule_id_array[h] # 0
    BY <1>3 DEF InUse, DriverInv, HandlesFit
  <2>2. enable[rule_id_array[h]]
    BY <1>2, <1>3, HandleHeld DEF EnabledEntries
  <2> QED BY <2>1, <2>2 DEF del_ipv4_rule
<1>4. ASSUME ~InUse(h) PROVE op' = [fn |-> "done", ret |-> 0]
  BY <1>4 DEF InUse, del_ipv4_rule
<1>5. \A g : Alone(g) /\ (InUse(g)' <=> InUse(g))
  BY <1>1 DEF Alone, InUse, RuleOfHandle, ruleTable
<1> QED BY <1>3, <1>4, <1>5

-----------------------------------------------------------------------------
(* The driver is at work only for a job, at a slot that stays as it is      *)
(* until the driver returns.                                                *)
AddsRules == Adds \/ job.fn = "AddEntry"
Wanted == IF job.fn = "AddEntry" THEN job.arg ELSE cache[job.cnt].rule
Busy == op # Idle

JobTypeOK ==
    /\ job = Job(job.fn, job.arg, job.cnt)
    /\ \/ job = NoJob /\ op = Idle
       \/ /\ job.cnt \in 1 .. max_entries + 1
          /\ \/ job.fn \in {"AddTable", "UpdatePwrSaveIf", "DelEntriesOnClntDiscon", "DelEntriesOnSTAClntDiscon"}
             \/ job.fn = "ResetPwrSaveIf" /\ job.arg \notin PwrSaveIfs
             \/ job.fn \in {"AddEntry", "DeleteEntry"} /\ job.arg \in Rules

JobFits ==
    /\ Busy => job.cnt \in Slots
    /\ Running => nat_table_hdl # 0
    /\ op.fn = "add" => AddsRules
    /\ op.fn = "del" => ~AddsRules /\ op.hdl = cache[job.cnt].rule_hdl
    /\ job.fn = "AddEntry" /\ job.cnt \in Slots =>
        /\ Busy /\ cache[job.cnt].rule = NoRule
        /\ ~ChkForDup(job.arg) /\ private_ip[job.arg] \notin PwrSaveIfs
    /\ Busy /\ Adds => cache[job.cnt].rule # NoRule
    /\ Busy /\ ~AddsRules => cache[job.cnt].enabled
    /\ Busy /\ job.fn = "ResetPwrSaveIf" => ~cache[job.cnt].enabled /\ private_ip[cache[job.cnt].rule] = job.arg

(* What was added is what the slot asked for; what was deleted is gone.     *)
ResultFits ==
    /\ op.fn = "add" => rule[op.entry] = Wanted
    /\ op.fn = "done" /\ AddsRules /\ op.ret # 0 => InUse(op.ret) /\ RuleOfHandle(op.ret) = Wanted
    /\ op.fn = "done" /\ ~AddsRules => ~InUse(cache[job.cnt].rule_hdl)

CacheFits ==
    /\ \A k \in Slots : cache[k].enabled => cache[k].rule # NoRule /\ cache[k].rule_hdl # 0
    /\ \A j, k \in Slots : cache[j].rule = cache[k].rule /\ cache[j].rule # NoRule => j = k

TableFits ==
    /\ ~WanUp => nat_table_hdl = 0
    /\ nat_table_hdl = 0 => \A h \in Handles : ~InUse(h)
    /\ nat_table_hdl # 0 => pub_ip_addr \in WanIps

(* Each handle in use is held by an enabled slot, one that AddTable has     *)
(* come past when it runs, or is on its way there.                          *)
Settled(k) == job.fn = "AddTable" => k < job.cnt
HandlesHeld ==
    \A h \in Handles : InUse(h) =>
        \/ \E k \in Slots : Settled(k) /\ cache[k].enabled /\ cache[k].rule_hdl = h
        \/ op.fn = "done" /\ AddsRules /\ op.ret = h

AppInv == DriverInv /\ TypeOK /\ JobTypeOK /\ JobFits /\ ResultFits /\ CacheFits /\ TableFits /\ HandlesHeld

(* With one public address, moreover, a slot's handle is its own.           *)
OneAddress == \A v, w \in WanIps : v = w

OwnInv ==
    /\ nat_table_hdl # 0 =>
        \A k \in Slots : cache[k].enabled /\ Settled(k) /\ ~(Busy /\ ~AddsRules /\ k = job.cnt) =>
            InUse(cache[k].rule_hdl) /\ RuleOfHandle(cache[k].rule_hdl) = cache[k].rule
    /\ nat_table_hdl = 0 => \A k \in Slots : cache[k].enabled => pub_ip_addr_pre \in WanIps
    /\ op.fn = "del" => \A k \in Slots : cache[k].enabled /\ k # job.cnt => cache[k].rule_hdl # op.hdl
    /\ op.fn = "done" /\ ~AddsRules /\ nat_table_hdl # 0 => op.ret # 0

-----------------------------------------------------------------------------
(* The parts of the type invariant, and what rests between two events.      *)
SlotType == [rule : Rules \cup {NoRule}, enabled : BOOLEAN, rule_hdl : {0} \cup Handles]
Temps == 1 .. MaxTemp
TempType == [rule : Rules \cup {NoRule}, public_ip : 0 .. 2 ^ 16 - 1]
Addresses == {0} \cup WanIps
JobFns == {"AddTable", "UpdatePwrSaveIf", "DelEntriesOnClntDiscon", "DelEntriesOnSTAClntDiscon",
           "ResetPwrSaveIf", "AddEntry", "DeleteEntry"}

LEMMA Sizes ==
  /\ max_entries \in Nat /\ max_entries >= 1 /\ Slots \subseteq Nat /\ 0 \notin Handles
  /\ 1 \in 1 .. max_entries + 1 /\ \A k \in Slots : k \in 1 .. max_entries + 1 /\ k + 1 \in 1 .. max_entries + 1
  /\ max_entries + 1 \in 1 .. max_entries + 1
BY MaxAssumption DEF Slots, Handles

LEMMA Quieted ==
  ASSUME AppInv, Quiet
  PROVE  op = Idle /\ ~Running /\ ~Busy
<1>1. op = Idle
  BY DEF AppInv, JobTypeOK, Quiet, NoJob, Job
<1> QED BY <1>1 DEF Idle, Running, Busy

LEMMA JobTypes ==
  ASSUME JobTypeOK, ~Quiet
  PROVE  /\ job.cnt \in 1 .. max_entries + 1 /\ job.fn \in JobFns /\ job = Job(job.fn, job.arg, job.cnt)
         /\ job.fn \in {"AddEntry", "DeleteEntry"} => job.arg \in Rules
         /\ job.fn = "ResetPwrSaveIf" => job.arg \notin PwrSaveIfs
BY DEF JobTypeOK, Quiet, JobFns

LEMMA OpTypes ==
  ASSUME OpTypeOK
  PROVE  /\ op.fn = "done" => op \in [fn : {"done"}, ret : {0} \cup Handles] /\ op.ret \in {0} \cup Handles
         /\ op.fn = "none" => op = Idle
         /\ op.fn \in {"none", "add", "del", "done"}
         /\ op = Idle => op.fn = "none"
BY DEF OpTypeOK, Idle

LEMMA SlotTypes ==
  ASSUME TypeOK, NEW k \in Slots
  PROVE  /\ cache[k] \in SlotType /\ cache[k].rule \in Rules \cup {NoRule} /\ cache[k].enabled \in BOOLEAN
         /\ cache[k].rule_hdl \in {0} \cup Handles
BY DEF TypeOK, SlotType

LEMMA FreeFacts ==
  ASSUME NEW r \in Rules, NEW h \in {0} \cup Handles
  PROVE  /\ Free \in SlotType /\ Cached(r, h) \in SlotType /\ FreeTemp \in TempType
         /\ Free.rule = NoRule /\ Free.enabled = FALSE /\ Free.rule_hdl = 0
         /\ Cached(r, h).rule = r /\ Cached(r, h).enabled = (h # 0) /\ Cached(r, h).rule_hdl = h
         /\ r # NoRule
BY RuleAssumption DEF Free, Cached, SlotType, FreeTemp, TempType

LEMMA DueFound ==
  ASSUME DueSlots # {}
  PROVE  /\ Least(DueSlots) \in Slots /\ Least(DueSlots) >= job.cnt /\ Due(Least(DueSlots))
         /\ \A j \in DueSlots : Least(DueSlots) <= j
<1>1. DueSlots \in SUBSET Nat
  BY Sizes DEF DueSlots
<1>2. Least(DueSlots) \in DueSlots /\ \A j \in DueSlots : Least(DueSlots) <= j
  BY <1>1, LeastIsMember
<1> QED BY <1>2 DEF DueSlots

LEMMA FreeFound ==
  ASSUME FreeSlots # {}
  PROVE  Least(FreeSlots) \in Slots /\ cache[Least(FreeSlots)].rule = NoRule
<1>1. FreeSlots \in SUBSET Nat
  BY Sizes DEF FreeSlots
<1>2. Least(FreeSlots) \in FreeSlots
  BY <1>1, LeastIsMember
<1> QED BY <1>2 DEF FreeSlots

-----------------------------------------------------------------------------
(* The initial state.                                                       *)
LEMMA InitAppInv ==
  ASSUME Init
  PROVE  AppInv /\ OwnInv
<1>1. DriverInv /\ op = Idle /\ job = NoJob
  BY InitDriverInv DEF Init, NatInit
<1>2. ~Running /\ ~Busy /\ op.fn = "none" /\ job.fn = "none"
  BY <1>1 DEF Running, Busy, Idle, NoJob
<1>3. TypeOK
  <2>1. NatTypeOK
    BY <1>1 DEF DriverInv
  <2>2. cache \in [Slots -> SlotType] /\ temp \in [Temps -> TempType]
    BY DEF Init, Free, FreeTemp, SlotType, TempType, Temps
  <2>3. {pub_ip_addr, pub_ip_addr_pre, wan_ipaddr} \subseteq {0} \cup WanIps
    BY DEF Init
  <2>4. {PwrSaveIfs, nat_iface_ipv4_addr, power_save_set} \subseteq SUBSET Clients
    BY DEF Init
  <2>5. job.cnt \in 0 .. max_entries + 1
    BY <1>1, Sizes DEF NoJob
  <2> QED BY <2>1, <2>2, <2>3, <2>4, <2>5 DEF Init, TypeOK, SlotType, TempType, Temps
<1>4. JobTypeOK
  BY <1>1 DEF JobTypeOK, NoJob, Job
<1>5. \A h : ~InUse(h)
  BY DEF Init, NatInit, InUse
<1>6. \A k \in Slots : cache[k].enabled = FALSE /\ cache[k].rule = NoRule
  BY DEF Init, Free
<1>7. JobFits /\ ResultFits
  BY <1>2 DEF JobFits, ResultFits
<1>8. CacheFits /\ HandlesHeld
  BY <1>5, <1>6 DEF CacheFits, HandlesHeld
<1>9. TableFits /\ OwnInv
  BY <1>2, <1>5, <1>6 DEF TableFits, OwnInv, Init
<1> QED BY <1>1, <1>3, <1>4, <1>7, <1>8, <1>9 DEF AppInv

-----------------------------------------------------------------------------
(* An event that leaves the tables alone, and in the cache at most fills a  *)
(* free slot with a rule that is not enabled.                               *)
CacheGrows ==
    \/ cache' = cache
    \/ \E k \in Slots, r \in Rules : cache[k].rule = NoRule /\ ~ChkForDup(r)
                                     /\ cache' = [cache EXCEPT ![k] = Cached(r, 0)]

LEMMA Grown ==
  ASSUME TypeOK, CacheFits, CacheGrows
  PROVE  /\ CacheFits' /\ cache' \in [Slots -> SlotType]
         /\ \A j \in Slots : cache'[j].enabled => cache[j].enabled
         /\ \A j \in Slots : cache[j].enabled => cache'[j] = cache[j]
<1>1. CASE cache' = cache
  BY <1>1 DEF CacheFits, TypeOK, SlotType
<1>2. CASE \E k \in Slots, r \in Rules : cache[k].rule = NoRule /\ ~ChkForDup(r)
                                         /\ cache' = [cache EXCEPT ![k] = Cached(r, 0)]
  <2>1. PICK k \in Slots, r \in Rules : cache[k].rule = NoRule /\ ~ChkForDup(r)
                                        /\ cache' = [cache EXCEPT ![k] = Cached(r, 0)]
    BY <1>2
  <2>2. cache \in [Slots -> SlotType]
    BY DEF TypeOK, SlotType
  <2>3. Cached(r, 0) \in SlotType /\ Cached(r, 0).rule = r /\ Cached(r, 0).enabled = FALSE
    BY FreeFacts
  <2>4. cache'[k] = Cached(r, 0) /\ \A j \in Slots : j # k => cache'[j] = cache[j]
    BY <2>1, <2>2
  <2>5. cache[k].enabled = FALSE
    BY <2>1, SlotTypes DEF CacheFits
  <2>6. \A j \in Slots : cache[j].rule # r
    BY <2>1 DEF ChkForDup
  <2>7. \A j \in Slots : cache'[j].enabled => cache'[j].rule # NoRule /\ cache'[j].rule_hdl # 0
    BY <2>3, <2>4 DEF CacheFits
  <2>8. ASSUME NEW i \in Slots, NEW j \in Slots, cache'[i].rule = cache'[j].rule, cache'[i].rule # NoRule
        PROVE  i = j
    BY <2>3, <2>4, <2>6, <2>8 DEF CacheFits
  <2>9. cache' \in [Slots -> SlotType]
    BY <2>1, <2>2, <2>3
  <2> QED BY <2>3, <2>4, <2>5, <2>7, <2>8, <2>9 DEF CacheFits
<1> QED BY <1>1, <1>2 DEF CacheGrows

LEMMA SameHandles ==
  ASSUME UNCHANGED <<ruleTable, rule_id_array>>
  PROVE  \A h : (InUse(h)' <=> InUse(h)) /\ RuleOfHandle(h)' = RuleOfHandle(h)
BY DEF InUse, RuleOfHandle, ruleTable

LEMMA RestKept ==
  ASSUME AppInv, Quiet, TypeOK', JobTypeOK', job'.fn \notin {"AddTable", "AddEntry"}, CacheGrows,
         UNCHANGED <<natVars, nat_table_hdl, pub_ip_addr>>, WanUp' \in {WanUp, TRUE}
  PROVE  AppInv'
<1>1. op = Idle /\ op' = Idle /\ ~Running /\ UNCHANGED <<ruleTable, indexTable, rule_id_array, cmd>>
  BY Quieted DEF natVars
<1>2. DriverInv'
  BY <1>1, TablesKept DEF AppInv
<1>3. ~Busy' /\ ~Running' /\ op'.fn = "none"
  BY <1>1 DEF Busy, Running, Idle
<1>4. JobFits' /\ ResultFits'
  BY <1>3 DEF JobFits, ResultFits
<1>5. /\ CacheFits'
      /\ \A j \in Slots : cache[j].enabled => cache'[j] = cache[j]
  BY Grown DEF AppInv
<1>6. \A h : InUse(h)' <=> InUse(h)
  BY <1>1, SameHandles
<1>7. TableFits'
  BY <1>6 DEF AppInv, TableFits, TypeOK
<1>8. HandlesHeld'
  <2>1. \A h \in Handles : InUse(h) => \E k \in Slots : cache[k].enabled /\ cache[k].rule_hdl = h
    BY <1>1 DEF AppInv, HandlesHeld, Idle
  <2>2. \A k : Settled(k)'
    BY DEF Settled
  <2> QED BY <1>5, <1>6, <2>1, <2>2 DEF HandlesHeld
<1> QED BY <1>2, <1>4, <1>5, <1>7, <1>8 DEF AppInv

LEMMA RestOwn ==
  ASSUME AppInv, OwnInv, Quiet, job'.fn \notin {"AddTable", "AddEntry"}, CacheGrows,
         UNCHANGED <<natVars, nat_table_hdl, pub_ip_addr_pre>>
  PROVE  OwnInv'
<1>1. op = Idle /\ op' = Idle /\ ~Busy /\ UNCHANGED <<ruleTable, rule_id_array>>
  BY Quieted DEF natVars
<1>2. ~Busy' /\ op'.fn = "none" /\ \A k : Settled(k)
  BY <1>1 DEF Busy, Idle, Settled, Quiet, NoJob
<1>3. /\ \A j \in Slots : cache'[j].enabled => cache[j].enabled
      /\ \A j \in Slots : cache[j].enabled => cache'[j] = cache[j]
  BY Grown DEF AppInv
<1>4. \A h : (InUse(h)' <=> InUse(h)) /\ RuleOfHandle(h)' = RuleOfHandle(h)
  BY <1>1, SameHandles
<1>5. ASSUME nat_table_hdl # 0, NEW k \in Slots, cache'[k].enabled
      PROVE  (InUse(cache[k].rule_hdl) /\ RuleOfHandle(cache[k].rule_hdl) = cache[k].rule)'
  <2>1. cache'[k] = cache[k] /\ cache[k].enabled
    BY <1>3, <1>5
  <2>2. InUse(cache[k].rule_hdl) /\ RuleOfHandle(cache[k].rule_hdl) = cache[k].rule
    BY <1>1, <1>2, <1>5, <2>1 DEF OwnInv
  <2> QED BY <1>1, <2>1, <2>2 DEF InUse, RuleOfHandle, ruleTable
<1>6. nat_table_hdl = 0 => \A k \in Slots : cache'[k].enabled => pub_ip_addr_pre' \in WanIps
  BY <1>3 DEF OwnInv
<1> QED BY <1>2, <1>5, <1>6 DEF OwnInv

-----------------------------------------------------------------------------
(* The events that only give the cache a job, or only touch temp.           *)
LEMMA TempTypes ==
  ASSUME TypeOK
  PROVE  temp \in [Temps -> TempType] /\ FreeTemp \in TempType
<1>1. 0 \in 0 .. 2 ^ 16 - 1
  OBVIOUS
<1> QED BY <1>1 DEF TypeOK, Temps, TempType, FreeTemp

LEMMA Types ==
  ASSUME TypeOK
  PROVE  /\ cache \in [Slots -> SlotType] /\ wan_ipaddr \in Addresses /\ WanUp \in BOOLEAN
         /\ PwrSaveIfs \subseteq Clients /\ nat_iface_ipv4_addr \subseteq Clients /\ power_save_set \subseteq Clients
BY DEF TypeOK, SlotType, Addresses

LEMMA FlushTypes ==
  ASSUME TypeOK, NEW ip, NEW isAdd, FlushTempEntries(ip, isAdd)
  PROVE  temp' \in [Temps -> TempType]
BY TempTypes DEF FlushTempEntries, Temps

LEMMA LeastTemp ==
  ASSUME NEW S \in SUBSET Temps, S # {}
  PROVE  Least(S) \in Temps
<1>1. S \in SUBSET Nat
  BY DEF Temps
<1> QED BY <1>1, LeastIsMember

LEMMA DeleteTempTypes ==
  ASSUME TypeOK, NEW r, DeleteTempEntry(r)
  PROVE  temp' \in [Temps -> TempType]
<1> DEFINE found == {k \in Temps : temp[k].rule = r}
<1>1. found # {} => Least(found) \in Temps
  BY LeastTemp
<1>2. temp' = IF found = {} THEN temp ELSE [temp EXCEPT ![Least(found)] = FreeTemp]
  BY DEF DeleteTempEntry, Temps
<1> HIDE DEF found
<1> QED BY <1>1, <1>2, TempTypes

LEMMA AddTempTypes ==
  ASSUME TypeOK, NEW r \in Rules, NEW public_ip \in {0, wan_ipaddr % 2 ^ 16}, AddTempEntry(r, public_ip)
  PROVE  temp' \in [Temps -> TempType]
<1> DEFINE free == {k \in Temps : temp[k] = FreeTemp}
<1>1. free # {} => Least(free) \in Temps
  BY LeastTemp
<1>2. temp' = IF free = {} THEN temp ELSE [temp EXCEPT ![Least(free)] = [rule |-> r, public_ip |-> public_ip]]
  BY DEF AddTempEntry, Temps
<1>3. public_ip \in 0 .. 2 ^ 16 - 1
  <2>1. wan_ipaddr \in Nat
    BY Types, WanAssumption DEF Addresses
  <2>2. \A n \in Nat : n % 2 ^ 16 \in 0 .. 2 ^ 16 - 1
    OBVIOUS
  <2>3. 0 \in 0 .. 2 ^ 16 - 1
    OBVIOUS
  <2> QED BY <2>1, <2>2, <2>3
<1>4. [rule |-> r, public_ip |-> public_ip] \in TempType
  BY <1>3 DEF TempType
<1> HIDE DEF free
<1> QED BY <1>1, <1>2, <1>4, TempTypes

(* With the cache, temp and the sets of clients typed, and a job begun.     *)
LEMMA RestTypes ==
  ASSUME TypeOK, UNCHANGED <<natVars, nat_table_hdl, pub_ip_addr, pub_ip_addr_pre>>,
         cache' \in [Slots -> SlotType], temp' \in [Temps -> TempType],
         wan_ipaddr' \in Addresses, WanUp' \in BOOLEAN,
         {PwrSaveIfs, nat_iface_ipv4_addr, power_save_set}' \subseteq SUBSET Clients,
         job' = job \/ job'.cnt \in 1 .. max_entries + 1
  PROVE  TypeOK'
<1>1. NatTypeOK'
  BY DEF TypeOK, NatTypeOK, natVars, ruleTable, indexTable
<1>2. {pub_ip_addr, pub_ip_addr_pre, wan_ipaddr}' \subseteq {0} \cup WanIps
  BY DEF TypeOK, Addresses
<1>3. job'.cnt \in 0 .. max_entries + 1
  <2>1. \A n \in 1 .. max_entries + 1 : n \in 0 .. max_entries + 1
    BY Sizes
  <2> QED BY <2>1 DEF TypeOK
<1> QED BY <1>1, <1>2, <1>3 DEF TypeOK, SlotType, Temps, TempType

LEMMA JobBegun ==
  ASSUME NEW fn, NEW arg, job' = Job(fn, arg, 1),
         \/ fn \in {"AddTable", "UpdatePwrSaveIf", "DelEntriesOnClntDiscon", "DelEntriesOnSTAClntDiscon"}
         \/ fn = "ResetPwrSaveIf" /\ arg \notin PwrSaveIfs'
         \/ fn = "DeleteEntry" /\ arg \in Rules
  PROVE  JobTypeOK' /\ job'.cnt \in 1 .. max_entries + 1 /\ job'.fn = fn /\ ~Quiet'
<1>1. job'.fn = fn /\ job'.arg = arg /\ job'.cnt = 1
  BY DEF Job
<1> QED BY <1>1, Sizes DEF JobTypeOK, Job, Quiet, NoJob


LEMMA NothingBegun ==
  ASSUME AppInv, Quiet, UNCHANGED <<job, op>>
  PROVE  JobTypeOK' /\ job'.fn \notin {"AddTable", "AddEntry"}
<1>1. op = Idle /\ job = NoJob
  BY Quieted DEF Quiet
<1> QED BY <1>1 DEF JobTypeOK, NoJob, Job

LEMMA DestroyKept ==
  ASSUME AppInv, NEW r \in Rules, DestroyConnection(r)
  PROVE  AppInv' /\ (OwnInv => OwnInv')
<1>1. /\ Quiet /\ CacheGrows /\ cache' = cache
      /\ UNCHANGED <<natVars, nat_table_hdl, pub_ip_addr, pub_ip_addr_pre, WanUp, wan_ipaddr,
                     PwrSaveIfs, nat_iface_ipv4_addr, power_save_set>>
  BY DEF DestroyConnection, CacheGrows, pub, clients, wan
<1>2. /\ JobTypeOK' /\ job'.fn \notin {"AddTable", "AddEntry"}
      /\ job' = job \/ job'.cnt \in 1 .. max_entries + 1
  <2>1. CASE job' = job
    BY <1>1, <2>1, NothingBegun DEF natVars
  <2>2. CASE job' = Job("DeleteEntry", r, 1)
    BY <2>2, JobBegun
  <2> QED BY <2>1, <2>2 DEF DestroyConnection
<1>3. temp' \in [Temps -> TempType]
  BY DeleteTempTypes, TempTypes DEF DestroyConnection, AppInv
<1>4. TypeOK'
  BY <1>1, <1>2, <1>3, RestTypes, Types DEF AppInv
<1> QED BY <1>1, <1>2, <1>4, RestKept, RestOwn

LEMMA NeighAddKept ==
  ASSUME AppInv, NEW c \in Clients, HandleNeighIpAddrAddEvt(c)
  PROVE  AppInv' /\ (OwnInv => OwnInv')
<1>1. /\ Quiet /\ CacheGrows /\ cache' = cache
      /\ UNCHANGED <<natVars, nat_table_hdl, pub_ip_addr, pub_ip_addr_pre, WanUp, wan_ipaddr>>
  BY DEF HandleNeighIpAddrAddEvt, CacheGrows, pub, wan
<1>2. /\ JobTypeOK' /\ job'.fn \notin {"AddTable", "AddEntry"}
      /\ job' = job \/ job'.cnt \in 1 .. max_entries + 1
  <2>1. CASE job' = job
    BY <1>1, <2>1, NothingBegun DEF natVars
  <2>2. CASE job' = Job("ResetPwrSaveIf", c, 1) /\ PwrSaveIfs' = PwrSaveIfs \ {c}
    BY <2>2, JobBegun
  <2> QED BY <2>1, <2>2 DEF HandleNeighIpAddrAddEvt
<1>3. temp' \in [Temps -> TempType]
  BY FlushTypes DEF HandleNeighIpAddrAddEvt, AppInv
<1>4. {PwrSaveIfs, nat_iface_ipv4_addr, power_save_set}' \subseteq SUBSET Clients
  BY Types DEF HandleNeighIpAddrAddEvt, AppInv
<1>5. TypeOK'
  BY <1>1, <1>2, <1>3, <1>4, RestTypes, Types DEF AppInv
<1> QED BY <1>1, <1>2, <1>5, RestKept, RestOwn

LEMMA NeighDelKept ==
  ASSUME AppInv, NEW c \in Clients, HandleNeighIpAddrDelEvt(c)
  PROVE  AppInv' /\ (OwnInv => OwnInv')
<1>1. /\ Quiet /\ CacheGrows /\ cache' = cache
      /\ UNCHANGED <<natVars, nat_table_hdl, pub_ip_addr, pub_ip_addr_pre, WanUp, wan_ipaddr>>
  BY DEF HandleNeighIpAddrDelEvt, CacheGrows, pub, wan
<1>2. JobTypeOK' /\ job'.fn \notin {"AddTable", "AddEntry"} /\ job'.cnt \in 1 .. max_entries + 1
  BY JobBegun DEF HandleNeighIpAddrDelEvt
<1>3. temp' \in [Temps -> TempType]
  BY FlushTypes DEF HandleNeighIpAddrDelEvt, AppInv
<1>4. {PwrSaveIfs, nat_iface_ipv4_addr, power_save_set}' \subseteq SUBSET Clients
  BY Types DEF HandleNeighIpAddrDelEvt, AppInv
<1>5. TypeOK'
  BY <1>1, <1>2, <1>3, <1>4, RestTypes, Types DEF AppInv
<1> QED BY <1>1, <1>2, <1>5, RestKept, RestOwn

LEMMA PwrSaveKept ==
  ASSUME AppInv, NEW c \in Clients, UpdatePwrSaveIf(c) \/ ResetPwrSaveIf(c)
  PROVE  AppInv' /\ (OwnInv => OwnInv')
<1>1. /\ Quiet /\ CacheGrows /\ cache' = cache /\ temp' = temp
      /\ UNCHANGED <<natVars, nat_table_hdl, pub_ip_addr, pub_ip_addr_pre, WanUp, wan_ipaddr>>
  BY DEF UpdatePwrSaveIf, ResetPwrSaveIf, CacheGrows, pub, wan
<1>2. JobTypeOK' /\ job'.fn \notin {"AddTable", "AddEntry"} /\ job'.cnt \in 1 .. max_entries + 1
  <2>1. CASE job' = Job("UpdatePwrSaveIf", c, 1)
    BY <2>1, JobBegun
  <2>2. CASE job' = Job("ResetPwrSaveIf", c, 1) /\ PwrSaveIfs' = PwrSaveIfs \ {c}
    BY <2>2, JobBegun
  <2> QED BY <2>1, <2>2 DEF UpdatePwrSaveIf, ResetPwrSaveIf
<1>3. {PwrSaveIfs, nat_iface_ipv4_addr, power_save_set}' \subseteq SUBSET Clients
  BY Types DEF UpdatePwrSaveIf, ResetPwrSaveIf, AppInv
<1>4. TypeOK'
  BY <1>1, <1>2, <1>3, RestTypes, Types, TempTypes DEF AppInv
<1> QED BY <1>1, <1>2, <1>4, RestKept, RestOwn

LEMMA STAClientKept ==
  ASSUME AppInv, NEW s, HandleSTAClientDelEvt(s)
  PROVE  AppInv' /\ (OwnInv => OwnInv')
<1>1. /\ Quiet /\ CacheGrows /\ cache' = cache /\ temp' = temp
      /\ UNCHANGED <<natVars, nat_table_hdl, pub_ip_addr, pub_ip_addr_pre, WanUp, wan_ipaddr,
                     PwrSaveIfs, nat_iface_ipv4_addr, power_save_set>>
  BY DEF HandleSTAClientDelEvt, CacheGrows, pub, wan, clients
<1>2. JobTypeOK' /\ job'.fn \notin {"AddTable", "AddEntry"} /\ job'.cnt \in 1 .. max_entries + 1
  BY JobBegun DEF HandleSTAClientDelEvt
<1>3. TypeOK'
  BY <1>1, <1>2, RestTypes, Types, TempTypes DEF AppInv
<1> QED BY <1>1, <1>2, <1>3, RestKept, RestOwn

-----------------------------------------------------------------------------
(* The uplink comes and goes.                                               *)
LEMMA UpTypes ==
  ASSUME TypeOK, NatTypeOK', NEW w \in WanIps, WanUp' \in BOOLEAN,
         UNCHANGED <<cache, temp, clients>>,
         {pub_ip_addr, pub_ip_addr_pre, wan_ipaddr}' \subseteq Addresses,
         nat_table_hdl' \in {0, 1}, job' = job \/ job'.cnt \in {0, 1}
  PROVE  TypeOK'
<1>1. job'.cnt \in 0 .. max_entries + 1
  <2>1. 0 \in 0 .. max_entries + 1 /\ 1 \in 0 .. max_entries + 1
    BY Sizes
  <2> QED BY <2>1 DEF TypeOK
<1> QED BY <1>1 DEF TypeOK, clients, Addresses

LEMMA WanUpKept ==
  ASSUME AppInv, NEW w \in WanIps, TriggerWANUp(w)
  PROVE  AppInv'
<1>1. /\ Quiet /\ ~WanUp /\ WanUp' = TRUE /\ wan_ipaddr' = w
      /\ UNCHANGED <<natVars, cache, temp, clients>>
  BY DEF TriggerWANUp
<1>2. op = Idle /\ op' = Idle /\ ~Running /\ UNCHANGED <<ruleTable, indexTable, rule_id_array, cmd>>
  BY <1>1, Quieted DEF natVars
<1>3. NatTypeOK' /\ DriverInv'
  BY <1>2, TablesKept DEF AppInv, DriverInv
<1>4. Addresses = {0} \cup WanIps /\ {pub_ip_addr, pub_ip_addr_pre, wan_ipaddr} \subseteq Addresses
  BY DEF Addresses, AppInv, TypeOK
<1>5. CASE UNCHANGED <<pub, job>>
  <2>1. UNCHANGED <<pub_ip_addr, pub_ip_addr_pre, nat_table_hdl>>
    BY <1>5 DEF pub
  <2>2. TypeOK'
    BY <1>1, <1>3, <1>4, <1>5, <2>1, UpTypes DEF AppInv, TypeOK
  <2>3. JobTypeOK' /\ job'.fn \notin {"AddTable", "AddEntry"}
    BY <1>1, <1>2, <1>5, NothingBegun
  <2> QED BY <1>1, <2>1, <2>2, <2>3, RestKept DEF CacheGrows
<1>6. CASE /\ nat_table_hdl' = 1
           /\ pub_ip_addr' = w
           /\ job' = IF w = pub_ip_addr_pre THEN Job("AddTable", 0, 1) ELSE NoJob
           /\ UNCHANGED pub_ip_addr_pre
  <2>1. job'.cnt \in {0, 1} /\ job'.fn \in {"AddTable", "none"} /\ JobTypeOK'
    <3>1. CASE job' = Job("AddTable", 0, 1)
      BY <3>1, Sizes DEF Job, JobTypeOK
    <3>2. CASE job' = NoJob
      BY <1>2, <3>2 DEF NoJob, Job, JobTypeOK
    <3> QED BY <1>6, <3>1, <3>2
  <2>2. TypeOK'
    BY <1>1, <1>3, <1>4, <1>6, <2>1, UpTypes DEF AppInv
  <2>3. ~Busy' /\ ~Running' /\ op'.fn = "none"
    BY <1>2 DEF Busy, Running, Idle
  <2>4. JobFits' /\ ResultFits'
    BY <2>1, <2>3 DEF JobFits, ResultFits
  <2>5. \A h \in Handles : ~InUse(h)'
    BY <1>1, <1>2, SameHandles DEF AppInv, TableFits
  <2>6. TableFits' /\ HandlesHeld' /\ CacheFits'
    BY <1>1, <1>6, <2>5 DEF TableFits, HandlesHeld, CacheFits, AppInv
  <2> QED BY <1>3, <2>1, <2>2, <2>4, <2>6 DEF AppInv
<1> QED BY <1>5, <1>6 DEF TriggerWANUp

LEMMA WanUpOwn ==
  ASSUME AppInv, OwnInv, OneAddress, NEW w \in WanIps, TriggerWANUp(w)
  PROVE  OwnInv'
<1>1. /\ Quiet /\ ~WanUp /\ UNCHANGED <<natVars, cache>>
  BY DEF TriggerWANUp
<1>2. op = Idle /\ op' = Idle
  BY <1>1, Quieted DEF natVars
<1>3. nat_table_hdl = 0
  BY <1>1 DEF AppInv, TableFits
<1>4. ~Busy' /\ op'.fn = "none"
  BY <1>2 DEF Busy, Idle
<1>5. \A k \in Slots : cache[k].enabled => pub_ip_addr_pre \in WanIps
  BY <1>3 DEF OwnInv
<1>6. CASE UNCHANGED <<pub, job>>
  BY <1>1, <1>3, <1>4, <1>5, <1>6 DEF OwnInv, pub
<1>7. CASE /\ nat_table_hdl' = 1
           /\ job' = IF w = pub_ip_addr_pre THEN Job("AddTable", 0, 1) ELSE NoJob
           /\ UNCHANGED pub_ip_addr_pre
  <2>1. ASSUME NEW k \in Slots, cache[k].enabled PROVE ~Settled(k)'
    <3>1. w = pub_ip_addr_pre
      BY <1>5, <2>1 DEF OneAddress
    <3>2. job'.fn = "AddTable" /\ job'.cnt = 1
      BY <1>7, <3>1 DEF Job
    <3> QED BY <3>2 DEF Settled, Slots
  <2> QED BY <1>1, <1>4, <1>7, <2>1 DEF OwnInv
<1> QED BY <1>6, <1>7 DEF TriggerWANUp

LEMMA WanDownKept ==
  ASSUME AppInv, TriggerWANDown
  PROVE  AppInv' /\ (OwnInv => OwnInv')
<1>1. /\ Quiet /\ WanUp /\ WanUp' = FALSE /\ cache' = cache
      /\ UNCHANGED <<cache, temp, clients, wan_ipaddr, job>>
  BY DEF TriggerWANDown
<1>2. op = Idle /\ ~Running /\ job = NoJob
  BY <1>1, Quieted DEF Quiet
<1>3. Addresses = {0} \cup WanIps /\ {pub_ip_addr, pub_ip_addr_pre, wan_ipaddr} \subseteq Addresses
  BY DEF Addresses, AppInv, TypeOK
<1>4. op' = Idle /\ DriverInv'
  <2>1. CASE UNCHANGED natVars
    BY <1>2, <2>1, TablesKept DEF AppInv, natVars
  <2>2. CASE ipa_nati_reset_tbl
    BY <1>2, <2>2, ResetKept DEF AppInv, ipa_nati_reset_tbl
  <2> QED BY <2>1, <2>2 DEF TriggerWANDown
<1>5. ~Busy' /\ ~Running' /\ op'.fn = "none" /\ NatTypeOK' /\ JobTypeOK' /\ ~Busy
  BY <1>1, <1>2, <1>4 DEF Busy, Running, Idle, DriverInv, JobTypeOK, AppInv, NoJob, Job
<1>6. JobFits' /\ ResultFits' /\ CacheFits'
  BY <1>1, <1>5 DEF JobFits, ResultFits, CacheFits, AppInv
<1>7. \A k : Settled(k) /\ Settled(k)'
  BY <1>1, <1>2 DEF Settled, NoJob
<1>8. CASE nat_table_hdl = 0 /\ UNCHANGED <<natVars, pub>>
  <2>1. UNCHANGED <<pub_ip_addr, pub_ip_addr_pre, nat_table_hdl, ruleTable, rule_id_array>> /\ nat_table_hdl' = 0
    BY <1>8 DEF pub, natVars
  <2>2. TypeOK'
    <3>1. TypeOK /\ nat_table_hdl' \in {0, 1} /\ {pub_ip_addr, pub_ip_addr_pre, wan_ipaddr}' \subseteq Addresses
      BY <1>1, <1>3, <2>1 DEF AppInv
    <3>2. job'.cnt \in 0 .. max_entries + 1
      BY <1>1, <3>1 DEF TypeOK
    <3> QED BY <1>1, <1>3, <1>5, <3>1, <3>2 DEF TypeOK, clients
  <2>3. \A h \in Handles : ~InUse(h)'
    BY <1>8, <2>1, SameHandles DEF AppInv, TableFits
  <2>4. TableFits' /\ HandlesHeld'
    BY <2>1, <2>3 DEF TableFits, HandlesHeld
  <2>5. OwnInv => OwnInv'
    BY <1>1, <1>5, <2>1 DEF OwnInv
  <2> QED BY <1>4, <1>5, <1>6, <2>2, <2>4, <2>5 DEF AppInv
<1>9. CASE /\ nat_table_hdl # 0 /\ pub_ip_addr_pre' = pub_ip_addr
           /\ nat_table_hdl' = 0 /\ pub_ip_addr' = 0 /\ ipa_nati_reset_tbl
  <2>1. TypeOK'
    <3>1. TypeOK /\ nat_table_hdl' \in {0, 1} /\ {pub_ip_addr, pub_ip_addr_pre, wan_ipaddr}' \subseteq Addresses
      BY <1>1, <1>3, <1>9 DEF AppInv
    <3>2. job'.cnt \in 0 .. max_entries + 1
      BY <1>1, <3>1 DEF TypeOK
    <3> QED BY <1>1, <1>3, <1>5, <3>1, <3>2 DEF TypeOK, clients
  <2>2. \A h \in Handles : ~InUse(h)'
    BY <1>9 DEF ipa_nati_reset_tbl, InUse
  <2>3. TableFits' /\ HandlesHeld'
    BY <1>9, <2>2 DEF TableFits, HandlesHeld
  <2>4. pub_ip_addr_pre' \in WanIps
    BY <1>9 DEF AppInv, TableFits
  <2>5. OwnInv'
    BY <1>5, <1>9, <2>4 DEF OwnInv
  <2> QED BY <1>4, <1>5, <1>6, <2>1, <2>3, <2>5 DEF AppInv
<1> QED BY <1>8, <1>9 DEF TriggerWANDown

-----------------------------------------------------------------------------
(* A connection is opened.                                                  *)
LEMMA CacheEntryGrows ==
  ASSUME NEW r \in Rules, CacheEntry(r)
  PROVE  CacheGrows
<1>1. CASE cache' = cache
  BY <1>1 DEF CacheGrows
<1>2. CASE ~ChkForDup(r) /\ cache' # cache
  <2>1. PICK cnt \in 1 .. max_entries + 1 :
               cache' = IF {k \in FreeSlots : k >= cnt} = {} THEN cache
                        ELSE [cache EXCEPT ![Least({k \in FreeSlots : k >= cnt})] = Cached(r, 0)]
    BY <1>2 DEF CacheEntry
  <2> DEFINE free == {k \in FreeSlots : k >= cnt}
  <2>2. free # {} /\ cache' = [cache EXCEPT ![Least(free)] = Cached(r, 0)]
    BY <1>2, <2>1
  <2>3. free \in SUBSET Nat
    BY Sizes DEF FreeSlots
  <2>4. Least(free) \in free
    BY <2>2, <2>3, LeastIsMember
  <2>5. Least(free) \in Slots /\ cache[Least(free)].rule = NoRule
    BY <2>4 DEF FreeSlots
  <2> HIDE DEF free
  <2> QED BY <1>2, <2>2, <2>5 DEF CacheGrows
<1> QED BY <1>1, <1>2 DEF CacheEntry

(* A rule is offered to the driver, for the slot that will hold it.         *)
LEMMA EntryOffered ==
  ASSUME AppInv, Quiet, NEW r \in Rules, nat_table_hdl # 0, ~ChkForDup(r), FreeSlots # {},
         private_ip[r] \notin PwrSaveIfs, add_ipv4_rule(r),
         job' = Job("AddEntry", r, Least(FreeSlots)),
         UNCHANGED <<cache, temp, pub, clients, wan>>
  PROVE  AppInv' /\ (OwnInv => OwnInv')
<1>1. PICK k \in Slots : k = Least(FreeSlots) /\ cache[k].rule = NoRule
  BY FreeFound
<1>2. /\ op = Idle /\ ~Running /\ ~Busy /\ job'.fn = "AddEntry" /\ job'.arg = r /\ job'.cnt = k
      /\ k \in 1 .. max_entries + 1
  BY <1>1, Quieted, Sizes DEF Job
<1>3. DriverInv' /\ NatTypeOK'
  BY <1>2, AddKept DEF AppInv, DriverInv
<1>4. /\ op' = [fn |-> "done", ret |-> 0] \/ (op'.fn = "add" /\ rule'[op'.entry] = r)
      /\ \A h : Alone(h) /\ (InUse(h)' <=> InUse(h))
  BY <1>2, AddBeginsHandles DEF AppInv
<1>5. UNCHANGED <<pub_ip_addr, pub_ip_addr_pre, nat_table_hdl, PwrSaveIfs, nat_iface_ipv4_addr, power_save_set,
                  WanUp, wan_ipaddr, cache, temp>>
  BY DEF pub, clients, wan
<1>6. TypeOK'
  <2>1. job'.cnt \in 0 .. max_entries + 1
    BY <1>2, Sizes
  <2> QED BY <1>3, <1>5, <2>1 DEF AppInv, TypeOK
<1>7. JobTypeOK'
  BY <1>2 DEF JobTypeOK, Job
<1>8. AddsRules' /\ ~Adds' /\ Wanted' = r /\ op'.fn \in {"done", "add"}
  BY <1>2, <1>4 DEF AddsRules, Adds, Wanted
<1>9. Busy'
  BY <1>8 DEF Busy, Idle
<1>10. JobFits'
  BY <1>1, <1>2, <1>5, <1>8, <1>9 DEF JobFits, ChkForDup
<1>11. ResultFits'
  BY <1>4, <1>8 DEF ResultFits
<1>12. CacheFits' /\ TableFits'
  BY <1>4, <1>5 DEF AppInv, CacheFits, TableFits
<1>13. \A j : Settled(j) /\ Settled(j)'
  BY <1>2 DEF Settled, Quiet, NoJob
<1>14. HandlesHeld'
  BY <1>2, <1>4, <1>5, <1>13 DEF AppInv, HandlesHeld, Idle
<1>15. ASSUME OwnInv PROVE OwnInv'
  <2>1. cache[k].enabled = FALSE
    BY <1>1, SlotTypes DEF AppInv, CacheFits
  <2>2. ASSUME NEW j \in Slots, cache[j].enabled
        PROVE  InUse(cache[j].rule_hdl)' /\ RuleOfHandle(cache[j].rule_hdl)' = cache[j].rule
    <3>1. InUse(cache[j].rule_hdl) /\ RuleOfHandle(cache[j].rule_hdl) = cache[j].rule
      BY <1>2, <1>13, <1>15, <2>2 DEF OwnInv
    <3>2. PICK h : h = cache[j].rule_hdl
      OBVIOUS
    <3>3. InUse(h)' /\ RuleOfHandle(h)' = RuleOfHandle(h)
      BY <1>4, <3>1, <3>2 DEF Alone
    <3> QED BY <1>5, <3>1, <3>2, <3>3 DEF InUse, RuleOfHandle
  <2> QED BY <1>5, <1>8, <2>2 DEF OwnInv
<1> QED BY <1>3, <1>6, <1>7, <1>10, <1>11, <1>12, <1>14, <1>15 DEF AppInv

LEMMA NewConnectionKept ==
  ASSUME AppInv, NEW r \in Rules, NewConnection(r)
  PROVE  AppInv' /\ (OwnInv => OwnInv')
<1>1. Quiet /\ UNCHANGED <<pub, clients, wan>> /\ TypeOK
  BY DEF NewConnection, AppInv
<1>2. UNCHANGED <<pub_ip_addr, pub_ip_addr_pre, nat_table_hdl, PwrSaveIfs, nat_iface_ipv4_addr, power_save_set,
                  WanUp, wan_ipaddr>>
  BY <1>1 DEF pub, clients, wan
<1>3. ASSUME UNCHANGED <<natVars, job>>, CacheGrows, temp' \in [Temps -> TempType]
      PROVE  AppInv' /\ (OwnInv => OwnInv')
  <2>1. cache' \in [Slots -> SlotType]
    BY <1>3, Grown DEF AppInv
  <2>2. TypeOK'
    BY <1>1, <1>2, <1>3, <2>1, RestTypes, Types
  <2>3. JobTypeOK' /\ job'.fn \notin {"AddTable", "AddEntry"}
    BY <1>1, <1>3, NothingBegun DEF natVars
  <2> QED BY <1>1, <1>2, <1>3, <2>2, <2>3, RestKept, RestOwn
<1>4. CASE ~WanUp /\ CacheEntry(r) /\ UNCHANGED <<natVars, job, temp>>
  BY <1>1, <1>3, <1>4, CacheEntryGrows, TempTypes
<1>5. CASE \E public_ip \in {0, wan_ipaddr % 2 ^ 16} : AddTempEntry(r, public_ip) /\ UNCHANGED <<natVars, cache, job>>
  BY <1>1, <1>3, <1>5, AddTempTypes DEF CacheGrows
<1>6. CASE AddEntry(r) /\ UNCHANGED temp
  <2>1. CASE UNCHANGED <<natVars, cache, job>>
    BY <1>1, <1>3, <1>6, <2>1, TempTypes DEF CacheGrows
  <2>2. CASE nat_table_hdl # 0 /\ ~ChkForDup(r) /\ FreeSlots # {}
    <3>1. PICK k \in Slots : k = Least(FreeSlots) /\ cache[k].rule = NoRule
      BY <2>2, FreeFound
    <3>2. CASE isPwrSaveIf(private_ip[r]) \/ isPwrSaveIf(target_ip[r])
      <4>1. cache' = [cache EXCEPT ![k] = Cached(r, 0)] /\ UNCHANGED <<natVars, job>>
        BY <1>6, <2>2, <3>1, <3>2 DEF AddEntry
      <4> QED BY <1>1, <1>3, <1>6, <2>2, <3>1, <4>1, TempTypes DEF CacheGrows
    <3>3. CASE ~isPwrSaveIf(private_ip[r]) /\ ~isPwrSaveIf(target_ip[r])
      <4>1. add_ipv4_rule(r) /\ job' = Job("AddEntry", r, Least(FreeSlots)) /\ UNCHANGED cache
        BY <1>6, <2>2, <3>3 DEF AddEntry
      <4> QED BY <1>1, <1>6, <2>2, <3>3, <4>1, EntryOffered DEF isPwrSaveIf
    <3> QED BY <3>2, <3>3
  <2> QED BY <1>6, <2>1, <2>2 DEF AddEntry
<1> QED BY <1>4, <1>5, <1>6 DEF NewConnection

-----------------------------------------------------------------------------
(* The walk comes to a slot and calls the driver.                           *)
LEMMA DueFacts ==
  ASSUME AppInv, ~Quiet, NEW k \in Slots, Due(k)
  PROVE  /\ cache[k].rule \in Rules /\ job.fn # "AddEntry"
         /\ AddsRules <=> Adds
         /\ job.fn = "ResetPwrSaveIf" => ~cache[k].enabled /\ private_ip[cache[k].rule] = job.arg
<1>1. cache[k].rule # NoRule /\ cache[k].rule \in Rules \cup {NoRule}
  BY SlotTypes DEF Due, AppInv
<1>2. job.fn # "AddEntry"
  BY DEF Due
<1>3. job.fn = "ResetPwrSaveIf" => ~cache[k].enabled /\ private_ip[cache[k].rule] = job.arg
  BY DEF Due
<1> QED BY <1>1, <1>2, <1>3 DEF AddsRules

LEMMA JobMoves ==
  ASSUME AppInv, ~Quiet, NEW n \in 1 .. max_entries + 1, job' = [job EXCEPT !.cnt = n], PwrSaveIfs' = PwrSaveIfs
  PROVE  /\ JobTypeOK' /\ job'.cnt = n /\ job'.cnt \in 0 .. max_entries + 1
         /\ job'.fn = job.fn /\ job'.arg = job.arg
<1>1. job = Job(job.fn, job.arg, job.cnt)
  BY JobTypes DEF AppInv
<1>2. job' = Job(job.fn, job.arg, n)
  BY <1>1 DEF Job
<1>3. job'.cnt = n /\ job'.fn = job.fn /\ job'.arg = job.arg /\ job' = Job(job'.fn, job'.arg, job'.cnt)
  BY <1>2 DEF Job
<1>4. n \in 0 .. max_entries + 1
  BY Sizes
<1> QED BY <1>3, <1>4 DEF AppInv, JobTypeOK, Quiet

LEMMA Calls ==
  ASSUME AppInv, ~Quiet, op = Idle, NEW k \in Slots, Due(k), NeedsDriver(k), CallDriver(k)
  PROVE  /\ DriverInv' /\ op'.fn \in {"add", "del", "done"}
         /\ \A h : Alone(h) /\ (InUse(h)' <=> InUse(h))
         /\ op'.fn = "add" => Adds /\ rule'[op'.entry] = cache[k].rule
         /\ op'.fn = "del" => ~Adds /\ op'.hdl = cache[k].rule_hdl
         /\ op'.fn = "done" => op'.ret = 0
         /\ op'.fn = "done" /\ ~Adds => ~InUse(cache[k].rule_hdl)
         /\ op'.fn # "done" => nat_table_hdl # 0
<1>1. ~Running /\ cache[k].rule \in Rules /\ DriverInv
  BY DueFacts DEF Running, Idle, AppInv
<1>2. CASE nat_table_hdl = 0
  <2>1. op' = [fn |-> "done", ret |-> 0] /\ UNCHANGED <<ruleTable, indexTable, rule_id_array, cmd>>
    BY <1>2 DEF CallDriver
  <2>2. op' \in [fn : {"done"}, ret : {0} \cup Handles]
    BY <2>1
  <2>3. DriverInv'
    BY <1>1, <2>1, <2>2, TablesKept
  <2>4. \A h : Alone(h) /\ (InUse(h)' <=> InUse(h))
    BY <2>1, SameHandles DEF Alone
  <2>5. \A h : ~InUse(h)
    BY <1>2 DEF AppInv, TableFits, InUse
  <2> QED BY <2>1, <2>3, <2>4, <2>5
<1>3. CASE nat_table_hdl # 0 /\ Adds
  <2>1. add_ipv4_rule(cache[k].rule)
    BY <1>3 DEF CallDriver
  <2>2. DriverInv'
    BY <1>1, <2>1, AddKept
  <2>3. /\ op' = [fn |-> "done", ret |-> 0] \/ (op'.fn = "add" /\ rule'[op'.entry] = cache[k].rule)
        /\ \A h : Alone(h) /\ (InUse(h)' <=> InUse(h))
    BY <1>1, <2>1, AddBeginsHandles
  <2> QED BY <1>3, <2>2, <2>3
<1>4. CASE nat_table_hdl # 0 /\ ~Adds
  <2>1. PICK h : h = cache[k].rule_hdl
    OBVIOUS
  <2>2. del_ipv4_rule(h)
    BY <1>4, <2>1 DEF CallDriver
  <2>3. DriverInv'
    BY <1>1, <2>2, DelBegins
  <2>4. /\ InUse(h) => op'.fn = "del" /\ op'.hdl = h
        /\ ~InUse(h) => op' = [fn |-> "done", ret |-> 0]
        /\ \A g : Alone(g) /\ (InUse(g)' <=> InUse(g))
    BY <1>1, <2>2, DelBeginsHandles
  <2> QED BY <1>4, <2>1, <2>3, <2>4
<1> QED BY <1>2, <1>3, <1>4

LEMMA VisitKept ==
  ASSUME AppInv, Visit
  PROVE  AppInv' /\ (OwnInv => OwnInv')
<1>1. PICK k \in Slots : k = Least(DueSlots) /\ Due(k) /\ k >= job.cnt
                            /\ \A j \in DueSlots : k <= j
  BY DueFound DEF Visit
<1>2. /\ ~Quiet /\ op = Idle /\ NeedsDriver(k) /\ CallDriver(k) /\ job' = [job EXCEPT !.cnt = k]
      /\ UNCHANGED <<cache, temp, pub, clients, wan>>
  BY <1>1 DEF Visit
<1>3. UNCHANGED <<pub_ip_addr, pub_ip_addr_pre, nat_table_hdl, PwrSaveIfs, nat_iface_ipv4_addr, power_save_set,
                  WanUp, wan_ipaddr, cache, temp>>
  BY <1>2 DEF pub, clients, wan
<1>4. /\ DriverInv' /\ op'.fn \in {"add", "del", "done"}
      /\ \A h : Alone(h) /\ (InUse(h)' <=> InUse(h))
      /\ op'.fn = "add" => Adds /\ rule'[op'.entry] = cache[k].rule
      /\ op'.fn = "del" => ~Adds /\ op'.hdl = cache[k].rule_hdl
      /\ op'.fn = "done" => op'.ret = 0
      /\ op'.fn = "done" /\ ~Adds => ~InUse(cache[k].rule_hdl)
      /\ op'.fn # "done" => nat_table_hdl # 0
  BY <1>1, <1>2, Calls
<1>5. /\ JobTypeOK' /\ job'.cnt = k /\ job'.cnt \in 0 .. max_entries + 1
      /\ job'.fn = job.fn /\ job'.arg = job.arg
  BY <1>2, <1>3, JobMoves, Sizes
<1>6. TypeOK'
  BY <1>3, <1>4, <1>5 DEF AppInv, TypeOK, DriverInv
<1>7. /\ cache[k].rule \in Rules /\ job.fn # "AddEntry" /\ (AddsRules <=> Adds)
      /\ job.fn = "ResetPwrSaveIf" => ~cache[k].enabled /\ private_ip[cache[k].rule] = job.arg
  BY <1>1, <1>2, DueFacts
<1>8. (Adds' <=> Adds) /\ (AddsRules' <=> Adds) /\ Wanted' = cache[k].rule /\ cache[k].rule # NoRule
  BY <1>3, <1>5, <1>7, RuleAssumption DEF Adds, AddsRules, Wanted
<1>9. ~Adds => cache[k].enabled
  BY <1>2 DEF NeedsDriver
<1>10. JobFits'
  BY <1>3, <1>4, <1>5, <1>7, <1>8, <1>9 DEF JobFits, Running
<1>11. ResultFits'
  <2>1. op'.fn = "add" => rule'[op'.entry] = Wanted'
    BY <1>4, <1>8
  <2>2. op'.fn = "done" => op'.ret = 0
    BY <1>4
  <2>3. (op'.fn = "done" /\ ~AddsRules') => ~(InUse(cache[job.cnt].rule_hdl))'
    BY <1>3, <1>4, <1>5, <1>8 DEF InUse
  <2> QED BY <2>1, <2>2, <2>3 DEF ResultFits
<1>12. CacheFits' /\ TableFits'
  BY <1>3, <1>4 DEF AppInv, CacheFits, TableFits
<1>13. \A j \in Slots : Settled(j) => Settled(j)'
  <2>1. job.cnt \in Nat /\ k \in Nat /\ \A j \in Slots : j \in Nat
    BY <1>2, JobTypes, Sizes DEF AppInv
  <2> QED BY <1>1, <1>5, <2>1 DEF Settled
<1>14. HandlesHeld'
  <2>1. \A h \in Handles : InUse(h) => \E j \in Slots : Settled(j) /\ cache[j].enabled /\ cache[j].rule_hdl = h
    BY <1>2 DEF AppInv, HandlesHeld, Idle
  <2> QED BY <1>3, <1>4, <1>13, <2>1 DEF HandlesHeld
<1>15. ASSUME OwnInv PROVE OwnInv'
  <2>0. ~Busy
    BY <1>2 DEF Busy
  <2>1. ASSUME nat_table_hdl # 0, NEW j \in Slots, cache[j].enabled, Settled(j)
        PROVE  InUse(cache[j].rule_hdl) /\ RuleOfHandle(cache[j].rule_hdl) = cache[j].rule
    BY <1>15, <2>0, <2>1 DEF OwnInv
  <2>2. ASSUME NEW j \in Slots, cache[j].enabled, Settled(j)'
        PROVE  Settled(j)
    <3>1. SUFFICES ASSUME job.fn = "AddTable", ~(j < job.cnt) PROVE FALSE
      BY DEF Settled
    <3>2. j < k /\ job.cnt \in Nat /\ k \in Nat /\ j \in Nat
      BY <1>2, <1>5, <2>2, <3>1, JobTypes, Sizes DEF Settled, AppInv
    <3>3. Due(j)
      BY <2>2, <3>1 DEF Due, AppInv, CacheFits
    <3>4. j \in DueSlots
      BY <3>1, <3>2, <3>3 DEF DueSlots
    <3> QED BY <1>1, <3>2, <3>4
  <2>3. ASSUME nat_table_hdl # 0, NEW j \in Slots, cache[j].enabled, Settled(j)'
        PROVE  (InUse(cache[j].rule_hdl) /\ RuleOfHandle(cache[j].rule_hdl) = cache[j].rule)'
    <3>1. InUse(cache[j].rule_hdl) /\ RuleOfHandle(cache[j].rule_hdl) = cache[j].rule
      BY <2>1, <2>2, <2>3
    <3>2. PICK h : h = cache[j].rule_hdl
      OBVIOUS
    <3>3. InUse(h)' /\ RuleOfHandle(h)' = RuleOfHandle(h)
      BY <1>4, <3>1, <3>2 DEF Alone
    <3> QED BY <1>3, <3>1, <3>2, <3>3 DEF InUse, RuleOfHandle
  <2>4. ~Adds => \A j \in Slots : Settled(j)
    BY DEF Settled, Adds
  <2>5. ASSUME op'.fn = "del", NEW j \in Slots, cache[j].enabled, j # k
        PROVE  cache[j].rule_hdl # op'.hdl
    <3>1. /\ RuleOfHandle(cache[j].rule_hdl) = cache[j].rule
          /\ RuleOfHandle(cache[k].rule_hdl) = cache[k].rule
      BY <1>4, <1>9, <2>1, <2>4, <2>5
    <3>2. cache[j].rule # cache[k].rule
      BY <1>8, <2>5 DEF AppInv, CacheFits
    <3> QED BY <1>4, <2>5, <3>1, <3>2
  <2>6. ~(op'.fn = "done" /\ ~AddsRules' /\ nat_table_hdl # 0)
    BY <1>4, <1>8, <1>9, <2>1, <2>4
  <2> QED BY <1>3, <1>5, <1>15, <2>3, <2>5, <2>6 DEF OwnInv
<1> QED BY <1>4, <1>5, <1>6, <1>10, <1>11, <1>12, <1>14, <1>15 DEF AppInv

-----------------------------------------------------------------------------
(* The driver returns, and the slot takes what it said.                     *)
LEMMA VisitedFacts ==
  ASSUME AppInv, ~Quiet, op.fn = "done", NEW k \in Slots, k = job.cnt, NEW v, v = Visited(k, op.ret)
  PROVE  /\ v \in SlotType
         /\ v.enabled => v.rule # NoRule /\ v.rule_hdl # 0
         /\ v.rule \in {NoRule, cache[k].rule} \/ (v.rule = job.arg /\ ~ChkForDup(job.arg))
         /\ AddsRules /\ op.ret # 0 => v.enabled /\ v.rule_hdl = op.ret /\ v.rule = Wanted
         /\ AddsRules /\ op.ret = 0 => ~v.enabled
         /\ ~AddsRules /\ op.ret # 0 => ~v.enabled
         /\ ~AddsRules /\ v.enabled => cache[k].enabled
<1>0. PICK c : c = cache[k]
  OBVIOUS
<1>1. /\ c \in SlotType /\ c.rule \in Rules \cup {NoRule} /\ c.enabled \in BOOLEAN /\ c.rule_hdl \in {0} \cup Handles
      /\ op.ret \in {0} \cup Handles /\ Busy
      /\ c.enabled => c.rule # NoRule /\ c.rule_hdl # 0
  BY <1>0, SlotTypes, OpTypes DEF AppInv, DriverInv, CacheFits, Busy
<1>2. Free \in SlotType /\ Free.rule = NoRule /\ Free.enabled = FALSE
  BY DEF Free, SlotType
<1>3. ASSUME NEW r \in Rules, NEW h \in {0} \cup Handles
      PROVE  /\ Cached(r, h) \in SlotType
             /\ Cached(r, h).rule = r /\ Cached(r, h).rule_hdl = h /\ r # NoRule
             /\ h # 0 => Cached(r, h).enabled = TRUE
             /\ h = 0 => Cached(r, h).enabled = FALSE
  BY RuleAssumption DEF Cached, SlotType
<1>4. CASE job.fn = "AddEntry"
  <2>1. job.arg \in Rules /\ c.rule = NoRule /\ ~ChkForDup(job.arg) /\ AddsRules /\ Wanted = job.arg /\ ~Adds
    BY <1>0, <1>1, <1>4, JobTypes DEF AppInv, JobFits, AddsRules, Wanted, Adds
  <2>2. v = IF op.ret = 0 THEN c ELSE Cached(job.arg, op.ret)
    BY <1>0, <1>4, <2>1 DEF Visited
  <2>3. CASE op.ret = 0
    BY <1>0, <1>1, <2>1, <2>2, <2>3 DEF AppInv, CacheFits
  <2>4. CASE op.ret # 0
    <3>1. v \in SlotType /\ v.enabled = TRUE /\ v.rule_hdl = op.ret /\ v.rule = job.arg /\ v.rule # NoRule
      <4>1. op.ret \in {0} \cup Handles /\ job.arg \in Rules
        BY <1>1, <2>1
      <4>2. /\ Cached(job.arg, op.ret) \in SlotType /\ Cached(job.arg, op.ret).rule = job.arg
            /\ Cached(job.arg, op.ret).rule_hdl = op.ret /\ job.arg # NoRule
            /\ op.ret # 0 => Cached(job.arg, op.ret).enabled = TRUE
        BY <1>3, <4>1
      <4>3. v = Cached(job.arg, op.ret)
        BY <2>2, <2>4
      <4> QED BY <2>4, <4>2, <4>3
    <3> QED BY <1>1, <2>1, <2>4, <3>1
  <2> QED BY <2>3, <2>4
<1>5. CASE Adds
  <2>1. c.rule \in Rules /\ AddsRules /\ Wanted = c.rule
        /\ job.fn \notin {"AddEntry", "UpdatePwrSaveIf", "DelEntriesOnClntDiscon", "DelEntriesOnSTAClntDiscon"}
    BY <1>0, <1>1, <1>5 DEF AppInv, JobFits, AddsRules, Wanted, Adds
  <2>2. v = IF op.ret = 0 THEN Free ELSE Cached(c.rule, op.ret)
    BY <1>0, <1>5, <2>1 DEF Visited
  <2>3. CASE op.ret = 0
    BY <1>2, <2>1, <2>2, <2>3
  <2>4. CASE op.ret # 0
    <3>1. v \in SlotType /\ v.enabled = TRUE /\ v.rule_hdl = op.ret /\ v.rule = c.rule /\ v.rule # NoRule
      <4>1. op.ret \in {0} \cup Handles /\ c.rule \in Rules
        BY <1>1, <2>1
      <4>2. /\ Cached(c.rule, op.ret) \in SlotType /\ Cached(c.rule, op.ret).rule = c.rule
            /\ Cached(c.rule, op.ret).rule_hdl = op.ret /\ c.rule # NoRule
            /\ op.ret # 0 => Cached(c.rule, op.ret).enabled = TRUE
        BY <1>3, <4>1
      <4>3. v = Cached(c.rule, op.ret)
        BY <2>2, <2>4
      <4> QED BY <2>4, <4>2, <4>3
    <3> QED BY <1>0, <1>1, <2>1, <2>4, <3>1
  <2> QED BY <2>3, <2>4
<1>6. CASE ~AddsRules
  <2>1. c.enabled /\ c.rule \in Rules /\ job.fn # "AddEntry" /\ ~Adds
    BY <1>0, <1>1, <1>6 DEF AppInv, JobFits, AddsRules
  <2>2. CASE job.fn = "UpdatePwrSaveIf"
    <3>1. v = IF op.ret = 0 THEN c ELSE Cached(c.rule, 0)
      BY <1>0, <2>1, <2>2 DEF Visited
    <3>2. Cached(c.rule, 0) \in SlotType /\ Cached(c.rule, 0).rule = c.rule /\ Cached(c.rule, 0).enabled = FALSE
      BY <1>3, <2>1
    <3> QED BY <1>0, <1>1, <1>6, <2>1, <3>1, <3>2
  <2>3. CASE job.fn = "DelEntriesOnClntDiscon"
    <3>1. v = IF op.ret = 0 THEN c ELSE [c EXCEPT !.enabled = FALSE]
      BY <1>0, <2>1, <2>3 DEF Visited
    <3>2. /\ [c EXCEPT !.enabled = FALSE] \in SlotType /\ [c EXCEPT !.enabled = FALSE].enabled = FALSE
          /\ [c EXCEPT !.enabled = FALSE].rule = c.rule
      BY <1>1 DEF SlotType
    <3> QED BY <1>0, <1>1, <1>6, <2>1, <3>1, <3>2
  <2>4. CASE job.fn = "DelEntriesOnSTAClntDiscon"
    <3>1. v = IF op.ret = 0 THEN c ELSE Free
      BY <1>0, <2>1, <2>4 DEF Visited
    <3> QED BY <1>0, <1>1, <1>2, <1>6, <2>1, <3>1
  <2>5. CASE job.fn = "DeleteEntry"
    <3>1. v = Free
      BY <1>0, <2>1, <2>5 DEF Visited
    <3> QED BY <1>0, <1>1, <1>2, <1>6, <2>1, <3>1
  <2> QED BY <2>1, <2>2, <2>3, <2>4, <2>5, JobTypes DEF AppInv, JobFns, Adds
<1> QED BY <1>4, <1>5, <1>6 DEF AddsRules

LEMMA ReturnedKept ==
  ASSUME AppInv, Returned
  PROVE  AppInv' /\ (OwnInv => OwnInv')
<1>1. PICK k \in Slots : k = job.cnt
  BY DEF AppInv, JobFits, Returned, Busy, Idle
<1>2. PICK v : v = Visited(k, op.ret)
  OBVIOUS
<1>3. /\ ~Quiet /\ op.fn = "done" /\ op' = Idle
      /\ cache' = [cache EXCEPT ![k] = v] /\ job' = [job EXCEPT !.cnt = NextSlot(k)]
      /\ UNCHANGED <<ruleTable, indexTable, rule_id_array, cmd>>
      /\ UNCHANGED <<pub_ip_addr, pub_ip_addr_pre, nat_table_hdl, PwrSaveIfs, nat_iface_ipv4_addr, power_save_set,
                     WanUp, wan_ipaddr, temp>>
  BY <1>1, <1>2 DEF Returned, pub, clients, wan
<1>4. /\ v \in SlotType
      /\ v.enabled => v.rule # NoRule /\ v.rule_hdl # 0
      /\ v.rule \in {NoRule, cache[k].rule} \/ (v.rule = job.arg /\ ~ChkForDup(job.arg))
      /\ AddsRules /\ op.ret # 0 => v.enabled /\ v.rule_hdl = op.ret /\ v.rule = Wanted
      /\ AddsRules /\ op.ret = 0 => ~v.enabled
      /\ ~AddsRules /\ op.ret # 0 => ~v.enabled
      /\ ~AddsRules /\ v.enabled => cache[k].enabled
  BY <1>1, <1>2, <1>3, VisitedFacts
<1>5. cache' \in [Slots -> SlotType] /\ cache'[k] = v /\ \A j \in Slots : j # k => cache'[j] = cache[j]
  BY <1>3, <1>4, Types DEF AppInv
<1>6. ~Running /\ Busy /\ ~Running' /\ ~Busy' /\ op'.fn = "none" /\ DriverInv
  BY <1>3 DEF Running, Busy, Idle, AppInv
<1>7. DriverInv' /\ NatTypeOK'
  BY <1>3, <1>6, TablesKept DEF DriverInv
<1>8. NextSlot(k) \in 1 .. max_entries + 1 /\ (job.fn = "AddTable" => NextSlot(k) = k + 1)
  BY Sizes DEF NextSlot
<1>9. /\ JobTypeOK' /\ job'.cnt = NextSlot(k) /\ job'.cnt \in 0 .. max_entries + 1
      /\ job'.fn = job.fn /\ job'.arg = job.arg
  BY <1>3, <1>8, JobMoves
<1>10. TypeOK'
  BY <1>3, <1>5, <1>7, <1>9 DEF AppInv, TypeOK, SlotType
<1>11. JobFits' /\ ResultFits'
  <2>1. job'.fn = "AddEntry" => job'.cnt \notin Slots
    BY <1>9, Sizes DEF NextSlot, Slots
  <2> QED BY <1>6, <2>1 DEF JobFits, ResultFits
<1>12. CacheFits'
  <2>1. \A j \in Slots : cache'[j].enabled => cache'[j].rule # NoRule /\ cache'[j].rule_hdl # 0
    BY <1>4, <1>5 DEF AppInv, CacheFits
  <2>2. \A j \in Slots : j # k /\ cache[j].rule = v.rule => v.rule = NoRule
    BY <1>4 DEF AppInv, CacheFits, ChkForDup
  <2>3. ASSUME NEW i \in Slots, NEW j \in Slots, cache'[i].rule = cache'[j].rule, cache'[i].rule # NoRule
        PROVE  i = j
    BY <1>5, <2>2, <2>3 DEF AppInv, CacheFits
  <2> QED BY <2>1, <2>3 DEF CacheFits
<1>13. \A h : (InUse(h)' <=> InUse(h)) /\ RuleOfHandle(h)' = RuleOfHandle(h)
  BY <1>3, SameHandles
<1>14. TableFits'
  BY <1>3, <1>13 DEF AppInv, TableFits
<1>15. Settled(k)' /\ \A j \in Slots : Settled(j) => Settled(j)'
  <2>1. k \in Nat /\ \A j \in Slots : j \in Nat
    BY Sizes
  <2> QED BY <1>1, <1>8, <1>9, <2>1 DEF Settled
<1>16. HandlesHeld'
  <2> SUFFICES ASSUME NEW h \in Handles, InUse(h)
               PROVE  \E j \in Slots : Settled(j)' /\ cache'[j].enabled /\ cache'[j].rule_hdl = h
    BY <1>13 DEF HandlesHeld
  <2>0. h # 0
    BY Sizes
  <2>1. CASE AddsRules /\ op.ret = h
    BY <1>4, <1>5, <1>15, <2>0, <2>1
  <2>2. CASE \E j \in Slots : Settled(j) /\ cache[j].enabled /\ cache[j].rule_hdl = h
    <3>1. PICK j \in Slots : Settled(j) /\ cache[j].enabled /\ cache[j].rule_hdl = h
      BY <2>2
    <3>2. CASE j # k
      BY <1>5, <1>15, <3>1, <3>2
    <3>3. CASE j = k
      <4>1. k \in Nat /\ job.fn # "AddTable"
        BY <1>1, <3>1, <3>3, Sizes DEF Settled
      <4>2. job.fn # "AddEntry" /\ job.fn # "ResetPwrSaveIf"
        BY <1>1, <1>6, <3>1, <3>3 DEF AppInv, JobFits, CacheFits
      <4>3. ~AddsRules
        BY <4>1, <4>2 DEF AddsRules, Adds
      <4> QED BY <1>1, <1>3, <3>1, <3>3, <4>3 DEF AppInv, ResultFits
    <3> QED BY <3>2, <3>3
  <2> QED BY <2>1, <2>2 DEF AppInv, HandlesHeld
<1>17. ASSUME OwnInv PROVE OwnInv'
  <2>1. ASSUME nat_table_hdl # 0, NEW j \in Slots, cache'[j].enabled, Settled(j)'
        PROVE  /\ InUse(cache'[j].rule_hdl) /\ RuleOfHandle(cache'[j].rule_hdl) = cache'[j].rule
    <3>1. CASE j # k
      <4>1. Settled(j)
        <5>1. k \in Nat /\ j \in Nat
          BY Sizes
        <5> QED BY <1>1, <1>8, <1>9, <2>1, <3>1, <5>1 DEF Settled
      <4> QED BY <1>1, <1>5, <1>17, <2>1, <3>1, <4>1 DEF OwnInv
    <3>2. CASE j = k
      <4>1. AddsRules /\ op.ret # 0
        BY <1>3, <1>4, <1>5, <1>17, <2>1, <3>2 DEF OwnInv
      <4>2. InUse(op.ret) /\ RuleOfHandle(op.ret) = Wanted
        BY <1>3, <4>1 DEF AppInv, ResultFits
      <4> QED BY <1>4, <1>5, <3>2, <4>1, <4>2
    <3> QED BY <3>1, <3>2
  <2>2. ASSUME nat_table_hdl # 0, NEW j \in Slots, cache'[j].enabled, Settled(j)'
        PROVE  (InUse(cache[j].rule_hdl) /\ RuleOfHandle(cache[j].rule_hdl) = cache[j].rule)'
    BY <1>3, <2>1, <2>2 DEF InUse, RuleOfHandle, ruleTable
  <2>3. ASSUME nat_table_hdl = 0, NEW j \in Slots, cache'[j].enabled PROVE pub_ip_addr_pre \in WanIps
    <3>1. CASE AddsRules /\ j = k
      <4>1. InUse(op.ret) /\ op.ret \in Handles
        BY <1>3, <1>4, <1>5, <2>3, <3>1 DEF AppInv, ResultFits, InUse
      <4> QED BY <2>3, <4>1 DEF AppInv, TableFits
    <3>2. CASE ~AddsRules \/ j # k
      <4>1. cache[j].enabled
        BY <1>4, <1>5, <2>3, <3>2
      <4> QED BY <1>17, <2>3, <4>1 DEF OwnInv
    <3> QED BY <3>1, <3>2
  <2> QED BY <1>3, <1>6, <2>2, <2>3 DEF OwnInv
<1> QED BY <1>7, <1>9, <1>10, <1>11, <1>12, <1>14, <1>16, <1>17 DEF AppInv

-----------------------------------------------------------------------------
(* A slot is freed without a call, the walk ends, the driver works.         *)
LEMMA UncacheKept ==
  ASSUME AppInv, Uncache
  PROVE  AppInv' /\ (OwnInv => OwnInv')
<1>1. PICK k \in Slots : k = Least(DueSlots) /\ Due(k)
  BY DueFound DEF Uncache
<1>2. /\ ~Quiet /\ op = Idle /\ ~Adds /\ ~cache[k].enabled
      /\ cache' = [cache EXCEPT ![k] = Free] /\ job' = [job EXCEPT !.cnt = NextSlot(k)]
      /\ UNCHANGED <<natVars, temp, pub, clients, wan>>
  BY <1>1 DEF Uncache, NeedsDriver
<1>3. UNCHANGED <<pub_ip_addr, pub_ip_addr_pre, nat_table_hdl, PwrSaveIfs, nat_iface_ipv4_addr, power_save_set,
                  WanUp, wan_ipaddr, temp, ruleTable, indexTable, rule_id_array, cmd, op>>
  BY <1>2 DEF pub, clients, wan, natVars
<1>4. /\ Free \in SlotType /\ Free.rule = NoRule /\ Free.enabled = FALSE
      /\ cache \in [Slots -> SlotType]
  BY Types DEF Free, SlotType, AppInv
<1>5. cache' \in [Slots -> SlotType] /\ cache'[k] = Free /\ \A j \in Slots : j # k => cache'[j] = cache[j]
  BY <1>2, <1>4
<1>6. job.fn \notin {"AddTable", "AddEntry"} /\ NextSlot(k) \in 1 .. max_entries + 1
  BY <1>1, <1>2, DueFacts, Sizes DEF NextSlot, Adds
<1>7. /\ JobTypeOK' /\ job'.cnt = NextSlot(k) /\ job'.cnt \in 0 .. max_entries + 1
      /\ job'.fn = job.fn /\ job'.arg = job.arg
  BY <1>2, <1>3, <1>6, JobMoves
<1>8. ~Running /\ ~Running' /\ ~Busy /\ ~Busy' /\ op'.fn = "none" /\ DriverInv
  BY <1>2, <1>3 DEF Running, Busy, Idle, AppInv
<1>9. DriverInv' /\ NatTypeOK'
  BY <1>2, <1>3, <1>8, TablesKept DEF DriverInv
<1>10. TypeOK'
  BY <1>3, <1>5, <1>7, <1>9 DEF AppInv, TypeOK, SlotType
<1>11. JobFits' /\ ResultFits'
  BY <1>6, <1>7, <1>8 DEF JobFits, ResultFits
<1>12. CacheFits'
  BY <1>4, <1>5 DEF AppInv, CacheFits
<1>13. \A h : (InUse(h)' <=> InUse(h)) /\ RuleOfHandle(h)' = RuleOfHandle(h)
  BY <1>3, SameHandles
<1>14. TableFits'
  BY <1>3, <1>13 DEF AppInv, TableFits
<1>15. \A j : Settled(j) /\ Settled(j)'
  BY <1>6, <1>7 DEF Settled
<1>16. HandlesHeld'
  <2>1. \A h \in Handles : InUse(h) => \E j \in Slots : cache[j].enabled /\ cache[j].rule_hdl = h
    BY <1>2 DEF AppInv, HandlesHeld, Idle
  <2> QED BY <1>2, <1>5, <1>13, <1>15, <2>1 DEF HandlesHeld
<1>17. ASSUME OwnInv PROVE OwnInv'
  <2>1. ASSUME NEW j \in Slots, cache'[j].enabled PROVE cache'[j] = cache[j] /\ cache[j].enabled
    BY <1>4, <1>5, <2>1
  <2>2. ASSUME nat_table_hdl # 0, NEW j \in Slots, cache'[j].enabled
        PROVE  (InUse(cache[j].rule_hdl) /\ RuleOfHandle(cache[j].rule_hdl) = cache[j].rule)'
    <3>1. InUse(cache[j].rule_hdl) /\ RuleOfHandle(cache[j].rule_hdl) = cache[j].rule
      BY <1>8, <1>15, <1>17, <2>1, <2>2 DEF OwnInv
    <3> QED BY <1>3, <2>1, <2>2, <3>1 DEF InUse, RuleOfHandle, ruleTable
  <2> QED BY <1>3, <1>8, <1>17, <2>1, <2>2 DEF OwnInv
<1> QED BY <1>7, <1>9, <1>10, <1>11, <1>12, <1>14, <1>16, <1>17 DEF AppInv

LEMMA EndJobKept ==
  ASSUME AppInv, EndJob
  PROVE  AppInv' /\ (OwnInv => OwnInv')
<1>1. /\ ~Quiet /\ op = Idle /\ DueSlots = {} /\ job' = NoJob
      /\ UNCHANGED <<natVars, cache, temp, pub, clients, wan>>
  BY DEF EndJob
<1>2. UNCHANGED <<pub_ip_addr, pub_ip_addr_pre, nat_table_hdl, PwrSaveIfs, nat_iface_ipv4_addr, power_save_set,
                  WanUp, wan_ipaddr, cache, temp, ruleTable, indexTable, rule_id_array, cmd, op>>
  BY <1>1 DEF pub, clients, wan, natVars
<1>3. ~Running /\ ~Running' /\ ~Busy /\ ~Busy' /\ op'.fn = "none" /\ op.fn = "none" /\ DriverInv
  BY <1>1, <1>2 DEF Running, Busy, Idle, AppInv
<1>4. DriverInv' /\ NatTypeOK'
  BY <1>1, <1>2, <1>3, TablesKept DEF DriverInv
<1>5. JobTypeOK' /\ job'.fn = "none" /\ job'.cnt \in 0 .. max_entries + 1
  <2>1. 0 \in 0 .. max_entries + 1
    BY Sizes
  <2> QED BY <1>1, <1>2, <2>1 DEF JobTypeOK, NoJob, Job
<1>6. TypeOK'
  BY <1>2, <1>4, <1>5 DEF AppInv, TypeOK
<1>7. JobFits' /\ ResultFits'
  BY <1>3, <1>5 DEF JobFits, ResultFits
<1>8. \A h : (InUse(h)' <=> InUse(h)) /\ RuleOfHandle(h)' = RuleOfHandle(h)
  BY <1>2, SameHandles
<1>9. CacheFits' /\ TableFits'
  BY <1>2, <1>8 DEF AppInv, TableFits, CacheFits
<1>10. \A j : Settled(j)'
  BY <1>5 DEF Settled
<1>11. HandlesHeld'
  BY <1>2, <1>3, <1>8, <1>10 DEF AppInv, HandlesHeld
<1>12. ASSUME OwnInv PROVE OwnInv'
  <2>1. ASSUME nat_table_hdl # 0, NEW j \in Slots, cache[j].enabled
        PROVE  InUse(cache[j].rule_hdl) /\ RuleOfHandle(cache[j].rule_hdl) = cache[j].rule
    <3>1. Settled(j)
      <4>1. SUFFICES ASSUME job.fn = "AddTable", ~(j < job.cnt) PROVE FALSE
        BY DEF Settled
      <4>2. job.cnt \in Nat /\ j \in Nat /\ j >= job.cnt
        BY <1>1, <4>1, JobTypes, Sizes DEF AppInv
      <4>3. Due(j)
        BY <2>1, <4>1 DEF Due, AppInv, CacheFits
      <4> QED BY <1>1, <4>2, <4>3 DEF DueSlots
    <3> QED BY <1>3, <1>12, <2>1, <3>1 DEF OwnInv
  <2>2. ASSUME nat_table_hdl # 0, NEW j \in Slots, cache[j].enabled
        PROVE  (InUse(cache[j].rule_hdl) /\ RuleOfHandle(cache[j].rule_hdl) = cache[j].rule)'
    BY <1>2, <2>1, <2>2 DEF InUse, RuleOfHandle, ruleTable
  <2> QED BY <1>2, <1>3, <1>12, <2>2 DEF OwnInv
<1> QED BY <1>4, <1>5, <1>6, <1>7, <1>9, <1>11, <1>12 DEF AppInv

LEMMA DriverWorks ==
  ASSUME AppInv, DriverStep, UNCHANGED appVars
  PROVE  AppInv' /\ (OwnInv => OwnInv')
<1>1. UNCHANGED <<pub_ip_addr, pub_ip_addr_pre, nat_table_hdl, PwrSaveIfs, nat_iface_ipv4_addr, power_save_set,
                  WanUp, wan_ipaddr, cache, temp, job>>
  BY DEF appVars, pub, clients, wan
<1>2. DriverInv /\ DriverInv' /\ NatTypeOK'
  BY DriverStepKept DEF AppInv, DriverInv
<1>3. TypeOK'
  BY <1>1, <1>2 DEF AppInv, TypeOK
<1>4. op # Idle /\ op.fn \in {"add", "del"} /\ Running /\ Busy
  BY DEF DriverStep, Write, AddReturns, DelReturns, Running, Idle, Busy
<1>5. ~Quiet /\ job.cnt \in Slots /\ nat_table_hdl # 0
  BY <1>4, Quieted DEF AppInv, JobFits
<1>6. JobTypeOK' /\ CacheFits' /\ (AddsRules' <=> AddsRules) /\ Wanted' = Wanted /\ (Adds' <=> Adds)
      /\ \A j : Settled(j)' <=> Settled(j)
  BY <1>1, <1>5 DEF AppInv, JobTypeOK, CacheFits, AddsRules, Adds, Wanted, Settled, Quiet
<1>7. TableFits'
  BY <1>1, <1>5 DEF AppInv, TableFits
<1>8. \A h \in Handles : InUse(h) => \E j \in Slots : Settled(j) /\ cache[j].enabled /\ cache[j].rule_hdl = h
  BY <1>4 DEF AppInv, HandlesHeld
<1>9. CASE Write
  <2>1. /\ rule_id_array' = rule_id_array /\ op' = op
        /\ op.fn = "add" => rule' = rule
        /\ \A h : ~BeingDeleted(h) => Alone(h)
    BY <1>2, <1>9, WriteHandles
  <2>2. \A h : InUse(h)' <=> InUse(h)
    BY <2>1 DEF InUse
  <2>3. JobFits'
    <3>1. ChkForDup(job.arg)' <=> ChkForDup(job.arg)
      BY <1>1 DEF ChkForDup
    <3> QED BY <1>1, <1>5, <1>6, <2>1, <3>1 DEF AppInv, JobFits, Busy
  <2>4. ResultFits'
    BY <1>4, <1>6, <2>1 DEF AppInv, ResultFits
  <2>5. HandlesHeld'
    BY <1>1, <1>6, <1>8, <2>2 DEF HandlesHeld
  <2>6. ASSUME OwnInv PROVE OwnInv'
    <3>1. ASSUME NEW j \in Slots, cache[j].enabled, Settled(j), ~(~AddsRules /\ j = job.cnt)
          PROVE  (InUse(cache[j].rule_hdl) /\ RuleOfHandle(cache[j].rule_hdl) = cache[j].rule)'
      <4>1. PICK h : h = cache[j].rule_hdl
        OBVIOUS
      <4>2. InUse(h) /\ RuleOfHandle(h) = cache[j].rule
        BY <1>5, <2>6, <3>1, <4>1 DEF OwnInv
      <4>3. ~BeingDeleted(h)
        BY <2>6, <3>1, <4>1 DEF OwnInv, BeingDeleted, AppInv, JobFits
      <4>4. InUse(h)' /\ RuleOfHandle(h)' = RuleOfHandle(h)
        BY <2>1, <4>2, <4>3 DEF Alone
      <4> QED BY <1>1, <4>1, <4>2, <4>4 DEF InUse, RuleOfHandle
    <3> QED BY <1>1, <1>4, <1>5, <1>6, <2>1, <2>6, <3>1 DEF OwnInv, Busy
  <2> QED BY <1>2, <1>3, <1>6, <1>7, <2>3, <2>4, <2>5, <2>6 DEF AppInv
<1>10. CASE AddReturns
  <2>1. PICK g \in Handles :
            /\ op' = [fn |-> "done", ret |-> g] /\ g # 0 /\ InUse(g)' /\ RuleOfHandle(g)' = rule[op.entry]
            /\ \A h : Alone(h) /\ (InUse(h)' => InUse(h) \/ h = g)
    BY <1>2, <1>10, AddReturnsHandles
  <2>2. op.fn = "add" /\ AddsRules /\ rule[op.entry] = Wanted
    BY <1>10 DEF AddReturns, AppInv, JobFits, ResultFits
  <2>3. op'.fn = "done" /\ op'.ret = g /\ ~Running'
    BY <2>1 DEF Running
  <2>4. JobFits'
    <3>1. (ChkForDup(job.arg)' <=> ChkForDup(job.arg)) /\ Busy'
      BY <1>1, <2>3 DEF ChkForDup, Busy, Idle
    <3> QED BY <1>1, <1>4, <1>6, <2>2, <2>3, <3>1 DEF AppInv, JobFits
  <2>5. ResultFits'
    <3>1. (InUse(op.ret) /\ RuleOfHandle(op.ret) = Wanted)'
      BY <1>6, <2>1, <2>2, <2>3 DEF InUse, RuleOfHandle
    <3> QED BY <1>6, <2>2, <2>3, <3>1 DEF ResultFits
  <2>6. HandlesHeld'
    BY <1>1, <1>6, <1>8, <2>1, <2>2, <2>3 DEF HandlesHeld
  <2>7. ASSUME OwnInv PROVE OwnInv'
    <3>1. ASSUME NEW j \in Slots, cache[j].enabled, Settled(j)
          PROVE  (InUse(cache[j].rule_hdl) /\ RuleOfHandle(cache[j].rule_hdl) = cache[j].rule)'
      <4>1. PICK h : h = cache[j].rule_hdl
        OBVIOUS
      <4>2. InUse(h) /\ RuleOfHandle(h) = cache[j].rule
        BY <1>5, <2>2, <2>7, <3>1, <4>1 DEF OwnInv
      <4>3. InUse(h)' /\ RuleOfHandle(h)' = RuleOfHandle(h)
        BY <2>1, <4>2 DEF Alone
      <4> QED BY <1>1, <4>1, <4>2, <4>3 DEF InUse, RuleOfHandle
    <3> QED BY <1>1, <1>5, <1>6, <2>2, <2>3, <2>7, <3>1 DEF OwnInv
  <2> QED BY <1>2, <1>3, <1>6, <1>7, <2>4, <2>5, <2>6, <2>7 DEF AppInv
<1>11. CASE DelReturns
  <2>1. PICK g \in Handles :
            /\ op.fn = "del" /\ op.hdl = g /\ op' = [fn |-> "done", ret |-> g] /\ g # 0 /\ ~InUse(g)'
            /\ \A h : (h # g => Alone(h)) /\ (InUse(h)' => InUse(h))
    BY <1>2, <1>11, DelReturnsHandles
  <2>2. ~AddsRules /\ g = cache[job.cnt].rule_hdl
    BY <2>1 DEF AppInv, JobFits
  <2>3. op'.fn = "done" /\ op'.ret = g /\ ~Running'
    BY <2>1 DEF Running
  <2>4. JobFits'
    <3>1. (ChkForDup(job.arg)' <=> ChkForDup(job.arg)) /\ Busy'
      BY <1>1, <2>3 DEF ChkForDup, Busy, Idle
    <3> QED BY <1>1, <1>4, <1>6, <2>2, <2>3, <3>1 DEF AppInv, JobFits
  <2>5. ResultFits'
    <3>1. ~(InUse(cache[job.cnt].rule_hdl))'
      BY <1>1, <2>1, <2>2 DEF InUse
    <3> QED BY <1>6, <2>2, <2>3, <3>1 DEF ResultFits
  <2>6. HandlesHeld'
    BY <1>1, <1>6, <1>8, <2>1, <2>2 DEF HandlesHeld
  <2>7. ASSUME OwnInv PROVE OwnInv'
    <3>1. ASSUME NEW j \in Slots, cache[j].enabled, Settled(j), j # job.cnt
          PROVE  (InUse(cache[j].rule_hdl) /\ RuleOfHandle(cache[j].rule_hdl) = cache[j].rule)'
      <4>1. PICK h : h = cache[j].rule_hdl
        OBVIOUS
      <4>2. InUse(h) /\ RuleOfHandle(h) = cache[j].rule
        BY <1>5, <2>7, <3>1, <4>1 DEF OwnInv
      <4>3. h # g
        BY <2>1, <2>7, <3>1, <4>1 DEF OwnInv
      <4>4. InUse(h)' /\ RuleOfHandle(h)' = RuleOfHandle(h)
        BY <2>1, <4>2, <4>3 DEF Alone
      <4> QED BY <1>1, <4>1, <4>2, <4>4 DEF InUse, RuleOfHandle
    <3>2. Busy'
      BY <2>3 DEF Busy, Idle
    <3> QED BY <1>1, <1>5, <1>6, <2>1, <2>2, <2>3, <2>7, <3>1, <3>2 DEF OwnInv
  <2> QED BY <1>2, <1>3, <1>6, <1>7, <2>4, <2>5, <2>6, <2>7 DEF AppInv
<1> QED BY <1>9, <1>10, <1>11 DEF DriverStep

-----------------------------------------------------------------------------
(* Every step keeps the invariant, and with one public address the handles. *)
LEMMA EventKept ==
  ASSUME AppInv, Event
  PROVE  AppInv' /\ (OwnInv /\ OneAddress => OwnInv')
<1>1. ASSUME NEW w \in WanIps, TriggerWANUp(w) PROVE AppInv' /\ (OwnInv /\ OneAddress => OwnInv')
  BY <1>1, WanUpKept, WanUpOwn
<1>2. ASSUME NEW r \in Rules, NewConnection(r) \/ DestroyConnection(r) PROVE AppInv' /\ (OwnInv => OwnInv')
  BY <1>2, NewConnectionKept, DestroyKept
<1>3. ASSUME NEW c \in Clients, \/ HandleNeighIpAddrAddEvt(c) \/ HandleNeighIpAddrDelEvt(c)
                                \/ UpdatePwrSaveIf(c) \/ ResetPwrSaveIf(c)
      PROVE  AppInv' /\ (OwnInv => OwnInv')
  BY <1>3, NeighAddKept, NeighDelKept, PwrSaveKept
<1> QED BY <1>1, <1>2, <1>3, WanDownKept, STAClientKept DEF Event

LEMMA WorkKept ==
  ASSUME AppInv, Work
  PROVE  AppInv' /\ (OwnInv => OwnInv')
BY VisitKept, ReturnedKept, UncacheKept, EndJobKept, DriverWorks DEF Work

LEMMA StutterKept ==
  ASSUME AppInv, UNCHANGED vars
  PROVE  AppInv'
<1>1. UNCHANGED <<pub_ip_addr, pub_ip_addr_pre, nat_table_hdl, PwrSaveIfs, nat_iface_ipv4_addr, power_save_set,
                  WanUp, wan_ipaddr, cache, temp, job>>
  BY DEF vars, appVars, pub, clients, wan
<1>2. UNCHANGED <<rule, enable, next_index, prev_index, indx_tbl_entry, tbl_entry, index_next, meta_prev,
                  rule_id_array, cmd, op>>
  BY DEF vars, natVars, ruleTable, indexTable
<1>3. NatTypeOK' /\ OpTypeOK' /\ HandlesFit'
  BY <1>2 DEF AppInv, DriverInv, NatTypeOK, OpTypeOK, HandlesFit, BeingDeleted, EnabledEntries, Running
<1>4. (~Running => NoneRuns)'
  BY <1>2 DEF AppInv, DriverInv, Running, NoneRuns, EnabledEntries, NamedEntries
<1>5. (Adding => OneIsAdded)'
  BY <1>2 DEF AppInv, DriverInv, Adding, OneIsAdded, NewRuleFits, NewIndexFits, AddStage, EnabledEntries,
     NamedEntries, NewIndex, RuleBefore, IndexBefore, LinkRule, NameRule, LinkIndex, EnableRule, RuleLinked,
     IndexLinked, IndexNamed
<1>6. (Deleting => OneIsDeleted)'
  BY ZenonT(40), <1>2 DEF AppInv, DriverInv, Deleting, OneIsDeleted, NothingDeleted, HeadOverwritten, IndexDeleted, RuleDeleted,
     EnabledEntries, NamedEntries, IndexAfter, IndexNextAfter, NamesAfter, DelRule, IndexTold, RulesWhole, EmptiedNow,
     RulesAfter, NextAfter, FreedIndex, MetaAfterDelete, DelRuleCommand, DelIndexCommands, Emptied, PrevAfterDelete
<1>7. DriverInv' /\ TypeOK'
  BY <1>1, <1>3, <1>4, <1>5, <1>6 DEF DriverInv, AppInv, TypeOK
<1>8. JobTypeOK' /\ JobFits' /\ ResultFits' /\ CacheFits' /\ TableFits' /\ HandlesHeld'
  BY <1>1, <1>2 DEF AppInv, JobTypeOK, JobFits, ResultFits, CacheFits, TableFits, HandlesHeld, InUse, RuleOfHandle,
     Settled, Busy, Running, AddsRules, Adds, Wanted, ChkForDup
<1> QED BY <1>7, <1>8 DEF AppInv

(* The inductive invariant of cache, jobs and driver.                       *)
LEMMA AppInvariant == Spec => []AppInv
<1>1. Init => AppInv
  BY InitAppInv
<1>2. AppInv /\ [Next]_vars => AppInv'
  <2>1. AppInv /\ Next => AppInv'
    BY EventKept, WorkKept DEF Next
  <2>2. AppInv /\ UNCHANGED vars => AppInv'
    BY StutterKept
  <2> QED BY <2>1, <2>2
<1> QED BY <1>1, <1>2, PTL DEF Spec

-----------------------------------------------------------------------------
(* Every variable keeps its type: no event, no slot of a walk and no write  *)
(* of the driver takes an index or a handle out of its table.               *)
THEOREM NatAppTypes == Spec => []TypeOK
<1>1. AppInv => TypeOK
  BY DEF AppInv
<1> QED BY <1>1, AppInvariant, PTL

(* A rule whose handle was given out, and that is not being deleted, is     *)
(* found by the hardware in both directions after every single write of the *)
(* driver, for every shape of the two chains it is in.                      *)
THEOREM HeldRulesStayReachable == Spec => []RuleInHandReachable
<1>1. AppInv => RuleInHandReachable
  BY DriverReaches DEF AppInv
<1> QED BY <1>1, AppInvariant, PTL

(* Between two operations of the driver the chains can be walked backwards  *)
(* as forwards, and a rule and its entry of the index table name each other.*)
THEOREM ListsAlwaysMatch == Spec => []ListsMatch
<1>1. AppInv => ListsMatch
  BY DriverListsMatch DEF AppInv
<1> QED BY <1>1, AppInvariant, PTL

(* Nothing of a client in the power save list is added to the table, by no  *)
(* event and in no walk but that of the restoring AddTable.                 *)
THEOREM SleepersAreNotAdded == Spec => []AsleepNotAdded
<1>1. ASSUME AppInv PROVE AsleepNotAdded
  <2> SUFFICES ASSUME op.fn = "add", job.fn # "AddTable"
               PROVE  private_ip[rule[op.entry]] \notin PwrSaveIfs
    BY DEF AsleepNotAdded
  <2>1. Busy /\ job.cnt \in Slots /\ AddsRules /\ rule[op.entry] = Wanted
    BY <1>1 DEF AppInv, JobFits, ResultFits, Busy, Idle
  <2>2. CASE job.fn = "AddEntry"
    BY <1>1, <2>1, <2>2 DEF AppInv, JobFits, Wanted
  <2>3. CASE job.fn = "ResetPwrSaveIf"
    <3>1. job.arg \notin PwrSaveIfs
      BY <1>1, <2>3, JobTypes DEF AppInv, Quiet, NoJob
    <3> QED BY <1>1, <2>1, <2>3, <3>1 DEF AppInv, JobFits, Wanted
  <2> QED BY <2>1, <2>2, <2>3 DEF AddsRules, Adds
<1> QED BY <1>1, AppInvariant, PTL

(* Between two events every rule of the table is one that the cache has     *)
(* enabled and knows the handle of: whatever was opened, closed, put to     *)
(* sleep, woken, lost with the uplink and restored, and whichever calls the *)
(* driver refused, no rule is left that nothing can delete any more.        *)
THEOREM NoRuleLeaks == Spec => []NoLeakedRule
<1>1. ASSUME AppInv PROVE NoLeakedRule
  <2> SUFFICES ASSUME Quiet, NEW h \in Handles, InUse(h)
               PROVE  \E k \in Slots : cache[k].enabled /\ cache[k].rule_hdl = h
    BY DEF NoLeakedRule, InUse
  <2>1. op.fn # "done"
    BY <1>1, Quieted DEF Idle
  <2> QED BY <1>1, <2>1 DEF AppInv, HandlesHeld
<1> QED BY <1>1, AppInvariant, PTL

-----------------------------------------------------------------------------
(* While the uplink is given one address only, restoring the table restores *)
(* every rule the cache has enabled, and the handle of each names that rule *)
(* and no other.  (With two addresses it does not: handles of the table     *)
(* that was dropped stay in the cache, and are taken for those of the new.) *)
LEMMA StutterOwn ==
  ASSUME OwnInv, UNCHANGED vars
  PROVE  OwnInv'
<1>1. UNCHANGED <<pub_ip_addr_pre, nat_table_hdl, cache, job, rule, rule_id_array, op>>
  BY DEF vars, appVars, pub, natVars, ruleTable
<1> QED BY <1>1 DEF OwnInv, InUse, RuleOfHandle, Settled, Busy, AddsRules, Adds

THEOREM HandlesStayOwn ==
  ASSUME OneAddress
  PROVE  Spec => []HandlesAreOwn
<1>1. Init => OwnInv
  BY InitAppInv
<1>2. AppInv /\ OwnInv /\ [Next]_vars => OwnInv'
  BY EventKept, WorkKept, StutterOwn DEF Next
<1>3. AppInv /\ OwnInv => HandlesAreOwn
  <2> SUFFICES ASSUME AppInv, OwnInv, Quiet, nat_table_hdl # 0, NEW k \in Slots, cache[k].enabled
               PROVE  RuleOfHandle(cache[k].rule_hdl) = cache[k].rule
    BY DEF HandlesAreOwn
  <2>1. ~Busy /\ Settled(k)
    BY Quieted DEF Settled, Quiet, NoJob
  <2> QED BY <2>1 DEF OwnInv
<1> QED BY <1>1, <1>2, <1>3, AppInvariant, PTL DEF Spec

-----------------------------------------------------------------------------
(* The cache over the driver is the table of NatTable: what the hardware    *)
(* finds changes by one connection at a time, in both directions at once    *)
(* when it appears, first in what it sends when it goes.                    *)
TableMoves ==
    \/ SeenAlike
    \/ \E r \in Rules : Inserted(r) \/ StoppedSending(r) \/ StoppedReceiving(r)
    \/ Sent = Received /\ Sent' = {} /\ Received' = {}

LEMMA RestMoves ==
  ASSUME ~Running, ~Running', UNCHANGED <<ruleTable, indexTable>>
  PROVE  TableMoves
BY RestSeen DEF TableMoves

LEMMA EventMoves ==
  ASSUME AppInv, Event
  PROVE  TableMoves
<1>1. Quiet
  BY DEF Event, TriggerWANUp, TriggerWANDown, NewConnection, DestroyConnection, HandleNeighIpAddrAddEvt,
     HandleNeighIpAddrDelEvt, UpdatePwrSaveIf, ResetPwrSaveIf, HandleSTAClientDelEvt
<1>2. op = Idle /\ ~Running /\ DriverInv
  BY <1>1, Quieted DEF AppInv
<1>3. CASE UNCHANGED natVars
  <2>1. op' = op /\ UNCHANGED <<ruleTable, indexTable>>
    BY <1>3 DEF natVars
  <2> QED BY <1>2, <2>1, RestMoves DEF Running
<1>4. CASE ipa_nati_reset_tbl
  BY <1>2, <1>4, ResetSeen DEF TableMoves
<1>5. ASSUME NEW r \in Rules, add_ipv4_rule(r) PROVE TableMoves
  BY <1>2, <1>5, AddBeginsSeen DEF TableMoves
<1>6. \/ UNCHANGED natVars \/ ipa_nati_reset_tbl \/ \E r \in Rules : add_ipv4_rule(r)
  BY DEF Event, TriggerWANUp, TriggerWANDown, NewConnection, AddEntry, DestroyConnection, HandleNeighIpAddrAddEvt,
     HandleNeighIpAddrDelEvt, UpdatePwrSaveIf, ResetPwrSaveIf, HandleSTAClientDelEvt
<1> QED BY <1>3, <1>4, <1>5, <1>6

LEMMA WorkMoves ==
  ASSUME AppInv, Work
  PROVE  TableMoves
<1>0. DriverInv
  BY DEF AppInv
<1>1. CASE Visit
  <2>1. PICK k \in Slots : Due(k) /\ CallDriver(k) /\ op = Idle /\ ~Quiet
    BY <1>1, DueFound DEF Visit
  <2>2. CASE nat_table_hdl = 0
    <3>1. op' = [fn |-> "done", ret |-> 0] /\ UNCHANGED <<ruleTable, indexTable>>
      BY <2>1, <2>2 DEF CallDriver
    <3> QED BY <2>1, <3>1, RestMoves DEF Running, Idle
  <2>3. CASE nat_table_hdl # 0 /\ Adds
    <3>1. add_ipv4_rule(cache[k].rule) /\ cache[k].rule \in Rules
      BY <2>1, <2>3, DueFacts DEF CallDriver
    <3> QED BY <1>0, <2>1, <3>1, AddBeginsSeen DEF TableMoves
  <2>4. CASE nat_table_hdl # 0 /\ ~Adds
    <3>1. PICK h : h = cache[k].rule_hdl
      OBVIOUS
    <3>2. del_ipv4_rule(h)
      BY <2>1, <2>4, <3>1 DEF CallDriver
    <3> QED BY <1>0, <2>1, <3>2, DelBeginsSeen DEF TableMoves
  <2> QED BY <2>2, <2>3, <2>4
<1>2. CASE Returned
  <2>1. op.fn = "done" /\ op' = Idle /\ UNCHANGED <<ruleTable, indexTable>>
    BY <1>2 DEF Returned
  <2> QED BY <2>1, RestMoves DEF Running, Idle
<1>3. CASE Uncache \/ EndJob
  <2>1. op = Idle /\ op' = op /\ UNCHANGED <<ruleTable, indexTable>>
    BY <1>3 DEF Uncache, EndJob, natVars
  <2> QED BY <2>1, RestMoves DEF Running, Idle
<1>4. CASE DriverStep
  BY <1>0, <1>4, DriverStepSeen DEF TableMoves
<1> QED BY <1>1, <1>2, <1>3, <1>4 DEF Work

LEMMA HitsSeen ==
  DriverInv => {r \in Rules : UplinkHits(r)} = Sent /\ {r \in Rules : DownlinkHits(r)} = Received
BY HitsAreHeld DEF Sent, Received

(* The cache, the driver and its single writes implement NatTable.          *)
THEOREM CacheIsTable == Spec => RefinesTable
<1>1. Init => Table!Init
  <2> SUFFICES ASSUME Init PROVE Table!Init
    OBVIOUS
  <2>1. DriverInv /\ EnabledEntries = {}
    BY InitAppInv DEF AppInv, Init, NatInit, EnabledEntries
  <2>2. HeldIn(Sending) = {} /\ HeldIn(Receiving) = {}
    BY <2>1 DEF HeldIn, Sending, Receiving
  <2> QED BY <2>1, <2>2, HitsAreHeld DEF Table!Init
<1>2. AppInv /\ AppInv' /\ [Next]_vars =>
        [Table!Next]_<<{r \in Rules : UplinkHits(r)}, {r \in Rules : DownlinkHits(r)}>>
  <2> SUFFICES ASSUME AppInv, AppInv', [Next]_vars
               PROVE  [Table!Next]_<<{r \in Rules : UplinkHits(r)}, {r \in Rules : DownlinkHits(r)}>>
    OBVIOUS
  <2>1. {r \in Rules : UplinkHits(r)} = Sent /\ {r \in Rules : DownlinkHits(r)} = Received
    BY HitsSeen DEF AppInv
  <2>2. DriverInv'
    BY DEF AppInv
  <2>3. ({r \in Rules : UplinkHits(r)} = Sent /\ {r \in Rules : DownlinkHits(r)} = Received)'
    BY <2>2, HitsSeen, PTL
  <2>4. TableMoves
    <3>1. CASE UNCHANGED vars
      <4>1. UNCHANGED <<rule, enable, cmd, op>>
        BY <3>1 DEF vars, natVars, ruleTable
      <4>2. SeenAlike
        BY <4>1 DEF SeenAlike, Sent, Received, HeldIn, Sending, Receiving, EnabledEntries, Deleting, Untouched
      <4> QED BY <4>2 DEF TableMoves
    <3> QED BY <3>1, EventMoves, WorkMoves DEF Next
  <2>5. CASE SeenAlike
    BY <2>1, <2>3, <2>5 DEF SeenAlike
  <2>6. CASE \E r \in Rules : Inserted(r) \/ StoppedSending(r) \/ StoppedReceiving(r)
    BY <2>1, <2>3, <2>6 DEF Inserted, StoppedSending, StoppedReceiving, Table!Next, Table!Insert,
       Table!StopSending, Table!StopReceiving
  <2>7. CASE Sent = Received /\ Sent' = {} /\ Received' = {}
    BY <2>1, <2>3, <2>7 DEF Table!Next, Table!Drop
  <2> QED BY <2>4, <2>5, <2>6, <2>7 DEF TableMoves
<1> QED BY <1>1, <1>2, AppInvariant, PTL DEF Spec, RefinesTable, Table!Spec
=============================================================================
