--------------------------- MODULE PlanIntegrity ---------------------------
(***************************************************************************)
(* The selection of statements of a comparison (plan_integrity.py).        *)
(*                                                                         *)
(* A plan is [items, of, needs, creates]: its statements, numbered in the  *)
(* order they run in; the group (op_group) of each; the groups each group  *)
(* needs before it; and the new object of each, or 0.  A group is the      *)
(* statements of one change, a DROP and a CREATE say.                      *)
(***************************************************************************)
EXTENDS Naturals, FiniteSets

\* groups_of
GroupsOf(plan, items) == {plan.of[i] : i \in items}
Groups(plan) == GroupsOf(plan, plan.items)
ItemsOf(plan, groups) == {i \in plan.items : plan.of[i] \in groups}
\* what a group needs and this plan brings: the rest is in the target already
Needs(plan, groups) == (UNION {plan.needs[g] : g \in groups}) \cap Groups(plan)

\* expand_selection: whole groups, and all they need
Expand(plan, chosen) ==
  LET grow[groups \in SUBSET Groups(plan)] ==
        IF Needs(plan, groups) \subseteq groups THEN groups
        ELSE grow[groups \cup Needs(plan, groups)]
  IN  ItemsOf(plan, grow[GroupsOf(plan, chosen)])

(* Mutant: whole changes are asked for, and not what they need.             *)
ClosedGroups(plan, chosen) == ItemsOf(plan, GroupsOf(plan, chosen)) \subseteq chosen

\* check_closure finds nothing missing
Closed(plan, chosen) ==
  LET groups == GroupsOf(plan, chosen) IN
  ItemsOf(plan, groups) \subseteq chosen /\ Needs(plan, groups) \subseteq groups

(* Mutant: what needs a group that was taken out by the filter goes, and   *)
(* not what needs that.                                                    *)
PruneOnce(plan, allowed) ==
  LET groups == GroupsOf(plan, allowed) IN
  ItemsOf(plan, {g \in groups : Needs(plan, {g}) \subseteq groups})

\* prune_unsatisfied: what lost something it needs goes, and what needs that
Prune(plan, allowed) ==
  LET shrink[groups \in SUBSET Groups(plan)] ==
        LET kept == {g \in groups : Needs(plan, {g}) \subseteq groups} IN
        IF kept = groups THEN groups ELSE shrink[kept]
  IN  ItemsOf(plan, shrink[GroupsOf(plan, allowed)])

\* validate_statement_plan finds nothing that blocks: a base after what stands on it,
\* a group torn apart, two groups that create one object
Sane(plan, chosen) ==
  \A i, j \in chosen :
    /\ plan.of[j] \in plan.needs[plan.of[i]] => j <= i
    /\ plan.of[i] = plan.of[j] =>
         \A k \in chosen : i < k /\ k < j => plan.of[k] = plan.of[i]
    /\ plan.creates[i] = plan.creates[j] /\ plan.creates[i] # 0 => plan.of[i] = plan.of[j]
=============================================================================
