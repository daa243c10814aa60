----------------------------- MODULE ProcessTable -----------------------------
(***************************************************************************)
(* How the two process pages arrange a snapshot.  Details builds a tree    *)
(* from parent PIDs (rebuild_details_model, append_process_recursive in    *)
(* src/details_page.c); the PIDs were read one after the other, so they    *)
(* may name no process, the process itself, or run in circles.  Processes  *)
(* collects groups into records it keeps from one snapshot to the next     *)
(* (collect_groups in src/processes_ui.c) and adds up their members        *)
(* (src/process_grouping.c); an allocation may fail at any process.        *)
(*                                                                         *)
(* The process at index i has PID i; PID 0 stands for one that is not in   *)
(* the snapshot.                                                           *)
(***************************************************************************)
EXTENDS Integers, Sequences, FiniteSets, SequencesExt, Functions, TLC

CONSTANTS
    Count,          \* Number of processes in a snapshot.
    Keyings,        \* What groups the processes can fall into.
    Rss, Stopped,   \* Resident memory by index, and who is stopped.
    MaxMemory       \* Where the 64-bit sum of memory saturates.

Indices == 1 .. Count

TableAssumption ==
    /\ Count \in Nat \ {0} /\ MaxMemory \in Nat
    /\ \A keying \in Keyings : DOMAIN keying = Indices
    /\ Rss \in [Indices -> Nat] /\ Stopped \subseteq Indices

VARIABLES
    ppid, direct, key, tree_mode,   \* The snapshot, what the filters let
                                    \* through, its groups, the view chosen.
    step,                           \* Index the loops are at; Count + 1: done.
    under,                          \* Rows inserted, with their parent row.
    cache,                          \* process_group_cache: key -> group.
    listed,                         \* The keys collected so far, in order.
    collected                       \* "running", "failed" or "done".

vars == <<ppid, direct, key, tree_mode, step, under, cache, listed, collected>>

NoMetrics == [memory |-> 0, all_stopped |-> FALSE, process_count |-> 0]
EmptyGroup == [members |-> <<>>, metrics |-> NoMetrics]

TypeOK ==
    /\ ppid \in [Indices -> 0 .. Count] /\ direct \subseteq Indices
    /\ step \in 1 .. Count + 1
    /\ \A i \in DOMAIN under : i \in Indices /\ under[i] \in 0 .. Count
    /\ collected \in {"running", "failed", "done"}

Init ==
    /\ ppid = [i \in Indices |-> 0] /\ direct = {}
    /\ key \in Keyings /\ tree_mode = TRUE
    /\ step = Count + 1 /\ under = <<>>
    /\ cache = <<>> /\ listed = <<>> /\ collected = "done"

-----------------------------------------------------------------------------
(* Mutant: only the parents of matching processes are kept.                 *)
Mut_Visible ==
    direct \cup IF tree_mode THEN {ppid[i] : i \in direct} \ {0} ELSE {}

(* The rows of Details: what the filters let through and, in a tree, every  *)
(* process on the way up from there; the walk is cut off after Count steps. *)
Visible ==
    LET up[i \in Indices, n \in 0 .. Count] ==
            IF n = 0 THEN i ELSE IF up[i, n - 1] = 0 THEN 0 ELSE ppid[up[i, n - 1]]
    IN  direct \cup IF tree_mode
                    THEN {up[i, n] : i \in direct, n \in 1 .. Count} \ {0}
                    ELSE {}

(* append_process_recursive: a row goes under its parent's row, inserted    *)
(* first if need be; a parent that is being inserted higher up in the       *)
(* recursion (state 1, here `open') is not climbed to again.                *)
append_process_recursive[i \in Indices, open \in SUBSET Indices] ==
    IF i \in DOMAIN under \/ i \notin Visible THEN under
    ELSE LET parent == ppid[i]
             climbs == /\ tree_mode /\ parent # i
                       /\ parent \in Visible /\ parent \notin open \cup {i}
             above == IF climbs
                      THEN append_process_recursive[parent, open \cup {i}]
                      ELSE under
         IN  above @@ (i :> IF climbs /\ parent \in DOMAIN above
                            THEN parent ELSE 0)

(* One turn of the loop over the snapshot in rebuild_details_model.         *)
Inserted(i) == append_process_recursive[i, {}]

(* collect_groups before its loop: groups that had no member the last time  *)
(* leave the cache, the others are emptied.                                 *)
Recycled(groups) ==
    [k \in {l \in DOMAIN groups : groups[l].members # <<>>} |-> EmptyGroup]

(* lsm_process_group_metrics_add.                                           *)
lsm_process_group_metrics_add(metrics, i) ==
    [memory |-> LET sum == metrics.memory + Rss[i] IN
                IF sum > MaxMemory THEN MaxMemory ELSE sum,
     all_stopped |-> /\ i \in Stopped
                     /\ metrics.process_count = 0 \/ metrics.all_stopped,
     process_count |-> metrics.process_count + 1]

(* group_append.                                                            *)
group_append(group, i) ==
    [members |-> Append(group.members, i),
     metrics |-> lsm_process_group_metrics_add(group.metrics, i)]

-----------------------------------------------------------------------------
(* The old snapshot is freed when the next one is taken; the group records  *)
(* stay.                                                                    *)
Discard ==
    /\ step > Count /\ direct # {}
    /\ ppid' = [i \in Indices |-> 0] /\ direct' = {} /\ tree_mode' = TRUE
    /\ under' = <<>> /\ listed' = <<>> /\ collected' = "done"
    /\ UNCHANGED <<key, step, cache>>

(* A snapshot arrives, with any filters, and both pages start on it.        *)
Publish ==
    /\ step > Count /\ direct = {}
    /\ ppid' \in [Indices -> 0 .. Count]
    /\ direct' \in SUBSET Indices \ {{}}
    /\ key' \in Keyings /\ tree_mode' \in BOOLEAN
    /\ step' = 1 /\ under' = <<>>
    /\ cache' = Recycled(cache) /\ listed' = <<>> /\ collected' = "running"

(* A process is placed on both pages; out of memory, the collection of      *)
(* groups is given up where it stands.                                      *)
PlaceProcess ==
    /\ step <= Count
    /\ under' = Inserted(step)
    /\ step' = step + 1
    /\ UNCHANGED <<ppid, direct, key, tree_mode>>
    /\ LET group == IF key[step] \in DOMAIN cache THEN cache[key[step]]
                    ELSE EmptyGroup
       IN  \/ /\ collected = "running" /\ step \in direct
              /\ \/ /\ cache' = (key[step] :> group_append(group, step)) @@ cache
                    /\ listed' = IF group.members = <<>>
                                 THEN Append(listed, key[step]) ELSE listed
                    /\ collected' = IF step = Count THEN "done" ELSE "running"
                 \/ /\ cache' = (key[step] :> group) @@ cache
                    /\ collected' = "failed" /\ UNCHANGED listed
           \/ /\ collected = "failed" \/ step \notin direct
              /\ collected' = IF collected = "running" /\ step = Count
                              THEN "done" ELSE collected
              /\ UNCHANGED <<cache, listed>>

Next == Discard \/ Publish \/ PlaceProcess

Spec == Init /\ [][Next]_vars

-----------------------------------------------------------------------------
(* The ancestors of a process, as far as the snapshot knows them.           *)
Above(i) ==
    LET reach[n \in 0 .. Count] ==
            IF n = 0 THEN {ppid[i]} \ {0}
            ELSE reach[n - 1] \cup ({ppid[j] : j \in reach[n - 1]} \ {0})
    IN  reach[Count]

(* However the parent PIDs are wired, the finished table has one row for    *)
(* every process let through and, in a tree, for each of their ancestors.   *)
(* A row lies under its parent's; only where the parents run in a circle,   *)
(* one of its members is the root the others hang from.                     *)
TreeFaithful ==
    step > Count /\ tree_mode =>
        /\ DOMAIN under = direct \cup UNION {Above(i) : i \in direct}
        /\ \A i \in DOMAIN under : i \notin Above(i) => under[i] = ppid[i]
        /\ \A i \in DOMAIN under : i \in Above(i) =>
             /\ under[i] \in {ppid[i], 0}
             /\ Cardinality({j \in Above(i) : i \in Above(j) /\ under[j] = 0}) = 1

(* A collection that completes has every process let through in exactly one *)
(* listed group, the one of its key, whose figures are those of its present *)
(* members and of nobody else: whatever an earlier collection, finished or  *)
(* given up half-way, left in the cache.                                    *)
GroupsFaithful ==
    collected = "done" =>
        /\ ToSet(listed) = {key[i] : i \in direct}
        /\ IsInjective(listed)
        /\ \A k \in ToSet(listed) :
             LET members == {i \in direct : key[i] = k}
                 memory == FoldFunctionOnSet(+, 0, Rss, members)
             IN  /\ ToSet(cache[k].members) = members
                 /\ cache[k].metrics =
                      [memory |-> IF memory > MaxMemory THEN MaxMemory ELSE memory,
                       all_stopped |-> members \subseteq Stopped,
                       process_count |-> Cardinality(members)]

=============================================================================
