---------------------------- MODULE ProcessControl ----------------------------
(***************************************************************************)
(* Signals: lsm_process_control and lsm_process_control_tree of            *)
(* process_backend_linux.c, called from the process actions of the window. *)
(*                                                                         *)
(* A request names a process by PID and start ticks.  While the code walks *)
(* /proc, checks the identity, opens a pidfd and sends the signal, other   *)
(* processes exit, fork and take over free PIDs.                           *)
(***************************************************************************)
EXTENDS Integers, Sequences, FiniteSets

CONSTANTS
    Pids,             \* the PIDs above 1 that processes may have
    Roots,            \* the PIDs the process the user selects may have
    MaxInstance       \* bound: processes that are ever started

\* What the constants stand for.
ControlAssumption ==
    /\ Pids \subseteq Nat \ {0, 1} /\ Roots \subseteq Pids
    /\ MaxInstance \in Nat \ {0}

VARIABLES
    root,       \* the PID of the process the user has selected
    supported,  \* whether the kernel has pidfd_open
    instance,   \* the kernel: PID -> start ticks of its process, 0 if none
    parent,     \* the kernel: PID -> PID of the parent, 1 for init
    born,       \* the last start ticks given out
    pc,         \* where the call is
    whole,      \* a tree is signalled, not one process
    items,      \* the enumerated processes, as a set of PidParent records
    next_pid,   \* readdir goes on from here
    targets,    \* the processes still to be signalled, in order
    pidfd,      \* the instance an open pidfd refers to, 0 if none
    sent,       \* the signals delivered: the identity meant and the one hit
    result      \* what the call returned

vars == <<root, supported, instance, parent, born, pc, whole, items,
          next_pid, targets, pidfd, sent, result>>
kernel == <<root, supported, instance, parent, born>>
locals == <<pc, whole, items, next_pid, targets, pidfd, sent, result>>

\* The start ticks of the selected process: it is the first one to start.
RootInstance == 1

-----------------------------------------------------------------------------
(* The kernel's side. *)

\* A process exits and is reaped: its children are given to init.
Exit(pid) ==
    /\ instance[pid] # 0
    /\ instance' = [instance EXCEPT ![pid] = 0]
    /\ parent' = [p \in Pids |-> IF p = pid \/ parent[p] = pid THEN 1 ELSE parent[p]]
    /\ UNCHANGED <<root, supported, born, locals>>

\* A process, or init, forks a child under a free PID.
Fork(by, pid) ==
    /\ by \in {1} \union {p \in Pids : instance[p] # 0}
    /\ instance[pid] = 0
    /\ born < MaxInstance
    /\ born' = born + 1
    /\ instance' = [instance EXCEPT ![pid] = born + 1]
    /\ parent' = [parent EXCEPT ![pid] = by]
    /\ UNCHANGED <<root, supported, locals>>

\* process_identity_pid: the stat record of the PID shows these start ticks.
process_identity_pid(t) == instance[t.pid] = t.instance_id

-----------------------------------------------------------------------------
(* lsm_process_control_tree: collecting the targets. *)

RootTarget == [pid |-> root, instance_id |-> RootInstance]

control_tree ==
    /\ pc = "idle"
    /\ process_identity_pid(RootTarget)
    /\ pc' = "enumerate"
    /\ whole' = TRUE
    /\ next_pid' = 2
    /\ UNCHANGED <<kernel, items, targets, pidfd, sent, result>>

\* readdir of /proc returns the processes in the order of their PIDs; the stat
\* record gives parent and start ticks.
read_pid_parent(pid) ==
    /\ pc = "enumerate"
    /\ pid >= next_pid
    /\ instance[pid] # 0
    /\ \A p \in Pids : p >= next_pid /\ instance[p] # 0 => pid <= p
    /\ items' = items \union {[pid |-> pid, ppid |-> parent[pid],
                               instance_id |-> instance[pid]]}
    /\ next_pid' = pid + 1
    /\ UNCHANGED <<kernel, pc, whole, targets, pidfd, sent, result>>

\* readdir, closedir or the array reservation fails: nothing is signalled.
enumeration_fails ==
    /\ pc = "enumerate"
    /\ pc' = "done"
    /\ result' = FALSE
    /\ UNCHANGED <<kernel, whole, items, next_pid, targets, pidfd, sent>>

find_pid_parent(pid) == {i \in items : i.pid = pid}

\* The recorded parents lead from a process to the root in so many steps.
ReachesRoot(pid, steps) ==
    \E chain \in [1 .. steps -> items] :
        /\ chain[1] \in find_pid_parent(pid)
        /\ \A k \in 1 .. steps - 1 :
              chain[k + 1] \in find_pid_parent(chain[k].ppid)
        /\ chain[steps].ppid = root

\* The steps from a process to the root; 0 when the walk ends elsewhere or does
\* not end within as many steps as there are items.
process_depth(pid) ==
    LET steps == {n \in 1 .. Cardinality(items) : ReachesRoot(pid, n)}
    IN  IF pid = root \/ steps = {} THEN 0
        ELSE CHOOSE n \in steps : \A m \in steps : n <= m

Descendants == {i \in items : process_depth(i.pid) > 0}

\* Deepest first, and among equals the higher PID first.
\* Mutant: the comparison is the wrong way round.
Mut_compare_depth_descending(a, b) ==
    \/ process_depth(a.pid) < process_depth(b.pid)
    \/ process_depth(a.pid) = process_depth(b.pid) /\ a.pid > b.pid

compare_depth_descending(a, b) ==
    \/ process_depth(a.pid) > process_depth(b.pid)
    \/ process_depth(a.pid) = process_depth(b.pid) /\ a.pid > b.pid

TargetOf(i) == [pid |-> i.pid, instance_id |-> i.instance_id]

\* qsort: every descendant once, each before those it compares less to.
Sorted ==
    {order \in [1 .. Cardinality(Descendants) -> Descendants] :
        /\ \A i \in Descendants : \E k \in DOMAIN order : order[k] = i
        /\ \A j, k \in DOMAIN order :
              j < k => compare_depth_descending(order[j], order[k])}

\* The end of the enumeration.  The root must still be the same process.
order_targets ==
    /\ pc = "enumerate"
    /\ \A p \in Pids : p >= next_pid => instance[p] = 0
    /\ IF process_identity_pid(RootTarget)
       THEN /\ \E order \in Sorted :
                  targets' = Append([k \in DOMAIN order |-> TargetOf(order[k])],
                                    RootTarget)
            /\ pc' = "check"
            /\ result' = TRUE
       ELSE /\ pc' = "done"
            /\ result' = FALSE
            /\ UNCHANGED targets
    /\ UNCHANGED <<kernel, whole, items, next_pid, pidfd, sent>>

\* lsm_process_control of the selected process alone.
control_one ==
    /\ pc = "idle"
    /\ pc' = "check"
    /\ whole' = FALSE
    /\ targets' = <<RootTarget>>
    /\ result' = TRUE
    /\ UNCHANGED <<kernel, items, next_pid, pidfd, sent>>

-----------------------------------------------------------------------------
(* lsm_process_control of the first target. *)

Target == Head(targets)

\* The call for this target is over.  A process that is gone (ESRCH) counts as
\* a failure only when it alone was to be signalled.
Finish(ok, gone) ==
    /\ result' = (result /\ (ok \/ (gone /\ whole)))
    /\ targets' = Tail(targets)
    /\ pidfd' = 0
    /\ pc' = IF Len(targets) = 1 THEN "done" ELSE "check"

\* The first identity check of signal_with_pidfd.
first_check ==
    /\ pc = "check"
    /\ IF process_identity_pid(Target)
       THEN /\ pc' = IF supported THEN "open" ELSE "fallback"
            /\ UNCHANGED <<result, targets, pidfd>>
       ELSE Finish(FALSE, TRUE)
    /\ UNCHANGED <<kernel, whole, items, next_pid, sent>>

\* pidfd_open: the descriptor refers to whatever process has the PID now.
pidfd_open ==
    /\ pc = "open"
    /\ IF instance[Target.pid] # 0
       THEN /\ pidfd' = instance[Target.pid]
            /\ pc' = "recheck"
            /\ UNCHANGED <<result, targets>>
       ELSE Finish(FALSE, TRUE)
    /\ UNCHANGED <<kernel, whole, items, next_pid, sent>>

\* The second identity check.
second_check ==
    /\ pc = "recheck"
    /\ IF process_identity_pid(Target)
       THEN /\ pc' = "send"
            /\ UNCHANGED <<result, targets, pidfd>>
       ELSE Finish(FALSE, TRUE)
    /\ UNCHANGED <<kernel, whole, items, next_pid, sent>>

\* pidfd_send_signal: delivered, refused, or the process has exited.
pidfd_send_signal ==
    /\ pc = "send"
    /\ LET there == \E p \in Pids : instance[p] = pidfd
       IN  \/ /\ there
              /\ sent' = Append(sent, [meant |-> Target, hit |-> pidfd])
              /\ Finish(TRUE, FALSE)
           \/ /\ there
              /\ Finish(FALSE, FALSE)
              /\ UNCHANGED sent
           \/ /\ ~there
              /\ Finish(FALSE, TRUE)
              /\ UNCHANGED sent
    /\ UNCHANGED <<kernel, whole, items, next_pid>>

\* A kernel without pidfd: one more identity check, then kill by number.
fallback_check ==
    /\ pc = "fallback"
    /\ IF process_identity_pid(Target)
       THEN /\ pc' = "kill"
            /\ UNCHANGED <<result, targets, pidfd>>
       ELSE Finish(FALSE, TRUE)
    /\ UNCHANGED <<kernel, whole, items, next_pid, sent>>

kill_by_number ==
    /\ pc = "kill"
    /\ \/ /\ instance[Target.pid] # 0
          /\ sent' = Append(sent, [meant |-> Target, hit |-> instance[Target.pid]])
          /\ Finish(TRUE, FALSE)
       \/ /\ instance[Target.pid] # 0
          /\ Finish(FALSE, FALSE)
          /\ UNCHANGED sent
       \/ /\ instance[Target.pid] = 0
          /\ Finish(FALSE, TRUE)
          /\ UNCHANGED sent
    /\ UNCHANGED <<kernel, whole, items, next_pid>>

-----------------------------------------------------------------------------
\* The selected process runs, started by init; the rest of the tree grows from
\* there before and during the call.
Init ==
    /\ root \in Roots /\ supported \in BOOLEAN
    /\ instance = [p \in Pids |-> IF p = root THEN RootInstance ELSE 0]
    /\ parent = [p \in Pids |-> 1]
    /\ born = RootInstance
    /\ pc = "idle"
    /\ whole = FALSE
    /\ items = {}
    /\ next_pid = 2
    /\ targets = <<>>
    /\ pidfd = 0
    /\ sent = <<>>
    /\ result = TRUE

Next ==
    \/ \E pid \in Pids : Exit(pid) \/ read_pid_parent(pid)
    \/ \E by \in Pids \union {1}, pid \in Pids : Fork(by, pid)
    \/ control_tree
    \/ enumeration_fails
    \/ order_targets
    \/ control_one
    \/ first_check
    \/ pidfd_open
    \/ second_check
    \/ pidfd_send_signal
    \/ fallback_check
    \/ kill_by_number

Spec == Init /\ [][Next]_vars

-----------------------------------------------------------------------------
(* Properties. *)

TypeOK ==
    /\ instance \in [Pids -> 0 .. MaxInstance]
    /\ parent \in [Pids -> Pids \union {1}]
    /\ pc \in {"idle", "enumerate", "check", "open", "recheck", "send",
               "fallback", "kill", "done"}
    /\ pidfd \in 0 .. MaxInstance
    /\ (pc \in {"recheck", "send"}) <=> (pidfd # 0)
    /\ (pc \in {"idle", "enumerate", "done"}) <=> (targets = <<>>)

\* With pidfds every signal reaches the identity it was meant for, however PIDs
\* are reused between the checks, the opening and the sending.
SignalHitsMeant ==
    supported =>
        \A k \in DOMAIN sent : sent[k].hit = sent[k].meant.instance_id

\* A recorded descendant is signalled before any recorded ancestor of it, and
\* the root last: lsm_process_control_tree works deepest-first.
DescendantsFirst ==
    \A j, k \in DOMAIN sent :
        j < k => /\ sent[j].meant # RootTarget
                 /\ \A i \in items :
                       TargetOf(i) = sent[k].meant => i.ppid # sent[j].meant.pid

\* What the call returns is true only when every process it set out to signal
\* was signalled or is gone.
ReportHonest ==
    pc = "done" /\ result =>
        \A i \in (IF whole THEN {TargetOf(d) : d \in Descendants} ELSE {}) \union {RootTarget} :
            \/ \E k \in DOMAIN sent : sent[k].meant = i
            \/ instance[i.pid] # i.instance_id

=============================================================================
