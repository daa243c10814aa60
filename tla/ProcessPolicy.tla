----------------------------- MODULE ProcessPolicy -----------------------------
(***************************************************************************)
(* Scheduling policy of a process: lsm_process_set_efficiency,             *)
(* lsm_process_set_nice and lsm_process_set_priority of                    *)
(* process_backend_linux.c.                                                *)
(*                                                                         *)
(* Enabling efficiency mode remembers nice value and I/O priority in a     *)
(* bounded table keyed by PID and start ticks, and changes both with two   *)
(* system calls that may be refused one by one; disabling restores what    *)
(* was remembered.  Everything goes by PID number after one identity       *)
(* check, so a process may exit and its PID be reused between two calls.   *)
(***************************************************************************)
EXTENDS Integers, FiniteSets

CONSTANTS
    Pids,          \* PIDs above 1
    MaxInstance,   \* bound: processes that are ever started
    NiceValues,    \* the nice values processes start with and users choose
    IoValues,      \* the I/O priorities processes start with
    Capacity       \* LSM_EFFICIENCY_RESTORE_CAPACITY

\* What the constants stand for.
PolicyAssumption ==
    Pids \subseteq Nat \ {0, 1} /\ MaxInstance \in Nat /\ Capacity \in Nat

\* nice_from_priority(LSM_PROCESS_PRIORITY_LOW) and the efficiency policy itself.
EfficiencyNice == 10
IdleIo == "idle"
\* The values taken when nothing was remembered: nice 0, best effort 4.
DefaultIo == "be4"

VARIABLES
    proc,      \* the kernel: PID -> start ticks, nice value and I/O priority;
               \* start ticks 0 if none
    born,      \* the last start ticks given out
    table,     \* efficiency_restore_states, the captured entries
    pc,        \* where the call is
    call,      \* its arguments and locals
    result,    \* whether the last call returned true
    before,    \* history: the policy the running call found
    captured,  \* history: start ticks -> policy when the last entry for it was made
    owed,      \* history: start ticks enabled with success and not yet disabled so
    late,      \* history: those whose I/O priority only a later enable changed, the
               \* one that made the entry having been refused
    unreturned \* history: the last enable was refused the nice value, and putting
               \* the I/O priority back was refused too

vars == <<proc, born, table, pc, call, result, before, captured, owed, late,
          unreturned>>

NoProcess == [instance_id |-> 0, nice |-> 0, ioprio |-> DefaultIo]
NoCall == [pid |-> 0, instance_id |-> 0, enabled |-> FALSE, nice |-> 0,
           ioprio |-> DefaultIo, already |-> FALSE, io_changed |-> FALSE,
           restore_ioprio |-> FALSE]
NoPolicy == [nice |-> 0, ioprio |-> "none"]

Policy(p) == [nice |-> p.nice, ioprio |-> p.ioprio]

-----------------------------------------------------------------------------
(* The kernel's side. *)

Exit(pid) ==
    /\ proc[pid].instance_id # 0
    /\ proc' = [proc EXCEPT ![pid] = NoProcess]
    /\ UNCHANGED <<born, table, pc, call, result, before, captured, owed, late, unreturned>>

Spawn(pid) ==
    /\ proc[pid].instance_id = 0
    /\ born < MaxInstance
    /\ born' = born + 1
    /\ \E n \in NiceValues, io \in IoValues :
          proc' = [proc EXCEPT ![pid] = [instance_id |-> born + 1, nice |-> n,
                                         ioprio |-> io]]
    /\ UNCHANGED <<table, pc, call, result, before, captured, owed, late, unreturned>>

\* setpriority and ioprio_set of the PID: refused, or accepted for whatever
\* process has it.  One that was refused may be accepted the next time, and the
\* other way round: credentials and capabilities change while both run.
setpriority_outcomes(pid) == IF proc[pid].instance_id = 0 THEN {FALSE} ELSE BOOLEAN
ioprio_set_outcomes(pid) == setpriority_outcomes(pid)

WithIo(pid, io) == [proc EXCEPT ![pid].ioprio = io]
WithNice(pid, n) == [proc EXCEPT ![pid].nice = n]

-----------------------------------------------------------------------------
(* The restore table. *)

process_identity_pid(pid, instance_id) == proc[pid].instance_id = instance_id

efficiency_restore_find ==
    {s \in table : s.pid = call.pid /\ s.instance_id = call.instance_id}

Entry(nice, ioprio) ==
    [pid |-> call.pid, instance_id |-> call.instance_id, original_nice |-> nice,
     original_ioprio |-> ioprio, restore_ioprio |-> FALSE]

\* The table without the entry of this process.
efficiency_restore_remove == table \ efficiency_restore_find

Return(ok) ==
    /\ result' = ok
    /\ before' = NoPolicy
    /\ owed' = IF ~ok THEN owed
               ELSE IF call.enabled THEN owed \union {call.instance_id}
               ELSE owed \ {call.instance_id}
    /\ pc' = "idle"
    /\ call' = NoCall

-----------------------------------------------------------------------------
(* lsm_process_set_efficiency. *)

\* The call and its identity check; a process that is gone ends it at once.
set_efficiency(pid, enabled) ==
    /\ pc = "idle"
    /\ proc[pid].instance_id # 0
    /\ call' = [NoCall EXCEPT !.pid = pid, !.instance_id = proc[pid].instance_id,
                              !.enabled = enabled]
    /\ before' = Policy(proc[pid])
    /\ unreturned' = FALSE
    /\ pc' = IF enabled THEN "capture" ELSE "lookup"
    /\ UNCHANGED <<proc, born, table, result, captured, owed, late>>

\* No entry is free for a process that has none.
efficiency_restore_reserve_fails ==
    efficiency_restore_find = {} /\ Cardinality(table) >= Capacity

\* The table with the values of p remembered, unless an earlier enable did.
\* Mutant: a second enable overwrites what the first one remembered.
Mut_Remembered(p) == efficiency_restore_remove \union {Entry(p.nice, p.ioprio)}

Remembered(p) ==
    IF efficiency_restore_find = {} THEN table \union {Entry(p.nice, p.ioprio)} ELSE table

\* getpriority, ioprio_get, and the entry: found, reserved, or no room.
capture ==
    /\ pc = "capture"
    /\ LET p == proc[call.pid]
           already_captured == efficiency_restore_find # {}
       IN  IF p.instance_id = 0 \/ efficiency_restore_reserve_fails
           THEN /\ Return(FALSE)
                /\ UNCHANGED <<table, captured>>
           ELSE /\ table' = Remembered(p)
                /\ captured' = IF already_captured THEN captured
                               ELSE [captured EXCEPT ![call.instance_id] = Policy(p)]
                /\ call' = [call EXCEPT !.already = already_captured, !.ioprio = p.ioprio]
                /\ pc' = "io"
                /\ UNCHANGED <<result, before, owed>>
    /\ UNCHANGED <<proc, born, late, unreturned>>

\* ioprio_set to the idle class.  Only the enable that made the entry notes
\* that the I/O priority is to be restored.
set_idle_io ==
    /\ pc = "io"
    /\ \E ok \in ioprio_set_outcomes(call.pid) :
          /\ proc' = IF ok THEN WithIo(call.pid, IdleIo) ELSE proc
          /\ call' = [call EXCEPT !.io_changed = ok]
          /\ table' = IF ok /\ ~call.already
                      THEN efficiency_restore_remove
                             \union {[s EXCEPT !.restore_ioprio = TRUE] :
                                     s \in efficiency_restore_find}
                      ELSE table
    /\ pc' = "nice"
    /\ UNCHANGED <<born, result, before, captured, owed, late, unreturned>>

\* The enable found an entry that does not ask for the I/O priority to be
\* restored, and has changed it all the same.
ChangedLate ==
    call.already /\ call.io_changed /\ \E s \in efficiency_restore_find : ~s.restore_ioprio

\* setpriority to the efficiency nice value.  When it is refused, the I/O
\* priority goes back to what it was and a new entry is dropped.
set_efficiency_nice ==
    /\ pc = "nice"
    /\ \E ok \in setpriority_outcomes(call.pid),
          back \in ioprio_set_outcomes(call.pid) :
          /\ IF ok
             THEN /\ proc' = WithNice(call.pid, EfficiencyNice)
                  /\ Return(TRUE)
                  /\ UNCHANGED table
             ELSE /\ proc' = IF call.io_changed /\ back
                             THEN WithIo(call.pid, call.ioprio) ELSE proc
                  /\ table' = IF call.already THEN table ELSE efficiency_restore_remove
                  /\ Return(FALSE)
          /\ late' = IF ChangedLate /\ (ok \/ ~back)
                     THEN late \union {call.instance_id} ELSE late
          /\ unreturned' = (~ok /\ call.io_changed /\ ~back)
    /\ UNCHANGED <<born, captured>>

\* Disabling takes the remembered values, or defaults when there are none.
lookup ==
    /\ pc = "lookup"
    /\ LET found == efficiency_restore_find
           saved == IF found = {}
                    THEN [Entry(0, DefaultIo) EXCEPT !.restore_ioprio = TRUE]
                    ELSE CHOOSE s \in found : TRUE
       IN  call' = [call EXCEPT !.nice = saved.original_nice,
                                !.ioprio = saved.original_ioprio,
                                !.restore_ioprio = saved.restore_ioprio]
    /\ pc' = "restore_io"
    /\ UNCHANGED <<proc, born, table, result, before, captured, owed, late, unreturned>>

restore_io ==
    /\ pc = "restore_io"
    /\ IF call.restore_ioprio
       THEN \E ok \in ioprio_set_outcomes(call.pid) :
               IF ok
               THEN /\ proc' = WithIo(call.pid, call.ioprio)
                    /\ pc' = "restore_nice"
                    /\ UNCHANGED <<call, result, before, owed>>
               ELSE /\ Return(FALSE)
                    /\ UNCHANGED proc
       ELSE /\ pc' = "restore_nice"
            /\ UNCHANGED <<proc, call, result, before, owed>>
    /\ UNCHANGED <<born, table, captured, late, unreturned>>

\* The entry is removed only when both values are back.
\* Mutant: it is removed in any case, so that a refused restore cannot be
\* tried again.
Mut_restore_nice ==
    /\ pc = "restore_nice"
    /\ \E ok \in setpriority_outcomes(call.pid) :
          /\ proc' = IF ok THEN WithNice(call.pid, call.nice) ELSE proc
          /\ table' = efficiency_restore_remove
          /\ late' = IF ok THEN late \ {call.instance_id} ELSE late
          /\ Return(ok)
    /\ UNCHANGED <<born, captured, unreturned>>

restore_nice ==
    /\ pc = "restore_nice"
    /\ \E ok \in setpriority_outcomes(call.pid) :
          /\ proc' = IF ok THEN WithNice(call.pid, call.nice) ELSE proc
          /\ table' = IF ok THEN efficiency_restore_remove ELSE table
          /\ late' = IF ok THEN late \ {call.instance_id} ELSE late
          /\ Return(ok)
    /\ UNCHANGED <<born, captured, unreturned>>

\* lsm_process_set_nice and lsm_process_set_priority: the identity check, then
\* setpriority, with the nice value chosen or that of the priority chosen (a
\* refusal changes nothing).
set_nice(pid, value) ==
    /\ pc = "idle"
    /\ proc[pid].instance_id # 0
    /\ proc' = WithNice(pid, value)
    /\ UNCHANGED <<born, table, pc, call, result, before, captured, owed, late, unreturned>>

-----------------------------------------------------------------------------
Init ==
    /\ proc = [pid \in Pids |-> NoProcess]
    /\ born = 0
    /\ table = {}
    /\ pc = "idle"
    /\ call = NoCall
    /\ result = FALSE
    /\ before = NoPolicy
    /\ captured = [i \in 1 .. MaxInstance |-> NoPolicy]
    /\ owed = {}
    /\ late = {}
    /\ unreturned = FALSE

Next ==
    \/ \E pid \in Pids : Exit(pid) \/ Spawn(pid)
    \/ \E pid \in Pids, enabled \in BOOLEAN : set_efficiency(pid, enabled)
    \/ \E pid \in Pids, n \in NiceValues : set_nice(pid, n)
    \/ capture
    \/ set_idle_io
    \/ set_efficiency_nice
    \/ lookup
    \/ restore_io
    \/ restore_nice

Spec == Init /\ [][Next]_vars

-----------------------------------------------------------------------------
(* Properties. *)

TypeOK ==
    /\ \A pid \in Pids : proc[pid].instance_id \in 0 .. MaxInstance
    /\ born \in 0 .. MaxInstance
    /\ pc \in {"idle", "capture", "io", "nice", "lookup", "restore_io", "restore_nice"}
    /\ Cardinality(table) <= Capacity
    /\ \A s, t \in table : s.pid = t.pid /\ s.instance_id = t.instance_id => s = t
    /\ owed \subseteq 1 .. MaxInstance
    /\ late \subseteq 1 .. MaxInstance

Returns == pc # "idle" /\ pc' = "idle"
StillThere == proc'[call.pid].instance_id = call.instance_id

\* A disable that reports success has brought back both the nice value and the
\* I/O priority the process had before efficiency mode, whatever failed calls,
\* second enables and priority changes came between.  The exception is what
\* process_backend_linux.c:1430 leaves: when the enable that made the entry was
\* refused the I/O priority and a later one was granted it, the entry does not
\* ask for it back, and the disable reports success with the I/O priority idle
\* (process_backend.h:123-126 promises "every changed native I/O policy").
DisableRestores ==
    Returns /\ ~call.enabled /\ result' /\ StillThere /\ efficiency_restore_find # {}
        => /\ proc'[call.pid].nice = captured[call.instance_id].nice
           /\ \/ proc'[call.pid].ioprio = captured[call.instance_id].ioprio
              \/ call.instance_id \in late

\* An enable that reports failure has left the process as it was, although the
\* I/O priority is changed before the nice value can be refused; the exception
\* is that putting the I/O priority back is refused as well, which the code
\* does not look at.
FailedEnableLeavesPolicy ==
    Returns /\ call.enabled /\ ~result' /\ StillThere
        => /\ proc'[call.pid].nice = before.nice
           /\ proc'[call.pid].ioprio = before.ioprio \/ unreturned'

\* What a step of lsm_process_set_efficiency may say on its return.
ReturnHonest == DisableRestores /\ FailedEnableLeavesPolicy

\* Between calls the table remembers exactly the processes whose efficiency
\* mode was enabled and not disabled since: a refused disable can be repeated.
OwedRemembered ==
    pc = "idle" => {s.instance_id : s \in table} = owed

=============================================================================
