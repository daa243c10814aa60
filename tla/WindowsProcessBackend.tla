------------------------- MODULE WindowsProcessBackend -------------------------
(***************************************************************************)
(* The Windows process backend (src/process_backend_windows.c):            *)
(* lsm_process_scan and lsm_process_enrich.  A Tool Help snapshot names    *)
(* the processes of one moment; each is then opened by its PID, which may  *)
(* be another's by then, and everything else is read through that handle.  *)
(* Between scans one sample per PID is kept, to count from; a scan that    *)
(* fails puts back the samples and the generation it began with.           *)
(*                                                                         *)
(* A process is a number, its creation time.  A counter or a text is       *)
(* represented by the process it was read from and the scan that read it.  *)
(* The account of a process is "owner" of its number; its name costs a     *)
(* look-up that may fail, and is cached by account.                        *)
(***************************************************************************)
EXTENDS Naturals, FiniteSets

CONSTANTS
    Pids,                  \* Process identifiers, reused.
    MaxInstance,           \* Bound on the processes ever created.
    MaxScans,              \* Bound on the scans.
    GenerationModulus      \* UINT_MAX + 1 in the code.

BackendAssumption ==
    /\ Pids \subseteq Nat \ {0} /\ IsFiniteSet(Pids)
    /\ MaxInstance \in Nat /\ Cardinality(Pids) <= MaxInstance
    /\ MaxScans \in Nat
    /\ GenerationModulus \in Nat /\ GenerationModulus > 1

VARIABLES
    alive,                 \* The machine: the process of a PID, or 0.
    created,               \* Processes created so far.
    samples,               \* backend->samples: a function on some PIDs.
    backup,                \* backend->sample_backup and original_generation.
    accounts,              \* backend->accounts: accounts with a known name.
    generation,            \* backend->generation
    system_at,             \* Scan that read previous_system_cpu_100ns; 0 when
                           \* it holds no reading.
    scan,                  \* Locals of a scan.
    processes,             \* The rows made so far, or handed to the caller.
    enrich,                \* An lsm_process_enrich under way.
    completed              \* History: the last scan that succeeded.

vars == <<alive, created, samples, backup, accounts, generation, system_at,
          scan, processes, enrich, completed>>

owner(instance) == instance % 2

(* A function with another value at one point, or without the point.        *)
With(f, p, value) == [q \in DOMAIN f \cup {p} |-> IF q = p THEN value ELSE f[q]]
Without(f, p) == [q \in DOMAIN f \ {p} |-> f[q]]

Nothing == <<>>
NoAccount == [identity |-> 2, named |-> FALSE]
Account == [identity : {0, 1, 2}, named : BOOLEAN]

Init ==
    /\ alive = [p \in Pids |-> 1 + Cardinality({q \in Pids : q < p})]
    /\ created = Cardinality(Pids)
    /\ samples = Nothing /\ backup = Nothing /\ accounts = {}
    /\ generation = GenerationModulus - 2
    /\ system_at \in {0, 1}
    /\ scan = [at |-> "idle", number |-> 1, system |-> FALSE, listed |-> Nothing]
    /\ processes = Nothing
    /\ enrich = [at |-> "idle", pid |-> 0, instance |-> 0, of |-> 0]
    /\ completed = 1

TypeOK ==
    /\ DOMAIN samples \subseteq Pids /\ DOMAIN processes \subseteq Pids
    /\ \A p \in DOMAIN samples :
           /\ samples[p].instance \in 0 .. MaxInstance
           /\ samples[p].generation \in 0 .. GenerationModulus - 1
           /\ samples[p].account \in Account
    /\ \A p \in DOMAIN processes : processes[p].account \in Account
    /\ generation \in 0 .. GenerationModulus - 1
    /\ system_at \in 0 .. MaxScans + 1
    /\ scan.at \in {"idle", "rows"}
    /\ enrich.at \in {"idle", "open", "recheck", "done"}

-----------------------------------------------------------------------------
(* A process ends; a PID is given to a new one.                             *)
MachineChanges ==
    /\ \E p \in Pids :
         \/ alive[p] # 0 /\ alive' = [alive EXCEPT ![p] = 0] /\ UNCHANGED created
         \/ /\ alive[p] = 0 /\ created < MaxInstance
            /\ created' = created + 1
            /\ alive' = [alive EXCEPT ![p] = created']
    /\ UNCHANGED <<samples, backup, accounts, generation, system_at, scan,
                   processes, enrich, completed>>

(* lsm_process_scan up to the first entry: no memory for the backup, or no  *)
(* Tool Help snapshot, and nothing has happened.  When the generation wraps *)
(* every sample is first given the number that is then skipped.             *)
BeginScan ==
    /\ scan.at = "idle" /\ enrich.at = "idle" /\ scan.number <= MaxScans
    /\ processes' = Nothing
    /\ \/ /\ scan' = [scan EXCEPT !.number = @ + 1]
          /\ UNCHANGED <<samples, backup, generation>>
       \/ /\ backup' = [samples |-> samples, generation |-> generation]
          /\ LET next == (generation + 1) % GenerationModulus
             IN /\ generation' = IF next = 0 THEN 1 ELSE next
                /\ samples' = IF next # 0 THEN samples
                              ELSE [p \in DOMAIN samples |->
                                       [samples[p] EXCEPT !.generation = 0]]
          /\ \E read \in BOOLEAN :
               scan' = [at |-> "rows", number |-> scan.number + 1,
                        system |-> read,
                        listed |-> [p \in {q \in Pids : alive[q] # 0} |-> alive[p]]]
    /\ UNCHANGED <<alive, created, accounts, system_at, enrich, completed>>

(* The samples and the generation are as they were; the accounts stay.      *)
ScanFails ==
    /\ samples' = backup.samples /\ generation' = backup.generation
    /\ backup' = Nothing /\ processes' = Nothing
    /\ scan' = [scan EXCEPT !.at = "idle", !.system = FALSE, !.listed = Nothing]
    /\ UNCHANGED <<system_at, completed>>

(* populate_process_account, for the process behind a handle: whether the   *)
(* account could be read, and whether its name is known or looked up now.   *)
populate_process_account(instance, readable, found) ==
    IF ~readable THEN NoAccount
    ELSE [identity |-> owner(instance),
          named |-> found \/ owner(instance) \in accounts]

NoSample == [instance |-> 0, of |-> 0, at |-> 0, io |-> FALSE, generation |-> 0,
             account |-> NoAccount]

find_or_create_sample(p) ==
    IF p \in DOMAIN samples THEN samples[p] ELSE NoSample

(* populate_process_metrics.  Times that could not be read leave the        *)
(* instance zero, and with it nothing to count from.  A retained account is *)
(* used for the same process only, and asked for again while it lacks a     *)
(* name.                                                                    *)
populate_process_metrics(p, instance, times, io, readable, found) ==
    LET old == find_or_create_sample(p)
        shown == IF times THEN instance ELSE 0
        same == old.instance # 0 /\ old.instance = shown
        retained == same /\ old.account.identity # 2
        asked == populate_process_account(instance, readable, found)
        account == IF retained /\ old.account.named THEN old.account
                   ELSE IF retained /\ asked.identity = 2 THEN old.account
                   ELSE asked
    IN /\ processes' = With(processes, p,
              [name |-> scan.listed[p], instance |-> shown,
               of |-> instance, account |-> account,
               cpu |-> IF same /\ scan.system
                       THEN [of |-> old.of, from |-> old.at, system |-> system_at]
                       ELSE Nothing,
               io |-> IF same /\ io /\ old.io
                      THEN [of |-> old.of, from |-> old.at]
                      ELSE Nothing])
       /\ samples' = With(samples, p,
              [instance |-> shown, of |-> instance, at |-> scan.number, io |-> io,
               generation |-> generation, account |-> account])
       /\ accounts' = IF account.named THEN accounts \cup {account.identity}
                      ELSE accounts

(* One entry: opened, or listed with what Tool Help said of it.  No memory  *)
(* for a row or a sample ends the scan.                                     *)
ReadEntry(p) ==
    /\ scan.at = "rows" /\ p \in DOMAIN scan.listed
    /\ \/ /\ scan' = [scan EXCEPT !.listed = Without(scan.listed, p)]
          /\ \/ /\ alive[p] # 0
                /\ \E times, io, readable, found \in BOOLEAN :
                     populate_process_metrics(p, alive[p], times, io, readable,
                                              found)
             \/ /\ processes' = With(processes, p,
                     [name |-> scan.listed[p], instance |-> 0, of |-> 0,
                      account |-> NoAccount, cpu |-> Nothing, io |-> Nothing])
                /\ UNCHANGED <<samples, accounts>>
          /\ UNCHANGED <<backup, generation, system_at, completed>>
       \/ ScanFails /\ UNCHANGED accounts
    /\ UNCHANGED <<alive, created, enrich>>

prune_process_samples ==
    [p \in {q \in DOMAIN samples : samples[q].generation = generation} |-> samples[p]]

(* The last entry was read, or Process32Next failed.  Samples no row has    *)
(* touched are dropped.                                                     *)
EndScan ==
    /\ scan.at = "rows" /\ scan.listed = Nothing
    /\ \/ /\ samples' = prune_process_samples
          /\ system_at' = IF scan.system THEN scan.number ELSE 0
          /\ scan' = [scan EXCEPT !.at = "idle", !.system = FALSE]
          /\ backup' = Nothing /\ completed' = scan.number
          /\ UNCHANGED <<generation, processes>>
       \/ ScanFails
    /\ UNCHANGED <<alive, created, accounts, enrich>>

-----------------------------------------------------------------------------
(* lsm_process_enrich: the PID must have the instance of the row before it  *)
(* is opened and after it was read.                                         *)
EnrichBegins ==
    /\ scan.at = "idle" /\ enrich.at = "idle"
    /\ \E p \in DOMAIN processes :
          /\ processes[p].instance # 0 /\ alive[p] = processes[p].instance
          /\ enrich' = [at |-> "open", pid |-> p,
                        instance |-> processes[p].instance, of |-> 0]
    /\ UNCHANGED <<alive, created, samples, backup, accounts, generation,
                   system_at, scan, processes, completed>>

EnrichReads ==
    /\ enrich.at = "open"
    /\ enrich' = IF alive[enrich.pid] = 0 THEN [enrich EXCEPT !.at = "idle"]
                 ELSE [enrich EXCEPT !.at = "recheck", !.of = alive[enrich.pid]]
    /\ UNCHANGED <<alive, created, samples, backup, accounts, generation,
                   system_at, scan, processes, completed>>

EnrichMatches == alive[enrich.pid] = enrich.instance

EnrichEnds ==
    /\ enrich.at = "recheck"
    /\ enrich' = [enrich EXCEPT !.at = IF EnrichMatches THEN "done" ELSE "idle"]
    /\ UNCHANGED <<alive, created, samples, backup, accounts, generation,
                   system_at, scan, processes, completed>>

(* The caller has used the answer.                                          *)
EnrichUsed ==
    /\ enrich.at = "done"
    /\ enrich' = [at |-> "idle", pid |-> 0, instance |-> 0, of |-> 0]
    /\ UNCHANGED <<alive, created, samples, backup, accounts, generation,
                   system_at, scan, processes, completed>>

Next ==
    \/ MachineChanges \/ BeginScan \/ (\E p \in Pids : ReadEntry(p)) \/ EndScan
    \/ EnrichBegins \/ EnrichReads \/ EnrichEnds \/ EnrichUsed

Spec == Init /\ [][Next]_vars

-----------------------------------------------------------------------------
(* "Retained samples calculate CPU and I/O rates without confusing PID      *)
(* reuse" (process_backend_windows.c): a row with an instance shows that    *)
(* process's account, and counts from its own earlier counters; and a       *)
(* successful lsm_process_enrich has read the process of the row.           *)
RowsOwned ==
    /\ \A p \in DOMAIN processes :
          LET row == processes[p]
          IN row.instance # 0 =>
               /\ row.instance = row.of
               /\ row.account.identity \in {2, owner(row.instance)}
               /\ \A rate \in {row.cpu, row.io} :
                      rate # Nothing => rate.of = row.instance
    /\ enrich.at = "done" => enrich.of = enrich.instance

(* Whatever scans failed in between, every sample and every rate counts     *)
(* from the last scan that succeeded, also when the generation wraps; the   *)
(* time of the system too, unless that scan could not read it.              *)
RatesShareWindow ==
    /\ scan.at = "idle" =>
          \A p \in DOMAIN samples : /\ samples[p].at = completed
                                    /\ samples[p].generation = generation
    /\ \A p \in DOMAIN processes :
          LET row == processes[p]
          IN /\ row.cpu # Nothing => row.cpu.system \in {0, row.cpu.from}
             /\ scan.at = "rows" =>
                    \A rate \in {row.cpu, row.io} :
                        rate # Nothing => rate.from = completed
=============================================================================
