---------------------------- MODULE ProcessBackend ----------------------------
(***************************************************************************)
(* The Linux process backend: lsm_process_backend_create, lsm_process_scan *)
(* and lsm_process_backend_destroy of process_backend_linux.c.             *)
(*                                                                         *)
(* A scan walks /proc, one directory entry at a time, while processes exit *)
(* and their PIDs are taken by new ones.  What it keeps between scans is   *)
(* one sample per PID: the identity (start ticks) it was taken for, the    *)
(* counters that the next scan subtracts, cached texts with their age, and *)
(* the last GPU snapshot.  A scan that fails half way restores the samples *)
(* from a log of the ones it changed.                                      *)
(*                                                                         *)
(* Counters and texts are represented by what the properties tell apart:   *)
(* a text by the process it was read from, a counter by the scan time at   *)
(* which it was read.  The heap holds the strings the samples point to, so *)
(* that what the rollback and the commit free can be checked.              *)
(***************************************************************************)
EXTENDS Integers, Sequences, FiniteSets

CONSTANTS
    Pids,             \* the PIDs processes may have (positive integers)
    FlagSets,         \* the scan_flags callers pass: sets of "EXECUTABLE", "CGROUP", "GPU"
    Texts,            \* the texts modelled: a subset of {"command", "executable", "cgroup"}
    MaxInstance,      \* bound: processes that are ever started
    MaxScans,         \* bound: scans that are ever begun
    GenerationModulus, \* UINT_MAX + 1
    MetadataRefresh,  \* LSM_PROCESS_METADATA_REFRESH_SECONDS, in scan times
    GpuRefresh,       \* LSM_PROCESS_GPU_REFRESH_SECONDS
    GpuNegativeRefresh, \* LSM_PROCESS_GPU_NEGATIVE_REFRESH_SECONDS
    AllocationFails,  \* BOOLEAN: whether strdup may fail
    IoRefused         \* BOOLEAN: whether /proc/PID/io of a live process may be unreadable

\* What the constants stand for.
BackendAssumption ==
    /\ Pids \subseteq Nat \ {0} /\ IsFiniteSet(Pids)
    /\ Texts \subseteq {"command", "executable", "cgroup"}
    /\ GenerationModulus \in Nat /\ GenerationModulus > 2
    /\ {MaxInstance, MaxScans, MetadataRefresh, GpuRefresh, GpuNegativeRefresh}
          \subseteq Nat

VARIABLES
    alive,        \* the kernel: PID -> start ticks of the process that has it, 0 if none
    born,         \* the last start ticks given out
    phase,        \* where the backend is
    clock,        \* sampled_at of the running or the last scan
    samples,      \* backend->samples[0 .. sample_count)
    heap,         \* the strings allocated: pointer -> the process the text came from
    total_at,     \* when previous_total_cpu_ticks was read, 0 before the first scan
    generation,   \* backend->generation
    scan,         \* the locals of lsm_process_scan
    processes,    \* the rows collected, or handed to the caller
    outcome,      \* how the last scan ended
    retained      \* history: what the samples said when a scan that did not publish began

vars == <<alive, born, phase, clock, samples, heap, total_at, generation,
          scan, processes, outcome, retained>>

\* A pointer is named after its allocation: scan time, PID and text.
NULL == <<>>

-----------------------------------------------------------------------------
(* The kernel's side. *)

\* A process exits and is reaped: its PID is free again.
Exit(pid) ==
    /\ alive[pid] # 0
    /\ alive' = [alive EXCEPT ![pid] = 0]
    /\ scan' = [scan EXCEPT !.listable = @ \ {pid}]
    /\ UNCHANGED <<born, phase, clock, samples, heap, total_at, generation,
                   processes, outcome, retained>>

\* A process starts under a free PID, with start ticks no earlier process had.
Spawn(pid) ==
    /\ alive[pid] = 0
    /\ born < MaxInstance
    /\ born' = born + 1
    /\ alive' = [alive EXCEPT ![pid] = born + 1]
    /\ UNCHANGED <<phase, clock, samples, heap, total_at, generation, scan,
                   processes, outcome, retained>>

\* The start ticks in the stat record of a PID, 0 when it cannot be read.
read_process_stat(pid) == alive[pid]

-----------------------------------------------------------------------------
(* The sample vector. *)

NoText == [ptr |-> NULL, sampled_at |-> 0]
NoGpu == [valid |-> FALSE, of |-> 0, shown |-> {}, sampled_at |-> 0]

\* The zeroed sample find_or_create_sample appends.
EmptySample(pid) ==
    [pid |-> pid, start_ticks |-> 0, sampled_at |-> 0, io_at |-> 0,
     io_available |-> FALSE, text |-> [t \in Texts |-> NoText], gpu |-> NoGpu,
     generation |-> 0]

\* The binary search of the prefix, which is sorted: the first position (from 0)
\* whose PID is not smaller has every smaller one before it.
LowerBound(pid) ==
    Cardinality({i \in 1 .. scan.searchable : samples[i].pid < pid})

Found(pid) ==
    /\ LowerBound(pid) < scan.searchable
    /\ samples[LowerBound(pid) + 1].pid = pid

\* Some of the samples, by their index.
Part(indexes) == [i \in indexes |-> samples[i]]

\* Every string pointer that some samples hold.
Pointers(some) ==
    {some[i].text[t].ptr : i \in DOMAIN some, t \in Texts} \ {NULL}

Free(ptrs) == [p \in DOMAIN heap \ ptrs |-> heap[p]]

\* The logged copies of samples, by index, and what the logged samples are now.
Befores == scan.mutations
Afters == Part(DOMAIN scan.mutations)

\* The pointers of some samples that were replaced in their counterparts.
Replaced(dropped, kept) ==
    {p \in Pointers(dropped) : \E i \in DOMAIN dropped, t \in Texts :
        p = dropped[i].text[t].ptr /\ p # kept[i].text[t].ptr}

\* What the samples say: each text instead of the pointer to it.
Contents ==
    [i \in DOMAIN samples |->
        [samples[i] EXCEPT !.text = [t \in Texts |->
            LET p == samples[i].text[t].ptr
            IN  IF p \in DOMAIN heap THEN heap[p] ELSE IF p = NULL THEN 0 ELSE -1]]]

-----------------------------------------------------------------------------
(* Opening the scan. *)

NextGeneration == IF (generation + 1) % GenerationModulus = 0 THEN 1
                  ELSE (generation + 1) % GenerationModulus

NoRow == [pid |-> 0, instance_id |-> 0, same |-> FALSE,
          text |-> [t \in Texts |-> 0], cached |-> {}, enrich |-> FALSE,
          io_available |-> FALSE, cpu_from |-> 0, total_from |-> 0,
          io_from |-> 0, interval_from |-> 0, gpu_base |-> {}]

NoScan == [flags |-> {}, searchable |-> 0, mutations |-> <<>>,
           original_generation |-> 0, listable |-> {}, seen |-> {}, index |-> 0,
           row |-> NoRow]

scan_begin(flags) ==
    /\ phase = "idle"
    /\ clock < MaxScans
    /\ clock' = clock + 1
    /\ phase' = "readdir"
    /\ generation' = NextGeneration
    /\ scan' = [NoScan EXCEPT !.flags = flags, !.searchable = Len(samples),
                              !.original_generation = generation,
                              !.listable = {pid \in Pids : alive[pid] # 0}]
    /\ processes' = {}
    /\ outcome' = "none"
    /\ retained' = Contents
    /\ UNCHANGED <<alive, born, samples, heap, total_at>>

\* /proc/stat unreadable, /proc not opened, or no memory for the row array or
\* the mutation log: the scan returns 0 before it has touched anything.
scan_refused ==
    /\ phase = "idle"
    /\ processes' = {}
    /\ outcome' = "refused"
    /\ UNCHANGED <<alive, born, phase, clock, samples, heap, total_at, generation,
                   scan, retained>>

-----------------------------------------------------------------------------
(* One directory entry. *)

\* The log with a copy of one more sample.
Logged(index) ==
    [i \in DOMAIN scan.mutations \union {index} |->
        IF i = index THEN samples[index] ELSE scan.mutations[i]]

\* readdir yields a PID, each at most once in an enumeration.  The stat record
\* gives the identity; the sample is found or appended, and a sample of an
\* earlier scan is copied into the log.  An entry whose stat record cannot be
\* read any more is skipped.
read_stat(pid) ==
    LET known == Found(pid)
        index == IF known THEN LowerBound(pid) + 1 ELSE Len(samples) + 1
        sample == IF known THEN samples[index] ELSE EmptySample(pid)
    IN  /\ phase = "readdir"
        /\ read_process_stat(pid) # 0
        /\ pid \notin scan.seen
        /\ samples' = IF known THEN samples ELSE Append(samples, sample)
        /\ scan' = [scan EXCEPT
                      !.seen = @ \union {pid},
                      !.index = index,
                      !.mutations = IF known THEN Logged(index) ELSE @,
                      !.row = [NoRow EXCEPT !.pid = pid,
                                            !.instance_id = read_process_stat(pid),
                                            !.same = /\ sample.start_ticks = read_process_stat(pid)
                                                     /\ sample.start_ticks # 0]]
        /\ phase' = "metadata"
        /\ UNCHANGED <<alive, born, clock, heap, total_at, generation,
                       processes, outcome, retained>>

Sample == samples[scan.index]

\* The PID of the entry still has the identity of the row.
process_identity_pid == read_process_stat(scan.row.pid) = scan.row.instance_id

Wanted ==
    {t \in Texts : \/ t = "command"
                   \/ t = "executable" /\ "EXECUTABLE" \in scan.flags
                   \/ t = "cgroup" /\ "CGROUP" \in scan.flags}

\* The cached text is that of the same process, and young enough.
\* Mutant: the identity is not compared.
Mut_Cached(t) ==
    /\ Sample.text[t].ptr # NULL
    /\ clock - Sample.text[t].sampled_at < MetadataRefresh

Cached(t) ==
    /\ scan.row.same
    /\ Sample.text[t].ptr # NULL
    /\ clock - Sample.text[t].sampled_at < MetadataRefresh

\* What reading a text of the PID gives at this moment: the process it belongs
\* to, 0 for none.  A command line that cannot be opened is replaced by the
\* name in the stat record.
ReadText(t) ==
    IF alive[scan.row.pid] # 0 THEN alive[scan.row.pid]
    ELSE IF t = "command" THEN scan.row.instance_id ELSE 0

NewPointer(t) == <<clock, scan.row.pid, t>>

\* The sample with its texts replaced by the copies just allocated.
WithTexts(s, copied) ==
    [s EXCEPT !.text = [t \in Texts |->
        IF t \in copied THEN [ptr |-> NewPointer(t), sampled_at |-> clock]
        ELSE s.text[t]]]

Allocated(copied, content) ==
    [p \in DOMAIN heap \union {NewPointer(t) : t \in copied} |->
        IF p \in DOMAIN heap THEN heap[p] ELSE content[p[3]]]

\* The copies strdup makes of some texts: all of them, or fewer.
Copies(texts) == IF AllocationFails THEN SUBSET texts ELSE {texts}

\* /proc/PID/io of a process that is gone cannot be read; that of a live one may
\* be refused (another user's) or lack a line.
io_readable ==
    IF alive[scan.row.pid] = 0 THEN {FALSE}
    ELSE IF IoRefused THEN BOOLEAN ELSE {TRUE}

\* The command and the executable, from the sample or from /proc (a failed
\* strdup leaves the sample's text and its age alone), and the I/O totals.  The
\* cgroup comes from the sample too when it may, else lsm_process_enrich reads
\* it after a first check of the identity.
read_metadata ==
    LET own == Wanted \ {"cgroup"}
        hits == {t \in Wanted : Cached(t)}
        misses == own \ hits
        text == [t \in Texts |-> IF t \in hits THEN heap[Sample.text[t].ptr]
                                 ELSE IF t \in misses THEN ReadText(t) ELSE 0]
    IN  /\ phase = "metadata"
        /\ \E copied \in Copies(misses) :
              /\ samples' = [samples EXCEPT ![scan.index] = WithTexts(@, copied)]
              /\ heap' = Allocated(copied, text)
        /\ \E io \in io_readable :
              scan' = [scan EXCEPT
                         !.row.text = text,
                         !.row.cached = hits,
                         !.row.io_available = io,
                         !.row.enrich = /\ "cgroup" \in Wanted \ hits
                                        /\ process_identity_pid]
        /\ phase' = "enrich"
        /\ UNCHANGED <<alive, born, clock, total_at, generation, processes,
                       outcome, retained>>

\* The reads of lsm_process_enrich.
enrich ==
    /\ phase = "enrich"
    /\ scan' = IF scan.row.enrich
               THEN [scan EXCEPT !.row.text["cgroup"] = ReadText("cgroup")]
               ELSE scan
    /\ phase' = "finish"
    /\ UNCHANGED <<alive, born, clock, samples, heap, total_at, generation,
                   processes, outcome, retained>>

\* The second identity check of lsm_process_enrich: what was read for a PID
\* that has changed hands since is cleared.
CheckedText ==
    IF scan.row.enrich /\ ~process_identity_pid
    THEN [scan.row.text EXCEPT !["cgroup"] = 0]
    ELSE scan.row.text

\* A process without DRM descriptors, or gone, has no snapshot to read.
gpu_readable == IF alive[scan.row.pid] # 0 THEN BOOLEAN ELSE {FALSE}

gpu_due ==
    LET g == Sample.gpu
        refresh == IF scan.row.same /\ ~g.valid THEN GpuNegativeRefresh ELSE GpuRefresh
    IN  ~scan.row.same \/ g.sampled_at = 0 \/ clock - g.sampled_at >= refresh

\* The previous snapshot enters the new figures: normalised against it, and the
\* engine time is the difference to it.
gpu_delta == scan.row.same /\ Sample.gpu.valid

gpu_sampled(readable) ==
    IF readable
    THEN [valid |-> TRUE, of |-> alive[scan.row.pid],
          shown |-> {alive[scan.row.pid]}
                      \union (IF gpu_delta THEN {Sample.gpu.of} ELSE {}),
          sampled_at |-> clock]
    ELSE [valid |-> FALSE, of |-> Sample.gpu.of, shown |-> {}, sampled_at |-> clock]

\* The processes whose retained figures the row's GPU column is made from.
gpu_base(readable) ==
    IF ~gpu_due THEN Sample.gpu.shown
    ELSE IF readable /\ gpu_delta THEN {Sample.gpu.of}
    ELSE {}

\* The rest of the entry: the cgroup is kept, the rates are computed from the
\* sample's counters, and the sample takes the identity and counters just read.
finish_entry ==
    LET row == scan.row
        gpu_wanted == "GPU" \in scan.flags
        refreshed == Wanted \intersect ({"cgroup"} \ row.cached)
    IN  /\ phase = "finish"
        /\ \E copied \in Copies(refreshed),
              readable \in IF gpu_wanted /\ gpu_due THEN gpu_readable ELSE {FALSE} :
              /\ heap' = Allocated(copied, CheckedText)
              /\ samples' = [samples EXCEPT ![scan.index] =
                    [WithTexts(Sample, copied) EXCEPT
                       !.gpu = IF gpu_wanted /\ gpu_due THEN gpu_sampled(readable)
                               ELSE Sample.gpu,
                       !.start_ticks = row.instance_id,
                       !.io_at = IF row.io_available THEN clock ELSE Sample.io_at,
                       !.io_available = row.io_available,
                       !.sampled_at = clock,
                       !.generation = generation]]
              /\ processes' = processes \union
                    {[row EXCEPT
                        !.text = CheckedText,
                        !.total_from = total_at,
                        !.cpu_from = IF row.same THEN Sample.sampled_at ELSE 0,
                        !.interval_from = Sample.sampled_at,
                        !.io_from = IF row.same /\ row.io_available /\ Sample.io_available
                                    THEN Sample.io_at ELSE 0,
                        !.gpu_base = IF gpu_wanted THEN gpu_base(readable) ELSE {}]}
        /\ phase' = "readdir"
        /\ scan' = [scan EXCEPT !.row = NoRow, !.index = 0]
        /\ UNCHANGED <<alive, born, clock, total_at, generation, outcome, retained>>

-----------------------------------------------------------------------------
(* Closing the scan. *)

\* readdir has listed every process that was there all the time; one that
\* started under a PID already passed may be missing.
AllListed == scan.listable \subseteq scan.seen

\* The logged samples as they were, without the appended ones.
\* Mutant: the log is not applied.
Mut_Restored == SubSeq(samples, 1, scan.searchable)

Restored ==
    [i \in 1 .. scan.searchable |->
        IF i \in DOMAIN scan.mutations THEN scan.mutations[i] ELSE samples[i]]

\* readdir, closedir or an array reservation fails: rollback_sample_mutations
\* frees the copies made by this scan, restores the logged samples, drops the
\* appended ones and gives the generation back.
rollback ==
    /\ phase = "readdir"
    /\ heap' = Free(Replaced(Afters, Befores)
                    \union Pointers(Part(scan.searchable + 1 .. Len(samples))))
    /\ samples' = Restored
    /\ generation' = scan.original_generation
    /\ scan' = NoScan
    /\ processes' = {}
    /\ outcome' = "failed"
    /\ phase' = "idle"
    /\ UNCHANGED <<alive, born, clock, total_at, retained>>

\* Entries of other generations are dropped in place; the vector is sorted
\* again only when this scan appended to it.
Kept == {i \in DOMAIN samples : samples[i].generation = generation}

SortKey(i) == IF Len(samples) > scan.searchable THEN samples[i].pid ELSE i

Position(i) == Cardinality({j \in Kept : SortKey(j) <= SortKey(i)})

Compacted ==
    [n \in 1 .. Cardinality(Kept) |-> samples[CHOOSE i \in Kept : Position(i) = n]]

\* The replaced strings are freed, the CPU baseline is taken over, samples of
\* vanished PIDs are released, and the rows go to the caller.
commit ==
    /\ phase = "readdir"
    /\ AllListed
    /\ heap' = Free(Replaced(Befores, Afters)
                    \union Pointers(Part(DOMAIN samples \ Kept)))
    /\ samples' = Compacted
    /\ total_at' = clock
    /\ scan' = NoScan
    /\ outcome' = "published"
    /\ phase' = "idle"
    /\ retained' = <<>>
    /\ UNCHANGED <<alive, born, clock, generation, processes>>

lsm_process_backend_destroy ==
    /\ phase = "idle"
    /\ heap' = Free(Pointers(samples))
    /\ samples' = <<>>
    /\ phase' = "destroyed"
    /\ processes' = {}
    /\ retained' = <<>>
    /\ UNCHANGED <<alive, born, clock, total_at, generation, scan, outcome>>

-----------------------------------------------------------------------------
\* lsm_process_backend_create zeroes the context.
Init ==
    /\ alive = [pid \in Pids |-> 0]
    /\ born = 0
    /\ phase = "idle"
    /\ clock = 0
    /\ samples = <<>>
    /\ heap = <<>>
    /\ total_at = 0
    /\ generation = 0
    /\ scan = NoScan
    /\ processes = {}
    /\ outcome = "none"
    /\ retained = <<>>

Next ==
    \/ \E pid \in Pids : Exit(pid) \/ Spawn(pid) \/ read_stat(pid)
    \/ \E flags \in FlagSets : scan_begin(flags)
    \/ scan_refused
    \/ read_metadata
    \/ enrich
    \/ finish_entry
    \/ rollback
    \/ commit
    \/ lsm_process_backend_destroy

Spec == Init /\ [][Next]_vars

-----------------------------------------------------------------------------
(* Properties. *)

TextType == [ptr : {NULL} \union ((1 .. MaxScans) \X Pids \X Texts),
             sampled_at : 0 .. MaxScans]

TypeOK ==
    /\ alive \in [Pids -> 0 .. MaxInstance]
    /\ born \in 0 .. MaxInstance
    /\ phase \in {"idle", "readdir", "metadata", "enrich", "finish", "destroyed"}
    /\ clock \in 0 .. MaxScans
    /\ total_at \in 0 .. MaxScans
    /\ generation \in 0 .. GenerationModulus - 1
    /\ Len(samples) <= Cardinality(Pids)
    /\ \A i \in DOMAIN samples :
          /\ samples[i].pid \in Pids
          /\ samples[i].start_ticks \in 0 .. MaxInstance
          /\ samples[i].text \in [Texts -> TextType]
          /\ samples[i].gpu.sampled_at \in 0 .. MaxScans
    /\ \A p \in DOMAIN heap : heap[p] \in 0 .. MaxInstance
    /\ outcome \in {"none", "refused", "failed", "published"}

\* After a complete scan the vector holds exactly one sample for each row, in
\* PID order and with the row's identity: what the binary search of the next
\* scan and the drop of vanished processes rely on.
SamplesIndexed ==
    /\ phase = "idle" => \A i, j \in DOMAIN samples : i < j => samples[i].pid < samples[j].pid
    /\ outcome = "published" /\ phase = "idle" =>
          {<<samples[i].pid, samples[i].start_ticks>> : i \in DOMAIN samples}
            = {<<r.pid, r.instance_id>> : r \in processes}

\* A scan that fails after changing samples leaves no trace: counters, texts,
\* GPU figures and membership say what they said when it began.
FailedScanLeavesNoTrace ==
    outcome = "failed" /\ phase = "idle" => Contents = retained

\* The strings on the heap are those the samples point to and, during a scan,
\* those the log may still restore: no string is leaked, none is freed while a
\* sample points to it, and no two samples share one.
StringsOwned ==
    /\ DOMAIN heap = Pointers(samples) \union Pointers(Befores)
    /\ \A i, j \in DOMAIN samples, t, u \in Texts :
          samples[i].text[t].ptr = samples[j].text[u].ptr /\ samples[i].text[t].ptr # NULL
            => i = j /\ t = u

\* A rate divides two differences over the same window: the process's CPU time
\* counts from the scan whose total CPU time is the baseline, and its I/O bytes
\* from the moment the interval is measured from.
RatesShareWindow ==
    \A r \in processes :
        /\ r.cpu_from # 0 => r.cpu_from = r.total_from
        /\ r.io_from # 0 => r.io_from = r.interval_from

\* A text that lsm_process_enrich reads belongs to the identity of the row,
\* although the PID may change hands between any two of its steps.
EnrichedOwned ==
    \A r \in processes :
        "cgroup" \in Texts /\ r.enrich => r.text["cgroup"] \in {0, r.instance_id}

\* A text or GPU figure taken from the sample instead of /proc is that of the
\* process in the row, never of an earlier one with its PID.  True only while
\* every scan asks for the same columns and every strdup of a text succeeds:
\* the entry takes the new identity in either case (line 1216), but a column
\* that was not asked for, and a text that could not be copied (lines 1072,
\* 1090 and 1118), keep what they had, for the next scan to show as the new
\* process's.
RetainedOwned ==
    \A r \in processes :
        /\ \A t \in r.cached : r.text[t] \in {0, r.instance_id}
        /\ r.gpu_base \subseteq {r.instance_id}

=============================================================================
