------------------------- MODULE ProcessBackendProofs -------------------------
(***************************************************************************)
(* What the process backends of Linux and Windows guarantee, for any PIDs, *)
(* scan flags, texts and refresh times and any number of processes and     *)
(* scans.  The studies that MCCollectors makes of the Linux backend differ *)
(* in what they let vary, so the lemmas are about the backend of a study   *)
(* s, of which nothing is known but its assumption.  An inductive          *)
(* invariant has a name that ends in Inv; lemma ...Start says that it      *)
(* holds at first, lemma ...Step that every step keeps it.                 *)
(***************************************************************************)
EXTENDS Integers, Sequences, FiniteSetTheorems, WellFoundedInduction, TLAPS

CONSTANTS
    MaxInstance, MaxScans, GenerationModulus, MetadataRefresh, GpuRefresh,
    GpuNegativeRefresh, ReusedPids

VARIABLES
    alive, instances, phase, scan_clock, samples, heap, total_at, generation,
    scan, processes, scan_outcome, retained,
    win_alive, created, win_samples, win_backup, accounts, win_generation,
    system_at, win_scan, win_processes, enrich, last_scan

processVars == <<alive, instances, phase, scan_clock, samples, heap,
                 total_at, generation, scan, processes, scan_outcome,
                 retained>>
winProcessVars ==
    <<win_alive, created, win_samples, win_backup, accounts, win_generation,
      system_at, win_scan, win_processes, enrich, last_scan>>

(* The Linux backend of a study: what is different from study to study.     *)
Backend(s) == INSTANCE ProcessBackend WITH
    Pids <- s.pids, MaxScans <- s.scans, FlagSets <- s.flags, Texts <- s.texts,
    AllocationFails <- s.fails, IoRefused <- s.refused,
    born <- instances, clock <- scan_clock, outcome <- scan_outcome

(* The Windows backend, with one PID that changes hands.                    *)
WindowsProcesses == INSTANCE WindowsProcessBackend WITH
    Pids <- ReusedPids, alive <- win_alive, samples <- win_samples,
    backup <- win_backup, generation <- win_generation, scan <- win_scan,
    processes <- win_processes, completed <- last_scan

-----------------------------------------------------------------------------
(* What the proofs need of numbers.                                         *)

(* There is a least number in any set of numbers.                           *)
LEMMA LeastOf ==
    ASSUME NEW S \in SUBSET Nat, S # {}
    PROVE  \E n \in S : \A m \in S : n <= m
<1> DEFINE Less == {ss \in Nat \X Nat : ss[1] < ss[2]}
<1>1. IsWellFoundedOn(Less, Nat)
    BY NatLessThanWellFounded DEF OpToRel
<1> HIDE DEF Less
<1>2. PICK n \in S : \A m \in S : ~(<<m, n>> \in Less)
    BY <1>1, WFMin
<1>3. ASSUME NEW m \in S, ~(n <= m) PROVE FALSE
  <2>1. m \in Nat /\ n \in Nat /\ m < n
    BY <1>3
  <2>2. <<m, n>> \in Less
    BY <2>1 DEF Less
  <2> QED
    BY <1>2, <2>2
<1> QED
    BY <1>3

(* Of finitely many things one has the greatest value: a smallest set that  *)
(* had none would have one as soon as a member is taken away.               *)
LEMMA GreatestOf ==
    ASSUME NEW S, IsFiniteSet(S), S # {}, NEW f, \A s \in S : f[s] \in Nat
    PROVE  \E s \in S : \A t \in S : f[s] >= f[t]
<1> DEFINE Tops(T) == \E s \in T : \A t \in T : f[s] >= f[t]
           Bad == {T \in SUBSET S : T # {} /\ ~Tops(T)}
           Sizes == {Cardinality(T) : T \in Bad}
<1>1. SUFFICES ASSUME Bad # {} PROVE FALSE
    OBVIOUS
<1>2. \A T \in SUBSET S : IsFiniteSet(T) /\ Cardinality(T) \in Nat
    BY FS_Subset, FS_CardinalityType
<1>3. Sizes \in SUBSET Nat /\ Sizes # {}
    BY <1>1, <1>2
<1> HIDE DEF Tops
<1>4. PICK T \in Bad : \A U \in Bad : Cardinality(T) <= Cardinality(U)
  <2> HIDE DEF Bad
  <2>1. PICK n \in Sizes : \A m \in Sizes : n <= m
    BY <1>3, LeastOf
  <2> QED
    BY <2>1
<1>5. PICK x \in T : TRUE
    BY <1>4
<1> DEFINE U == T \ {x}
<1>6. Cardinality(U) = Cardinality(T) - 1 /\ U \in SUBSET S
    BY <1>2, <1>4, <1>5, FS_RemoveElement
<1>7. U \notin Bad
    BY <1>2, <1>4, <1>6
<1>8. CASE U = {}
  <2>1. T = {x} /\ f[x] \in Nat
    BY <1>4, <1>5, <1>8
  <2> QED
    BY <1>4, <2>1 DEF Tops
<1>9. CASE U # {}
  <2>1. PICK y \in U : \A t \in U : f[y] >= f[t]
    BY <1>6, <1>7, <1>9 DEF Tops
  <2>2. T = U \cup {x} /\ \A t \in T : f[t] \in Nat
    BY <1>4, <1>5
  <2>3. \/ \A t \in T : f[y] >= f[t]
        \/ \A t \in T : f[x] >= f[t]
    BY <2>1, <2>2
  <2> QED
    BY <1>4, <1>5, <2>1, <2>3 DEF Tops
<1> QED
    BY <1>8, <1>9

(* The position of a thing among those of a set, by their values.           *)
RankOf(d, D, f) == Cardinality({m \in D : f[m] <= f[d]})

(* Of finitely many things with different values there is an i-th one: a    *)
(* smallest set without would still be without when the thing with the      *)
(* greatest value is taken away.                                            *)
LEMMA RankedBy ==
    ASSUME NEW D, IsFiniteSet(D), NEW f \in [D -> Nat],
           \A d, e \in D : f[d] = f[e] => d = e, NEW i \in 1 .. Cardinality(D)
    PROVE  \E n \in D : RankOf(n, D, f) = i
<1> DEFINE Has(T) == \E n \in T : Cardinality({m \in T : f[m] <= f[n]}) = i
           Bad == {T \in SUBSET D : i \in 1 .. Cardinality(T) /\ ~Has(T)}
           Sizes == {Cardinality(T) : T \in Bad}
<1>1. SUFFICES ASSUME Bad # {} PROVE FALSE
    BY DEF RankOf
<1>2. \A T \in SUBSET D : IsFiniteSet(T) /\ Cardinality(T) \in Nat
    BY FS_Subset, FS_CardinalityType
<1>3. Sizes \in SUBSET Nat /\ Sizes # {}
    BY <1>1, <1>2
<1> HIDE DEF Has
<1>4. PICK T \in Bad : \A U \in Bad : Cardinality(T) <= Cardinality(U)
  <2> HIDE DEF Bad
  <2>1. PICK n \in Sizes : \A m \in Sizes : n <= m
    BY <1>3, LeastOf
  <2> QED
    BY <2>1
<1>5. T # {} /\ IsFiniteSet(T) /\ (\A t \in T : f[t] \in Nat)
      /\ Cardinality(T) \in Nat /\ i \in 1 .. Cardinality(T)
    BY <1>2, <1>4, FS_EmptySet
<1>6. PICK x \in T : \A t \in T : f[x] >= f[t]
    BY <1>5, GreatestOf
<1> DEFINE U == T \ {x}
<1>7. Cardinality(U) = Cardinality(T) - 1 /\ U \in SUBSET D
    BY <1>4, <1>5, <1>6, FS_RemoveElement
<1>8. CASE i = Cardinality(T)
  <2>1. {m \in T : f[m] <= f[x]} = T
    BY <1>5, <1>6
  <2> QED
    BY <1>4, <1>6, <1>8, <2>1 DEF Has
<1>9. CASE i # Cardinality(T)
  <2>1. i \in 1 .. Cardinality(U) /\ U \notin Bad
    BY <1>4, <1>5, <1>7, <1>9
  <2>2. PICK n \in U : Cardinality({m \in U : f[m] <= f[n]}) = i
    BY <1>7, <2>1 DEF Has
  <2>3. ~(f[x] <= f[n])
    BY <1>4, <1>5, <1>6, <2>2
  <2>4. {m \in T : f[m] <= f[n]} = {m \in U : f[m] <= f[n]}
    BY <2>3
  <2> QED
    BY <1>4, <2>2, <2>4 DEF Has
<1> QED
    BY <1>8, <1>9

(* What has the greater value comes later.                                  *)
LEMMA RanksGrow ==
    ASSUME NEW D, IsFiniteSet(D), NEW f \in [D -> Nat], NEW x \in D, NEW y \in D
    PROVE  /\ RankOf(x, D, f) \in 1 .. Cardinality(D)
           /\ f[x] < f[y] => RankOf(x, D, f) < RankOf(y, D, f)
<1> DEFINE A == {m \in D : f[m] <= f[x]}
           B == {m \in D : f[m] <= f[y]}
<1>1. A \subseteq D /\ B \subseteq D /\ x \in A
    OBVIOUS
<1>2. f[x] < f[y] => A \subseteq B /\ y \in B /\ y \notin A
    OBVIOUS
<1> HIDE DEF A, B
<1>3. /\ IsFiniteSet(A) /\ IsFiniteSet(B) /\ Cardinality(A) \in Nat
      /\ Cardinality(B) \in Nat /\ Cardinality(D) \in Nat
      /\ Cardinality(A) <= Cardinality(D)
    BY <1>1, FS_Subset, FS_CardinalityType
<1>4. Cardinality(A) # 0
    BY <1>1, <1>3, FS_EmptySet
<1>5. f[x] < f[y] => Cardinality(A) <= Cardinality(B) /\ Cardinality(A) # Cardinality(B)
    BY <1>2, <1>3, FS_Subset
<1>6. /\ Cardinality(A) \in 1 .. Cardinality(D)
      /\ f[x] < f[y] => Cardinality(A) < Cardinality(B)
    BY <1>3, <1>4, <1>5
<1> QED
    BY <1>6 DEF A, B, RankOf

(* In a finite set of numbers there is an i-th one.                         *)
LEMMA Ranked ==
    ASSUME NEW D \in SUBSET Nat, IsFiniteSet(D), NEW i \in 1 .. Cardinality(D)
    PROVE  \E n \in D : Cardinality({m \in D : m <= n}) = i
<1> DEFINE id == [d \in D |-> d]
<1>1. \A d \in D : id[d] = d
    OBVIOUS
<1>2. id \in [D -> Nat] /\ \A d, e \in D : id[d] = id[e] => d = e
    OBVIOUS
<1> HIDE DEF id
<1>3. PICK n \in D : RankOf(n, D, id) = i
    BY <1>2, RankedBy
<1>4. {m \in D : id[m] <= id[n]} = {m \in D : m <= n}
    BY <1>1
<1> QED
    BY <1>3, <1>4 DEF RankOf

-----------------------------------------------------------------------------
(* The Linux backend: where a scan is in the vector of samples.             *)

Scanning == phase \in {"readdir", "metadata", "enrich", "finish"}
InRow == phase \in {"metadata", "enrich", "finish"}

(* The samples a vector may hold.                                           *)
SamplesOf(s) ==
    [pid : s.pids, start_ticks : 0 .. MaxInstance, sampled_at : 0 .. s.scans,
     io_at : 0 .. s.scans, io_available : BOOLEAN,
     text : [s.texts -> Backend(s)!TextType],
     gpu : [valid : BOOLEAN, of : 0 .. MaxInstance,
            shown : SUBSET (0 .. MaxInstance), sampled_at : 0 .. s.scans],
     generation : 0 .. GenerationModulus - 1]

RowShaped(r) ==
    r = [pid |-> r.pid, instance_id |-> r.instance_id, same |-> r.same,
         text |-> r.text, cached |-> r.cached, enrich |-> r.enrich,
         io_available |-> r.io_available, cpu_from |-> r.cpu_from,
         total_from |-> r.total_from, io_from |-> r.io_from,
         interval_from |-> r.interval_from, gpu_base |-> r.gpu_base]

ScanShaped(x) ==
    x = [flags |-> x.flags, searchable |-> x.searchable,
         mutations |-> x.mutations, original_generation |-> x.original_generation,
         listable |-> x.listable, seen |-> x.seen, index |-> x.index,
         row |-> x.row]

BackendTypes(s) ==
    /\ instances \in 0 .. MaxInstance /\ alive \in [s.pids -> 0 .. instances]
    /\ phase \in {"idle", "readdir", "metadata", "enrich", "finish", "destroyed"}
    /\ scan_clock \in 0 .. s.scans /\ total_at \in 0 .. scan_clock
    /\ (Scanning => scan_clock > 0)
    /\ generation \in 0 .. GenerationModulus - 1
    /\ samples \in Seq(SamplesOf(s))
    /\ ScanShaped(scan) /\ RowShaped(scan.row)
    /\ scan.seen \in SUBSET s.pids /\ scan.searchable \in Nat
    /\ scan.row.io_available \in BOOLEAN
    /\ scan.original_generation \in 0 .. GenerationModulus - 1
    /\ scan.mutations \in [DOMAIN scan.mutations -> SamplesOf(s)]
    /\ scan_outcome \in {"none", "refused", "failed", "published"}

(* Where a scan is in the vector: a sorted prefix it searches, what it      *)
(* appended behind it, and a copy of every sample of the prefix it has      *)
(* come to.                                                                 *)
ScanPlaced ==
    /\ \A i, j \in DOMAIN samples : samples[i].pid = samples[j].pid => i = j
    /\ \A i, j \in DOMAIN samples :
          i < j /\ (Scanning => j <= scan.searchable) => samples[i].pid < samples[j].pid
    /\ ~Scanning => DOMAIN scan.mutations = {}
    /\ Scanning =>
          /\ scan.searchable <= Len(samples)
          /\ \A i \in DOMAIN samples :
                i > scan.searchable => samples[i].pid \in scan.seen
          /\ DOMAIN scan.mutations =
                {i \in 1 .. scan.searchable : samples[i].pid \in scan.seen}
          /\ \A i \in DOMAIN scan.mutations : scan.mutations[i].pid = samples[i].pid
    /\ InRow =>
          /\ scan.index \in DOMAIN samples /\ samples[scan.index].pid = scan.row.pid
          /\ scan.row.pid \in scan.seen /\ scan.row.instance_id \in 1 .. instances

(* The generation of a scan marks the samples it has finished, and no       *)
(* other, also after the number has wrapped.                                *)
Finished(i) == samples[i].pid \in scan.seen /\ ~(InRow /\ i = scan.index)

(* The samples of the prefix as the scan found them.                        *)
Original(i) == IF i \in DOMAIN scan.mutations THEN scan.mutations[i] ELSE samples[i]

GenerationsTell ==
    /\ ~Scanning => \A i \in DOMAIN samples : samples[i].generation = generation
    /\ Scanning =>
          /\ scan.original_generation # generation /\ generation # 0
          /\ \A i \in 1 .. scan.searchable :
                Original(i).generation = scan.original_generation
          /\ \A i \in DOMAIN samples :
                samples[i].generation = generation <=> Finished(i)
    /\ phase = "destroyed" => samples = <<>>

PlacesInv(s) == BackendTypes(s) /\ ScanPlaced /\ GenerationsTell

(* The operators on finite sets are the same in the backend.                *)
LEMMA BackendFinite ==
    ASSUME NEW s, NEW S
    PROVE  /\ Backend(s)!IsFiniteSet(S) <=> IsFiniteSet(S)
           /\ Backend(s)!Cardinality(S) = Cardinality(S)
    BY DEF Backend!IsFiniteSet, Backend!Cardinality, IsFiniteSet, Cardinality

(* What is assumed of the constants of the Linux backend.                   *)
LEMMA BackendConstants ==
    ASSUME NEW s, Backend(s)!BackendAssumption
    PROVE  /\ s.pids \in SUBSET (Nat \ {0}) /\ IsFiniteSet(s.pids)
           /\ GenerationModulus \in Nat /\ GenerationModulus > 2
           /\ MaxInstance \in Nat /\ s.scans \in Nat
    BY BackendFinite DEF Backend!BackendAssumption

(* What a sample is made of.                                                *)
LEMMA SampleFields ==
    ASSUME NEW s, NEW x \in SamplesOf(s)
    PROVE  /\ x.pid \in s.pids /\ x.start_ticks \in 0 .. MaxInstance
           /\ x.sampled_at \in 0 .. s.scans /\ x.io_at \in 0 .. s.scans
           /\ x.io_available \in BOOLEAN
           /\ x.text \in [s.texts -> Backend(s)!TextType]
           /\ x.gpu \in [valid : BOOLEAN, of : 0 .. MaxInstance,
                         shown : SUBSET (0 .. MaxInstance), sampled_at : 0 .. s.scans]
           /\ x.generation \in 0 .. GenerationModulus - 1
           /\ x = [pid |-> x.pid, start_ticks |-> x.start_ticks,
                   sampled_at |-> x.sampled_at, io_at |-> x.io_at,
                   io_available |-> x.io_available, text |-> x.text, gpu |-> x.gpu,
                   generation |-> x.generation]
    BY DEF SamplesOf

(* The table of samples as a sequence.                                      *)
LEMMA SamplesTyped ==
    ASSUME NEW s, Backend(s)!BackendAssumption, BackendTypes(s)
    PROVE  /\ samples \in Seq(SamplesOf(s))
           /\ DOMAIN samples = 1 .. Len(samples) /\ Len(samples) \in Nat
           /\ \A i \in DOMAIN samples : samples[i] \in SamplesOf(s)
           /\ \A i \in DOMAIN samples : samples[i].pid \in s.pids /\ samples[i].pid \in Nat
<1>1. /\ samples \in Seq(SamplesOf(s))
      /\ DOMAIN samples = 1 .. Len(samples) /\ Len(samples) \in Nat
      /\ \A i \in DOMAIN samples : samples[i] \in SamplesOf(s)
    BY DEF BackendTypes
<1> QED
    BY <1>1, SampleFields, BackendConstants

(* The backend begins with no sample and no scan.                           *)
LEMMA PlacesStart ==
    ASSUME NEW s, Backend(s)!BackendAssumption, Backend(s)!Init
    PROVE  PlacesInv(s)
<1>1. /\ GenerationModulus \in Nat /\ GenerationModulus > 2
      /\ MaxInstance \in Nat /\ s.scans \in Nat
    BY BackendConstants
<1>2. samples = <<>> /\ phase = "idle" /\ scan = Backend(s)!NoScan
    BY DEF Backend!Init
<1>3. BackendTypes(s)
  <2>1. DOMAIN scan.mutations = {} /\ scan.mutations \in [DOMAIN scan.mutations -> SamplesOf(s)]
    BY <1>2 DEF Backend!NoScan
  <2>2. samples \in Seq(SamplesOf(s)) /\ scan.row = Backend(s)!NoRow
    BY <1>2 DEF Backend!NoScan
  <2>3. RowShaped(scan.row)
        /\ scan.row.io_available \in BOOLEAN
    BY <2>2 DEF Backend!NoRow, RowShaped
  <2>4. /\ instances = 0 /\ alive = [p \in s.pids |-> 0] /\ scan_clock = 0
        /\ total_at = 0 /\ generation = 0 /\ scan_outcome = "none"
    BY DEF Backend!Init
  <2> QED
    BY <1>1, <1>2, <2>1, <2>2, <2>3, <2>4
       DEF BackendTypes, Scanning, Backend!NoScan, ScanShaped
<1>4. ScanPlaced /\ GenerationsTell
    BY <1>2 DEF ScanPlaced, GenerationsTell, Scanning, InRow, Backend!NoScan
<1> QED
    BY <1>3, <1>4 DEF PlacesInv

(* The search of the prefix finds a PID if it is there.                     *)
LEMMA Searched ==
    ASSUME NEW s, Backend(s)!BackendAssumption, PlacesInv(s), Scanning,
           NEW pid \in s.pids
    PROVE  /\ Backend(s)!Found(pid) =>
                 /\ Backend(s)!LowerBound(pid) + 1 \in 1 .. scan.searchable
                 /\ samples[Backend(s)!LowerBound(pid) + 1].pid = pid
           /\ ~Backend(s)!Found(pid) =>
                 \A i \in 1 .. scan.searchable : samples[i].pid # pid
<1> DEFINE smaller == {i \in 1 .. scan.searchable : samples[i].pid < pid}
<1>1. /\ scan.searchable \in Nat /\ samples \in Seq(SamplesOf(s))
      /\ scan.searchable <= Len(samples) /\ s.pids \in SUBSET Nat
    BY BackendConstants DEF PlacesInv, BackendTypes, ScanPlaced
<1>2. \A i \in 1 .. scan.searchable : i \in DOMAIN samples /\ samples[i].pid \in Nat
    BY <1>1, SamplesTyped DEF PlacesInv
<1>3. \A i, j \in 1 .. scan.searchable : i < j => samples[i].pid < samples[j].pid
    BY <1>2 DEF PlacesInv, ScanPlaced
<1>4. /\ IsFiniteSet(1 .. scan.searchable) /\ smaller \subseteq 1 .. scan.searchable
      /\ Cardinality(1 .. scan.searchable) = scan.searchable
  <2>1. smaller \subseteq 1 .. scan.searchable
    OBVIOUS
  <2>2. 1 \in Int /\ scan.searchable \in Int
    BY <1>1
  <2> HIDE DEF smaller
  <2>3. /\ IsFiniteSet(1 .. scan.searchable)
        /\ Cardinality(1 .. scan.searchable) =
              IF 1 > scan.searchable THEN 0 ELSE scan.searchable - 1 + 1
    BY <2>2, FS_Interval, Zenon
  <2> QED
    BY <1>1, <2>1, <2>3
<1>5. Cardinality(smaller) \in Nat
    BY <1>4, FS_Subset, FS_CardinalityType
<1>6. Backend(s)!LowerBound(pid) = Cardinality(smaller)
    BY BackendFinite DEF Backend!LowerBound
<1>7. ASSUME NEW i \in 1 .. scan.searchable, samples[i].pid = pid
      PROVE  Cardinality(smaller) = i - 1
  <2>1. smaller = 1 .. (i - 1)
    BY <1>1, <1>2, <1>3, <1>7
  <2> HIDE DEF smaller
  <2> QED
    BY <2>1, FS_Interval
<1> HIDE DEF smaller
<1>8. ASSUME Backend(s)!Found(pid)
      PROVE  /\ Cardinality(smaller) + 1 \in 1 .. scan.searchable
             /\ samples[Cardinality(smaller) + 1].pid = pid
    BY <1>1, <1>5, <1>6, <1>8 DEF Backend!Found
<1>9. ASSUME NEW i \in 1 .. scan.searchable, samples[i].pid = pid
      PROVE  Backend(s)!Found(pid)
    BY <1>1, <1>6, <1>7, <1>9 DEF Backend!Found
<1> QED
    BY <1>6, <1>8, <1>9

(* What is left of the vector at the end of a scan: the samples of its      *)
(* generation, all of them, in the order of their PIDs.                     *)
LEMMA Compaction ==
    ASSUME NEW s, Backend(s)!BackendAssumption, PlacesInv(s), phase = "readdir"
    PROVE  /\ Backend(s)!Compacted \in Seq(SamplesOf(s))
           /\ \A n \in DOMAIN Backend(s)!Compacted : \E i \in Backend(s)!Kept :
                 Backend(s)!Compacted[n] = samples[i]
           /\ \A i \in Backend(s)!Kept : \E n \in DOMAIN Backend(s)!Compacted :
                 Backend(s)!Compacted[n] = samples[i]
           /\ \A n, m \in DOMAIN Backend(s)!Compacted :
                 n < m => Backend(s)!Compacted[n].pid < Backend(s)!Compacted[m].pid
<1> DEFINE K == Backend(s)!Kept
           ord == [i \in K |-> Backend(s)!SortKey(i)]
           at(n) == CHOOSE i \in K : Backend(s)!Position(i) = n
           C == [n \in 1 .. Cardinality(K) |-> samples[at(n)]]
<1>1. /\ BackendTypes(s) /\ Scanning /\ Len(samples) \in Nat
      /\ DOMAIN samples = 1 .. Len(samples)
      /\ \A i \in DOMAIN samples : samples[i] \in SamplesOf(s)
      /\ \A i \in DOMAIN samples : samples[i].pid \in Nat
    BY SamplesTyped DEF PlacesInv, Scanning
<1>2. K \subseteq DOMAIN samples
    BY DEF Backend!Kept
<1> HIDE DEF K
<1>3. IsFiniteSet(K) /\ Cardinality(K) \in Nat
  <2>1. IsFiniteSet(1 .. Len(samples))
    BY <1>1, FS_Interval
  <2> QED
    BY <1>1, <1>2, <2>1, FS_Subset, FS_CardinalityType
<1>4. \A i \in K : Backend(s)!SortKey(i) =
          IF Len(samples) > scan.searchable THEN samples[i].pid ELSE i
    BY DEF Backend!SortKey
<1>5. ord \in [K -> Nat]
    BY <1>1, <1>2, <1>4
<1>6. \A i, j \in K : ord[i] = ord[j] => i = j
    BY <1>1, <1>2, <1>4 DEF PlacesInv, ScanPlaced
<1>7. \A i, j \in K : ord[i] < ord[j] => samples[i].pid < samples[j].pid
  <2>1. scan.searchable \in Nat /\ scan.searchable <= Len(samples)
    BY <1>1 DEF PlacesInv, BackendTypes, ScanPlaced
  <2>2. CASE Len(samples) > scan.searchable
    BY <1>4, <2>2
  <2>3. CASE ~(Len(samples) > scan.searchable)
    BY <1>1, <1>2, <1>4, <2>1, <2>3 DEF PlacesInv, ScanPlaced
  <2> QED
    BY <2>2, <2>3
<1>8. \A i \in K : Backend(s)!Position(i) = RankOf(i, K, ord)
  <2> TAKE i \in K
  <2>1. {j \in K : Backend(s)!SortKey(j) <= Backend(s)!SortKey(i)}
           = {j \in K : ord[j] <= ord[i]}
    OBVIOUS
  <2>2. Backend(s)!Position(i) =
            Cardinality({j \in K : Backend(s)!SortKey(j) <= Backend(s)!SortKey(i)})
    BY BackendFinite DEF Backend!Position, K
  <2> QED
    BY <2>1, <2>2 DEF RankOf
<1> HIDE DEF ord
<1>9. \A n \in 1 .. Cardinality(K) : at(n) \in K /\ RankOf(at(n), K, ord) = n
  <2> TAKE n \in 1 .. Cardinality(K)
  <2>1. PICK i \in K : RankOf(i, K, ord) = n
    BY <1>3, <1>5, <1>6, RankedBy
  <2>2. \E j \in K : Backend(s)!Position(j) = n
    BY <1>8, <2>1
  <2>3. at(n) \in K /\ Backend(s)!Position(at(n)) = n
    BY <2>2
  <2> HIDE DEF at
  <2> QED
    BY <1>8, <2>3
<1>10. \A i \in K : RankOf(i, K, ord) \in 1 .. Cardinality(K)
    BY <1>3, <1>5, RanksGrow
<1>11. \A i, j \in K : RankOf(i, K, ord) < RankOf(j, K, ord) => ord[i] < ord[j]
  <2> TAKE i, j \in K
  <2>1. ord[i] \in Nat /\ ord[j] \in Nat
    BY <1>5
  <2>2. ord[j] < ord[i] => RankOf(j, K, ord) < RankOf(i, K, ord)
    BY <1>3, <1>5, RanksGrow
  <2>3. ord[j] = ord[i] => RankOf(j, K, ord) = RankOf(i, K, ord)
    BY <1>6
  <2>4. RankOf(i, K, ord) \in Nat /\ RankOf(j, K, ord) \in Nat
    BY <1>3, <1>10
  <2> QED
    BY <2>1, <2>2, <2>3, <2>4
<1>12. \A i \in K : at(RankOf(i, K, ord)) = i
  <2> TAKE i \in K
  <2> DEFINE j == at(RankOf(i, K, ord))
  <2>1. j \in K /\ RankOf(j, K, ord) = RankOf(i, K, ord)
    BY <1>9, <1>10
  <2> HIDE DEF at, j
  <2>2. ~(ord[i] < ord[j]) /\ ~(ord[j] < ord[i])
    BY <1>3, <1>5, <1>10, <2>1, RanksGrow
  <2>3. ord[i] \in Nat /\ ord[j] \in Nat
    BY <1>5, <2>1
  <2>4. i = j
    BY <1>6, <2>1, <2>2, <2>3
  <2> QED
    BY <2>4 DEF j
<1> HIDE DEF at
<1>13. Backend(s)!Compacted = C
    BY BackendFinite DEF Backend!Compacted, K, at
<1>14. DOMAIN C = 1 .. Cardinality(K) /\ \A n \in DOMAIN C : C[n] = samples[at(n)]
    OBVIOUS
<1> HIDE DEF C
<1>15. /\ \A n \in DOMAIN C : \E i \in K : C[n] = samples[i]
       /\ \A i \in K : \E n \in DOMAIN C : C[n] = samples[i]
    BY <1>9, <1>10, <1>12, <1>14
<1>16. \A n, m \in DOMAIN C : n < m => C[n].pid < C[m].pid
    BY <1>7, <1>9, <1>11, <1>14
<1>17. \A n \in 1 .. Cardinality(K) : samples[at(n)] \in SamplesOf(s)
    BY <1>1, <1>2, <1>9
<1>18. C \in Seq(SamplesOf(s))
    BY <1>3, <1>17 DEF C
<1> QED
    BY <1>13, <1>15, <1>16, <1>18 DEF K

(* The next generation is another, and never zero.                          *)
LEMMA GenerationMoves ==
    ASSUME NEW m \in Nat, m > 2, NEW g \in 0 .. m - 1
    PROVE  LET n == IF (g + 1) % m = 0 THEN 1 ELSE (g + 1) % m
           IN  n \in 1 .. m - 1 /\ n # g
<1>1. g + 1 < m => (g + 1) % m = g + 1
    OBVIOUS
<1>2. m % m = 0
    OBVIOUS
<1> QED
    BY <1>1, <1>2

(* Processes come and go: a start number is given once.                     *)
LEMMA PlacesKernel ==
    ASSUME NEW s, Backend(s)!BackendAssumption, PlacesInv(s), NEW pid \in s.pids,
           Backend(s)!Exit(pid) \/ Backend(s)!Spawn(pid)
    PROVE  PlacesInv(s)'
<1>1. MaxInstance \in Nat
    BY BackendConstants
<1>0. instances \in 0 .. MaxInstance /\ alive \in [s.pids -> 0 .. instances]
    BY DEF PlacesInv, BackendTypes
<1>2. /\ UNCHANGED <<phase, scan_clock, samples, total_at, generation, scan_outcome>>
      /\ instances' \in instances .. MaxInstance
      /\ alive' \in [s.pids -> 0 .. instances']
  <2>1. CASE Backend(s)!Exit(pid)
    BY <1>0, <1>1, <2>1 DEF Backend!Exit
  <2>2. CASE Backend(s)!Spawn(pid)
    BY <1>0, <1>1, <2>2 DEF Backend!Spawn
  <2> QED
    BY <2>1, <2>2
<1>3. /\ ScanShaped(scan') /\ scan'.row = scan.row /\ scan'.seen = scan.seen
      /\ scan'.searchable = scan.searchable /\ scan'.mutations = scan.mutations
      /\ scan'.index = scan.index /\ scan'.flags = scan.flags
      /\ scan'.original_generation = scan.original_generation
    BY DEF Backend!Exit, Backend!Spawn, PlacesInv, BackendTypes, ScanShaped
<1>4. BackendTypes(s)'
    BY <1>1, <1>2, <1>3 DEF PlacesInv, BackendTypes, Scanning
<1>5. scan.row.instance_id \in 1 .. instances => scan.row.instance_id \in 1 .. instances'
    BY <1>1, <1>2 DEF PlacesInv, BackendTypes
<1>6. ScanPlaced'
    BY <1>2, <1>3, <1>5 DEF PlacesInv, ScanPlaced, Scanning, InRow
<1>7. GenerationsTell'
    BY <1>2, <1>3 DEF PlacesInv, GenerationsTell, Scanning, InRow, Original, Finished
<1> QED
    BY <1>4, <1>6, <1>7 DEF PlacesInv

(* A scan begins, or is refused, or the backend is destroyed.               *)
LEMMA PlacesIdle ==
    ASSUME NEW s, Backend(s)!BackendAssumption, PlacesInv(s),
           \/ \E flags \in s.flags : Backend(s)!scan_begin(flags)
           \/ Backend(s)!scan_refused
           \/ Backend(s)!lsm_process_backend_destroy
           \/ UNCHANGED processVars
    PROVE  PlacesInv(s)'
<1>1. /\ MaxInstance \in Nat /\ s.scans \in Nat /\ GenerationModulus \in Nat
      /\ GenerationModulus > 2
    BY BackendConstants
<1>2. CASE Backend(s)!scan_refused \/ UNCHANGED processVars
  <2>1. /\ UNCHANGED <<alive, instances, phase, scan_clock, samples, total_at,
                      generation, scan>>
        /\ scan_outcome' \in {scan_outcome, "refused"}
    BY <1>2 DEF Backend!scan_refused, processVars
  <2> QED
    BY <2>1 DEF PlacesInv, BackendTypes, ScanPlaced, GenerationsTell, Scanning,
                InRow, Original, Finished
<1>3. CASE Backend(s)!lsm_process_backend_destroy
  <2>1. /\ UNCHANGED <<alive, instances, scan_clock, total_at, generation, scan,
                       scan_outcome>>
        /\ samples' = <<>> /\ phase' = "destroyed" /\ phase = "idle"
    BY <1>3 DEF Backend!lsm_process_backend_destroy
  <2> QED
    BY <2>1 DEF PlacesInv, BackendTypes, ScanPlaced, GenerationsTell, Scanning,
                InRow
<1>4. ASSUME NEW flags \in s.flags, Backend(s)!scan_begin(flags)
      PROVE  PlacesInv(s)'
  <2>1. /\ UNCHANGED <<alive, instances, samples, total_at>>
        /\ phase = "idle" /\ phase' = "readdir" /\ scan_clock < s.scans
        /\ scan_clock' = scan_clock + 1 /\ scan_outcome' = "none"
        /\ generation' = Backend(s)!NextGeneration
    BY <1>4 DEF Backend!scan_begin
  <2>2. /\ ScanShaped(scan') /\ scan'.row = Backend(s)!NoRow /\ scan'.seen = {}
        /\ scan'.searchable = Len(samples) /\ scan'.mutations = <<>>
        /\ scan'.original_generation = generation
    BY <1>4 DEF Backend!scan_begin, Backend!NoScan, ScanShaped
  <2>3. RowShaped(scan'.row) /\ scan'.row.io_available \in BOOLEAN
    BY <2>2 DEF Backend!NoRow, RowShaped
  <2>4. DOMAIN scan'.mutations = {} /\ scan'.mutations \in [DOMAIN scan'.mutations -> SamplesOf(s)]
    BY <2>2
  <2>5. /\ generation' \in 1 .. GenerationModulus - 1 /\ generation' # generation
        /\ generation' # 0
    <3>1. generation \in 0 .. GenerationModulus - 1
      BY DEF PlacesInv, BackendTypes
    <3>2. /\ generation' \in 1 .. GenerationModulus - 1
          /\ generation' # generation
      BY <1>1, <2>1, <3>1, GenerationMoves DEF Backend!NextGeneration
    <3> QED
      BY <1>1, <3>2
  <2>6. Len(samples) \in Nat /\ DOMAIN samples = 1 .. Len(samples)
    BY SamplesTyped DEF PlacesInv
  <2>7. BackendTypes(s)'
    BY <1>1, <2>1, <2>2, <2>3, <2>4, <2>5, <2>6 DEF PlacesInv, BackendTypes, Scanning
  <2>8. ScanPlaced'
    BY <2>1, <2>2, <2>4, <2>6 DEF PlacesInv, ScanPlaced, Scanning, InRow
  <2>9. GenerationsTell'
    BY <2>1, <2>2, <2>4, <2>5, <2>6
       DEF PlacesInv, GenerationsTell, Scanning, InRow, Original, Finished
  <2> QED
    BY <2>7, <2>8, <2>9 DEF PlacesInv
<1> QED
    BY <1>2, <1>3, <1>4

(* An entry is looked up: the scan has come to one more sample.             *)
LEMMA StatRead ==
    ASSUME NEW s, Backend(s)!BackendAssumption, PlacesInv(s), NEW pid \in s.pids,
           Backend(s)!read_stat(pid)
    PROVE  /\ UNCHANGED <<alive, instances, scan_clock, total_at, generation,
                         scan_outcome, heap, processes, retained>>
           /\ phase = "readdir" /\ phase' = "metadata" /\ pid \notin scan.seen
           /\ alive[pid] # 0
           /\ ScanShaped(scan') /\ scan'.flags = scan.flags
           /\ scan'.seen = scan.seen \cup {pid}
           /\ scan'.searchable = scan.searchable
           /\ scan'.original_generation = scan.original_generation
           /\ scan'.index \in DOMAIN samples'
           /\ samples'[scan'.index].pid = pid
           /\ samples'[scan'.index].generation # generation
           /\ scan'.row = [Backend(s)!NoRow EXCEPT
                 !.pid = pid, !.instance_id = alive[pid],
                 !.same = /\ samples'[scan'.index].start_ticks = alive[pid]
                          /\ samples'[scan'.index].start_ticks # 0]
           /\ \/ /\ samples' = samples /\ scan'.index \in 1 .. scan.searchable
                 /\ scan'.index \notin DOMAIN scan.mutations
                 /\ DOMAIN scan'.mutations = DOMAIN scan.mutations \cup {scan'.index}
                 /\ scan'.mutations[scan'.index] = samples[scan'.index]
                 /\ scan'.mutations \in [DOMAIN scan'.mutations -> SamplesOf(s)]
                 /\ \A i \in DOMAIN scan.mutations :
                       scan'.mutations[i] = scan.mutations[i]
              \/ /\ samples' = Append(samples, Backend(s)!EmptySample(pid))
                 /\ scan'.index = Len(samples) + 1
                 /\ scan'.mutations = scan.mutations
                 /\ \A i \in DOMAIN samples : samples[i].pid # pid
<1> DEFINE known == Backend(s)!Found(pid)
           found == Backend(s)!LowerBound(pid) + 1
           index == IF known THEN found ELSE Len(samples) + 1
           at == IF known THEN samples[index] ELSE Backend(s)!EmptySample(pid)
           r == [Backend(s)!NoRow EXCEPT
                   !.pid = pid, !.instance_id = alive[pid],
                   !.same = at.start_ticks = alive[pid] /\ at.start_ticks # 0]
<1>1. /\ UNCHANGED <<alive, instances, scan_clock, total_at, generation,
                     scan_outcome, heap, processes, retained>>
      /\ phase = "readdir" /\ phase' = "metadata" /\ alive[pid] # 0
      /\ pid \notin scan.seen
      /\ samples' = IF known THEN samples ELSE Append(samples, at)
      /\ scan' = [scan EXCEPT !.seen = @ \cup {pid}, !.index = index,
                    !.mutations = IF known THEN Backend(s)!Logged(index) ELSE @,
                    !.row = r]
    BY DEF Backend!read_stat, Backend!read_process_stat
<1>2. /\ known => found \in 1 .. scan.searchable /\ samples[found].pid = pid
      /\ ~known => \A i \in 1 .. scan.searchable : samples[i].pid # pid
  <2>1. Scanning
    BY <1>1 DEF Scanning
  <2> QED
    BY <2>1, Searched
<1> HIDE DEF known, found
<1>3. /\ ScanShaped(scan') /\ scan'.flags = scan.flags
      /\ scan'.seen = scan.seen \cup {pid} /\ scan'.searchable = scan.searchable
      /\ scan'.original_generation = scan.original_generation
      /\ scan'.index = index /\ scan'.row = r
      /\ scan'.mutations = IF known THEN Backend(s)!Logged(index) ELSE scan.mutations
  <2> HIDE DEF index, r
  <2> QED
    BY <1>1 DEF PlacesInv, BackendTypes, ScanShaped
<1>4. /\ Scanning /\ Len(samples) \in Nat /\ DOMAIN samples = 1 .. Len(samples)
      /\ scan.searchable \in Nat /\ scan.searchable <= Len(samples)
      /\ \A i \in DOMAIN samples : samples[i] \in SamplesOf(s)
  <2>1. Scanning
    BY <1>1 DEF Scanning
  <2> QED
    BY <2>1, SamplesTyped DEF PlacesInv, BackendTypes, ScanPlaced
<1>5. CASE known
  <2>1. /\ samples' = samples /\ index = found /\ at = samples[found]
        /\ found \in DOMAIN samples /\ found \in 1 .. scan.searchable
        /\ samples[found].pid = pid
    BY <1>1, <1>2, <1>4, <1>5
  <2>2. found \notin DOMAIN scan.mutations
    BY <1>1, <1>4, <2>1 DEF PlacesInv, ScanPlaced
  <2>3. samples[found].generation # generation
    BY <1>1, <1>4, <2>1 DEF PlacesInv, GenerationsTell, Finished
  <2>4. scan'.mutations = [i \in DOMAIN scan.mutations \cup {found} |->
            IF i = found THEN samples[found] ELSE scan.mutations[i]]
    BY <1>3, <1>5, <2>1 DEF Backend!Logged
  <2>5. /\ DOMAIN scan'.mutations = DOMAIN scan.mutations \cup {found}
        /\ scan'.mutations[found] = samples[found]
        /\ \A i \in DOMAIN scan.mutations : scan'.mutations[i] = scan.mutations[i]
        /\ scan'.mutations \in [DOMAIN scan'.mutations -> SamplesOf(s)]
    BY <1>4, <2>1, <2>2, <2>4 DEF PlacesInv, BackendTypes
  <2>6. scan'.index = found /\ samples'[scan'.index] = at
    BY <1>3, <2>1
  <2> HIDE DEF at, index
  <2> QED
    BY <1>1, <1>3, <2>1, <2>2, <2>3, <2>5, <2>6, ZenonT(30)
<1>6. CASE ~known
  <2>1. /\ samples' = Append(samples, Backend(s)!EmptySample(pid))
        /\ index = Len(samples) + 1 /\ at = Backend(s)!EmptySample(pid)
        /\ scan'.mutations = scan.mutations /\ scan'.index = Len(samples) + 1
    BY <1>1, <1>3, <1>6
  <2>2. at.pid = pid /\ at.generation = 0
    BY <2>1 DEF Backend!EmptySample
  <2>3. \A i \in DOMAIN samples : samples[i].pid # pid
    BY <1>1, <1>2, <1>4, <1>6 DEF PlacesInv, ScanPlaced
  <2>4. generation # 0
    BY <1>4 DEF PlacesInv, GenerationsTell
  <2>5. scan'.index \in DOMAIN samples' /\ samples'[scan'.index] = at
    BY <1>4, <2>1
  <2> HIDE DEF at, index
  <2> QED
    BY <1>1, <1>3, <2>1, <2>2, <2>3, <2>4, <2>5
<1> QED
    BY <1>5, <1>6

(* A sample made for a PID that was not known.                              *)
LEMMA EmptyTyped ==
    ASSUME NEW s, Backend(s)!BackendAssumption, NEW pid \in s.pids
    PROVE  Backend(s)!EmptySample(pid) \in SamplesOf(s)
<1>1. /\ MaxInstance \in Nat /\ s.scans \in Nat
      /\ GenerationModulus \in Nat /\ GenerationModulus > 2
    BY BackendConstants
<1>2. Backend(s)!NoText \in Backend(s)!TextType
    BY <1>1 DEF Backend!NoText, Backend!TextType
<1>3. [t \in s.texts |-> Backend(s)!NoText] \in [s.texts -> Backend(s)!TextType]
    BY <1>2
<1>4. Backend(s)!NoGpu \in [valid : BOOLEAN, of : 0 .. MaxInstance,
            shown : SUBSET (0 .. MaxInstance), sampled_at : 0 .. s.scans]
    BY <1>1 DEF Backend!NoGpu
<1> DEFINE texts == [t \in s.texts |-> Backend(s)!NoText]
<1>5. Backend(s)!EmptySample(pid) =
        [pid |-> pid, start_ticks |-> 0, sampled_at |-> 0, io_at |-> 0,
         io_available |-> FALSE, text |-> texts, gpu |-> Backend(s)!NoGpu,
         generation |-> 0]
    BY DEF Backend!EmptySample
<1> HIDE DEF texts
<1>6. texts \in [s.texts -> Backend(s)!TextType]
    BY <1>3 DEF texts
<1> QED
    BY <1>1, <1>4, <1>5, <1>6 DEF SamplesOf

(* read_stat gives the entry its sample and logs the one it overwrites.     *)
LEMMA PlacesRead ==
    ASSUME NEW s, Backend(s)!BackendAssumption, PlacesInv(s), NEW pid \in s.pids,
           Backend(s)!read_stat(pid)
    PROVE  PlacesInv(s)'
<1> DEFINE n == Len(samples)
<1>0. /\ phase' = "metadata" /\ ScanShaped(scan')
      /\ scan'.seen = scan.seen \cup {pid} /\ scan'.searchable = scan.searchable
      /\ scan'.original_generation = scan.original_generation
    BY StatRead
<1>1. /\ Scanning /\ ~InRow /\ Scanning' /\ InRow'
      /\ UNCHANGED <<alive, instances, scan_clock, total_at, generation, scan_outcome>>
    BY StatRead DEF Scanning, InRow
<1>2. /\ n \in Nat /\ DOMAIN samples = 1 .. n
      /\ scan.searchable \in Nat /\ scan.searchable <= n
      /\ samples \in Seq(SamplesOf(s))
      /\ \A i \in DOMAIN samples : samples[i] \in SamplesOf(s)
    BY <1>1, SamplesTyped DEF PlacesInv, BackendTypes, ScanPlaced
<1>3. RowShaped(scan'.row) /\ scan'.row.io_available \in BOOLEAN
      /\ scan'.row.pid = pid /\ scan'.row.instance_id = alive[pid]
  <2> DEFINE same == /\ samples'[scan'.index].start_ticks = alive[pid]
                     /\ samples'[scan'.index].start_ticks # 0
  <2>1. scan'.row = [Backend(s)!NoRow EXCEPT
            !.pid = pid, !.instance_id = alive[pid], !.same = same]
    BY StatRead
  <2> HIDE DEF same
  <2> QED
    BY <2>1 DEF RowShaped, Backend!NoRow
<1>4. alive[pid] \in 1 .. instances
  <2>1. alive[pid] \in 0 .. instances /\ alive[pid] # 0
    BY StatRead DEF PlacesInv, BackendTypes
  <2> QED
    BY <2>1
<1>5. CASE samples' = samples
  <2>1. scan'.index \in 1 .. scan.searchable
    BY <1>2, <1>5, StatRead
  <2>2. /\ scan'.index \notin DOMAIN scan.mutations
        /\ DOMAIN scan'.mutations = DOMAIN scan.mutations \cup {scan'.index}
        /\ scan'.mutations[scan'.index] = samples[scan'.index]
        /\ scan'.mutations \in [DOMAIN scan'.mutations -> SamplesOf(s)]
        /\ \A i \in DOMAIN scan.mutations : scan'.mutations[i] = scan.mutations[i]
    BY <1>2, <1>5, StatRead
  <2>3. BackendTypes(s)'
    BY <1>0, <1>1, <1>3, <1>5, <2>2 DEF PlacesInv, BackendTypes
  <2>4. samples[scan'.index].pid = pid /\ samples[scan'.index].generation # generation
    BY <1>5, StatRead
  <2>5. /\ scan'.searchable = scan.searchable /\ scan'.seen = scan.seen \cup {pid}
        /\ scan'.original_generation = scan.original_generation
        /\ pid \notin scan.seen
    BY StatRead
  <2>6. \A i \in DOMAIN samples : samples[i].pid = pid => i = scan'.index
    BY <1>2, <2>1, <2>4 DEF PlacesInv, ScanPlaced
  <2>7. ScanPlaced'
    BY <1>1, <1>2, <1>3, <1>4, <1>5, <2>1, <2>2, <2>4, <2>5, <2>6
       DEF PlacesInv, ScanPlaced
  <2>8. GenerationsTell'
    BY <1>1, <1>2, <1>5, <2>1, <2>2, <2>4, <2>5, <2>6
       DEF PlacesInv, GenerationsTell, Original, Finished, InRow
  <2> QED
    BY <2>3, <2>7, <2>8 DEF PlacesInv
<1>6. CASE samples' # samples
  <2>1. /\ samples' = Append(samples, Backend(s)!EmptySample(pid))
        /\ scan'.index = n + 1 /\ scan'.mutations = scan.mutations
        /\ \A i \in DOMAIN samples : samples[i].pid # pid
    BY <1>6, StatRead, ZenonT(30)
  <2>2. /\ samples' \in Seq(SamplesOf(s)) /\ DOMAIN samples' = 1 .. n + 1
        /\ Len(samples') = n + 1
        /\ \A i \in 1 .. n : samples'[i] = samples[i]
    BY <1>2, <2>1, EmptyTyped
  <2>3. BackendTypes(s)'
    BY <1>0, <1>1, <1>3, <2>1, <2>2 DEF PlacesInv, BackendTypes
  <2>4. samples'[n + 1].pid = pid /\ samples'[n + 1].generation # generation
    <3>1. /\ samples'[scan'.index].pid = pid
          /\ samples'[scan'.index].generation # generation
      BY StatRead
    <3> QED
      BY <2>1, <3>1
  <2>5. /\ scan'.searchable = scan.searchable /\ scan'.seen = scan.seen \cup {pid}
        /\ scan'.original_generation = scan.original_generation
        /\ pid \notin scan.seen
    BY StatRead
  <2>6. DOMAIN scan.mutations = {i \in 1 .. scan.searchable : samples[i].pid \in scan.seen}
    BY <1>1 DEF PlacesInv, ScanPlaced
  <2>7. {i \in 1 .. scan.searchable : samples'[i].pid \in scan'.seen} = DOMAIN scan'.mutations
    BY <1>2, <2>1, <2>2, <2>5, <2>6
  <2>8. ScanPlaced'
    BY <1>1, <1>2, <1>3, <1>4, <2>1, <2>2, <2>4, <2>5, <2>7
       DEF PlacesInv, ScanPlaced
  <2>9. GenerationsTell'
    BY <1>1, <1>2, <2>1, <2>2, <2>4, <2>5
       DEF PlacesInv, GenerationsTell, Original, Finished, InRow
  <2> QED
    BY <2>3, <2>8, <2>9 DEF PlacesInv
<1> QED
    BY <1>5, <1>6

(* The sample of the entry is replaced, and is finished if the entry is.    *)
LEMMA SampleReplaced ==
    ASSUME NEW s, Backend(s)!BackendAssumption, PlacesInv(s), InRow, Scanning',
           NEW x \in SamplesOf(s), samples' = [samples EXCEPT ![scan.index] = x],
           x.pid = scan.row.pid, instances' = instances, generation' = generation,
           scan'.seen = scan.seen, scan'.searchable = scan.searchable,
           scan'.mutations = scan.mutations,
           scan'.original_generation = scan.original_generation,
           InRow' => /\ scan'.index = scan.index /\ scan'.row.pid = scan.row.pid
                     /\ scan'.row.instance_id = scan.row.instance_id,
           x.generation = IF InRow' THEN samples[scan.index].generation ELSE generation
    PROVE  /\ samples' \in Seq(SamplesOf(s)) /\ DOMAIN samples' = DOMAIN samples
           /\ Len(samples') = Len(samples) /\ samples'[scan.index] = x
           /\ \A i \in DOMAIN samples : i # scan.index => samples'[i] = samples[i]
           /\ ScanPlaced' /\ GenerationsTell'
<1>1. /\ Scanning /\ Len(samples) \in Nat /\ DOMAIN samples = 1 .. Len(samples)
      /\ samples \in Seq(SamplesOf(s)) /\ scan.index \in DOMAIN samples
      /\ scan.searchable \in Nat /\ scan.searchable <= Len(samples)
      /\ samples[scan.index].pid = scan.row.pid /\ scan.row.pid \in scan.seen
      /\ BackendTypes(s)
  <2>1. Scanning
    BY DEF Scanning, InRow
  <2> QED
    BY <2>1, SamplesTyped DEF PlacesInv, BackendTypes, ScanPlaced
<1>2. /\ samples' \in Seq(SamplesOf(s)) /\ DOMAIN samples' = DOMAIN samples
      /\ Len(samples') = Len(samples) /\ samples'[scan.index] = x
      /\ \A i \in DOMAIN samples : i # scan.index => samples'[i] = samples[i]
    BY <1>1
<1>3. \A i \in DOMAIN samples : samples'[i].pid = samples[i].pid
    BY <1>1, <1>2
<1>4. {i \in 1 .. scan.searchable : samples'[i].pid \in scan.seen} = DOMAIN scan.mutations
    BY <1>1, <1>3 DEF PlacesInv, ScanPlaced
<1>5. ScanPlaced'
    BY <1>1, <1>2, <1>3, <1>4 DEF PlacesInv, ScanPlaced
<1>6. \A i \in 1 .. scan.searchable : Original(i)' = Original(i)
    BY <1>1, <1>2 DEF Original, PlacesInv, ScanPlaced
<1>7. \A i \in DOMAIN samples : samples'[i].generation = generation <=> Finished(i)'
  <2> TAKE i \in DOMAIN samples
  <2>1. samples[i].generation = generation <=> Finished(i)
    BY <1>1 DEF PlacesInv, GenerationsTell
  <2>2. CASE i = scan.index
    BY <1>1, <1>2, <2>1, <2>2 DEF Finished
  <2>3. CASE i # scan.index
    BY <1>1, <1>2, <2>1, <2>3 DEF Finished
  <2> QED
    BY <2>2, <2>3
<1>8. phase' # "destroyed"
    BY DEF Scanning
<1>9. GenerationsTell'
    BY <1>1, <1>2, <1>6, <1>7, <1>8 DEF PlacesInv, GenerationsTell
<1> QED
    BY <1>2, <1>5, <1>9

(* A sample with some of its texts copied just now.                         *)
LEMMA TextsCopied ==
    ASSUME NEW s, Backend(s)!BackendAssumption, PlacesInv(s), InRow,
           NEW x \in SamplesOf(s), NEW copied \in SUBSET s.texts
    PROVE  /\ Backend(s)!WithTexts(x, copied) =
                 [pid |-> x.pid, start_ticks |-> x.start_ticks,
                  sampled_at |-> x.sampled_at, io_at |-> x.io_at,
                  io_available |-> x.io_available,
                  text |-> Backend(s)!WithTexts(x, copied).text, gpu |-> x.gpu,
                  generation |-> x.generation]
           /\ Backend(s)!WithTexts(x, copied) \in SamplesOf(s)
           /\ DOMAIN Backend(s)!WithTexts(x, copied).text = s.texts
           /\ \A t \in s.texts : Backend(s)!WithTexts(x, copied).text[t] =
                 IF t \in copied
                 THEN [ptr |-> <<scan_clock, scan.row.pid, t>>,
                       sampled_at |-> scan_clock]
                 ELSE x.text[t]
<1> DEFINE text == [t \in s.texts |->
                IF t \in copied
                THEN [ptr |-> Backend(s)!NewPointer(t), sampled_at |-> scan_clock]
                ELSE x.text[t]]
           w == Backend(s)!WithTexts(x, copied)
<1>1. /\ x = [pid |-> x.pid, start_ticks |-> x.start_ticks,
              sampled_at |-> x.sampled_at, io_at |-> x.io_at,
              io_available |-> x.io_available, text |-> x.text, gpu |-> x.gpu,
              generation |-> x.generation]
      /\ x.text \in [s.texts -> Backend(s)!TextType]
    BY SampleFields
<1>2. w = [x EXCEPT !.text = text]
    BY DEF Backend!WithTexts
<1>3. \A t \in s.texts : Backend(s)!NewPointer(t) = <<scan_clock, scan.row.pid, t>>
    BY DEF Backend!NewPointer
<1>4. scan_clock \in 1 .. s.scans /\ scan.row.pid \in s.pids
  <2>1. Scanning /\ BackendTypes(s)
    BY DEF Scanning, InRow, PlacesInv
  <2> QED
    BY <2>1, BackendConstants DEF PlacesInv, BackendTypes, ScanPlaced
<1>5. \A t \in s.texts : text[t] \in Backend(s)!TextType
  <2> TAKE t \in s.texts
  <2>1. text[t] = IF t \in copied
                  THEN [ptr |-> <<scan_clock, scan.row.pid, t>>, sampled_at |-> scan_clock]
                  ELSE x.text[t]
    BY <1>3
  <2>2. CASE t \in copied
    BY <1>4, <2>1, <2>2, BackendConstants DEF Backend!TextType
  <2>3. CASE t \notin copied
    BY <1>1, <2>1, <2>3
  <2> QED
    BY <2>2, <2>3
<1>6. text \in [s.texts -> Backend(s)!TextType]
    BY <1>5
<1>7. \A t \in s.texts : text[t] = IF t \in copied
                  THEN [ptr |-> <<scan_clock, scan.row.pid, t>>, sampled_at |-> scan_clock]
                  ELSE x.text[t]
    BY <1>3
<1> HIDE DEF text, w
<1>8. w = [pid |-> x.pid, start_ticks |-> x.start_ticks,
           sampled_at |-> x.sampled_at, io_at |-> x.io_at,
           io_available |-> x.io_available, text |-> text, gpu |-> x.gpu,
           generation |-> x.generation]
    BY <1>1, <1>2
<1>9. w \in SamplesOf(s)
    BY <1>6, <1>8, SampleFields DEF SamplesOf
<1>10. w.text = text /\ DOMAIN text = s.texts
    BY <1>6, <1>8
<1> QED
    BY <1>7, <1>8, <1>9, <1>10 DEF w

(* What the steps of an entry do, in the terms of the invariants.           *)
LEMMA MetadataRead ==
    ASSUME NEW s, Backend(s)!BackendAssumption, PlacesInv(s), Backend(s)!read_metadata
    PROVE  /\ UNCHANGED <<alive, instances, scan_clock, total_at, generation,
                         processes, scan_outcome, retained>>
           /\ phase = "metadata" /\ phase' = "enrich"
           /\ ScanShaped(scan') /\ scan'.flags = scan.flags /\ scan'.seen = scan.seen
           /\ scan'.searchable = scan.searchable /\ scan'.mutations = scan.mutations
           /\ scan'.original_generation = scan.original_generation
           /\ scan'.index = scan.index /\ RowShaped(scan'.row)
           /\ scan'.row.pid = scan.row.pid /\ scan'.row.same = scan.row.same
           /\ scan'.row.instance_id = scan.row.instance_id
           /\ scan'.row.io_available \in BOOLEAN
           /\ scan'.row.cached = {t \in Backend(s)!Wanted : Backend(s)!Cached(t)}
           /\ scan'.row.enrich = (/\ "cgroup" \in Backend(s)!Wanted \ scan'.row.cached
                                  /\ alive[scan.row.pid] = scan.row.instance_id)
           /\ DOMAIN scan'.row.text = s.texts
           /\ scan'.row.text = [t \in s.texts |-> scan'.row.text[t]]
           /\ \A t \in s.texts : scan'.row.text[t] =
                 IF t \in scan'.row.cached THEN heap[samples[scan.index].text[t].ptr]
                 ELSE IF t \in Backend(s)!Wanted \ {"cgroup"}
                      THEN Backend(s)!ReadText(t) ELSE 0
           /\ \E copied \in SUBSET ((Backend(s)!Wanted \ {"cgroup"}) \ scan'.row.cached) :
                 /\ ~s.fails => copied = (Backend(s)!Wanted \ {"cgroup"}) \ scan'.row.cached
                 /\ samples' = [samples EXCEPT ![scan.index] =
                                   Backend(s)!WithTexts(samples[scan.index], copied)]
                 /\ heap' = Backend(s)!Allocated(copied, scan'.row.text)
<1> DEFINE hits == {t \in Backend(s)!Wanted : Backend(s)!Cached(t)}
           misses == (Backend(s)!Wanted \ {"cgroup"}) \ hits
           text == [t \in s.texts |->
                      IF t \in hits THEN heap[samples[scan.index].text[t].ptr]
                      ELSE IF t \in misses THEN Backend(s)!ReadText(t) ELSE 0]
           due_enrich == /\ "cgroup" \in Backend(s)!Wanted \ hits
                         /\ alive[scan.row.pid] = scan.row.instance_id
<1>1. /\ UNCHANGED <<alive, instances, scan_clock, total_at, generation,
                     processes, scan_outcome, retained>>
      /\ phase = "metadata" /\ phase' = "enrich"
    BY DEF Backend!read_metadata
<1>a. PICK avail \in Backend(s)!io_readable :
         scan' = [scan EXCEPT !.row.text = text, !.row.cached = hits,
                    !.row.io_available = avail, !.row.enrich = due_enrich]
    BY DEF Backend!read_metadata, Backend!Sample, Backend!process_identity_pid,
           Backend!read_process_stat
<1>b. avail \in BOOLEAN
    BY <1>a DEF Backend!io_readable
<1>2. PICK copied \in Backend(s)!Copies(misses) :
         /\ samples' = [samples EXCEPT ![scan.index] = Backend(s)!WithTexts(@, copied)]
         /\ heap' = Backend(s)!Allocated(copied, text)
    BY Zenon DEF Backend!read_metadata, Backend!Sample
<1>3. copied \in SUBSET misses /\ (~s.fails => copied = misses)
    BY <1>2 DEF Backend!Copies
<1>4. /\ \A t \in s.texts : text[t] =
             IF t \in hits THEN heap[samples[scan.index].text[t].ptr]
             ELSE IF t \in Backend(s)!Wanted \ {"cgroup"} THEN Backend(s)!ReadText(t) ELSE 0
      /\ DOMAIN text = s.texts /\ text = [t \in s.texts |-> text[t]]
    OBVIOUS
<1>5. samples' = [samples EXCEPT ![scan.index] =
                     Backend(s)!WithTexts(samples[scan.index], copied)]
    BY <1>2
<1> HIDE DEF hits, text, due_enrich
<1>6. /\ ScanShaped(scan') /\ scan'.flags = scan.flags /\ scan'.seen = scan.seen
      /\ scan'.searchable = scan.searchable /\ scan'.mutations = scan.mutations
      /\ scan'.original_generation = scan.original_generation
      /\ scan'.index = scan.index
      /\ scan'.row = [scan.row EXCEPT !.text = text, !.cached = hits,
                        !.io_available = avail, !.enrich = due_enrich]
    BY <1>a DEF PlacesInv, BackendTypes, ScanShaped
<1>7. /\ RowShaped(scan'.row) /\ scan'.row.pid = scan.row.pid
      /\ scan'.row.same = scan.row.same
      /\ scan'.row.instance_id = scan.row.instance_id
      /\ scan'.row.io_available = avail /\ scan'.row.cached = hits
      /\ scan'.row.enrich = due_enrich /\ scan'.row.text = text
    BY <1>6 DEF PlacesInv, BackendTypes, RowShaped
<1>8. /\ scan'.row.io_available \in BOOLEAN
      /\ scan'.row.cached = {t \in Backend(s)!Wanted : Backend(s)!Cached(t)}
    BY <1>b, <1>7 DEF hits
<1>9. scan'.row.enrich = (/\ "cgroup" \in Backend(s)!Wanted \ scan'.row.cached
                          /\ alive[scan.row.pid] = scan.row.instance_id)
    BY <1>7 DEF due_enrich
<1>10. /\ DOMAIN scan'.row.text = s.texts
       /\ scan'.row.text = [t \in s.texts |-> scan'.row.text[t]]
       /\ \A t \in s.texts : scan'.row.text[t] =
             IF t \in scan'.row.cached THEN heap[samples[scan.index].text[t].ptr]
             ELSE IF t \in Backend(s)!Wanted \ {"cgroup"}
                  THEN Backend(s)!ReadText(t) ELSE 0
    BY <1>4, <1>7
<1>11. heap' = Backend(s)!Allocated(copied, scan'.row.text)
    BY <1>2, <1>7
<1>12. misses = (Backend(s)!Wanted \ {"cgroup"}) \ scan'.row.cached
    BY <1>7
<1> QED
    BY <1>1, <1>3, <1>5, <1>6, <1>7, <1>8, <1>9, <1>10, <1>11, <1>12

(* What enrich reads of an entry, and what it leaves alone.                 *)
LEMMA EnrichRead ==
    ASSUME NEW s, Backend(s)!BackendAssumption, PlacesInv(s), Backend(s)!enrich
    PROVE  /\ UNCHANGED <<alive, instances, scan_clock, samples, heap, total_at,
                         generation, processes, scan_outcome, retained>>
           /\ phase = "enrich" /\ phase' = "finish"
           /\ ScanShaped(scan') /\ scan'.flags = scan.flags /\ scan'.seen = scan.seen
           /\ scan'.searchable = scan.searchable /\ scan'.mutations = scan.mutations
           /\ scan'.original_generation = scan.original_generation
           /\ scan'.index = scan.index /\ RowShaped(scan'.row)
           /\ scan'.row.pid = scan.row.pid /\ scan'.row.same = scan.row.same
           /\ scan'.row.instance_id = scan.row.instance_id
           /\ scan'.row.io_available = scan.row.io_available
           /\ scan'.row.cached = scan.row.cached
           /\ scan'.row.enrich = scan.row.enrich
           /\ scan'.row.text =
                 IF scan.row.enrich
                 THEN [scan.row.text EXCEPT !["cgroup"] = Backend(s)!ReadText("cgroup")]
                 ELSE scan.row.text
<1> DEFINE got == Backend(s)!ReadText("cgroup")
<1>1. /\ UNCHANGED <<alive, instances, scan_clock, samples, heap, total_at,
                     generation, processes, scan_outcome, retained>>
      /\ phase = "enrich" /\ phase' = "finish"
      /\ scan' = IF scan.row.enrich
                 THEN [scan EXCEPT !.row.text["cgroup"] = got] ELSE scan
    BY DEF Backend!enrich
<1> HIDE DEF got
<1>2. CASE scan.row.enrich
  <2> DEFINE text == [scan.row.text EXCEPT !["cgroup"] = got]
  <2>1. scan' = [scan EXCEPT !.row.text = text]
    BY <1>1, <1>2
  <2> HIDE DEF text
  <2>2. /\ ScanShaped(scan') /\ scan'.flags = scan.flags /\ scan'.seen = scan.seen
        /\ scan'.searchable = scan.searchable /\ scan'.mutations = scan.mutations
        /\ scan'.original_generation = scan.original_generation
        /\ scan'.index = scan.index /\ scan'.row = [scan.row EXCEPT !.text = text]
    BY <2>1 DEF PlacesInv, BackendTypes, ScanShaped
  <2>3. /\ RowShaped(scan'.row) /\ scan'.row.pid = scan.row.pid
        /\ scan'.row.same = scan.row.same
        /\ scan'.row.instance_id = scan.row.instance_id
        /\ scan'.row.io_available = scan.row.io_available
        /\ scan'.row.cached = scan.row.cached
        /\ scan'.row.enrich = scan.row.enrich /\ scan'.row.text = text
    BY <2>2 DEF PlacesInv, BackendTypes, RowShaped
  <2> QED
    BY <1>1, <1>2, <2>2, <2>3 DEF text, got
<1>3. CASE ~scan.row.enrich
    BY <1>1, <1>3 DEF PlacesInv, BackendTypes
<1> QED
    BY <1>2, <1>3

(* A record is made of its fields.                                          *)
LEMMA SampleIs ==
    ASSUME NEW p, NEW b, NEW a, NEW i, NEW v, NEW x, NEW g, NEW n,
           NEW y \in [pid : {p}, start_ticks : {b}, sampled_at : {a}, io_at : {i},
                      io_available : {v}, text : {x}, gpu : {g}, generation : {n}]
    PROVE  y = [pid |-> p, start_ticks |-> b, sampled_at |-> a, io_at |-> i,
                io_available |-> v, text |-> x, gpu |-> g, generation |-> n]
    OBVIOUS

(* A row is its fields.                                                     *)
LEMMA RowIs ==
    ASSUME NEW p, NEW b, NEW m, NEW x, NEW c, NEW e, NEW v, NEW cf, NEW tf, NEW of,
           NEW nf, NEW g,
           NEW y \in [pid : {p}, instance_id : {b}, same : {m}, text : {x}, cached : {c},
                      enrich : {e}, io_available : {v}, cpu_from : {cf}, total_from : {tf},
                      io_from : {of}, interval_from : {nf}, gpu_base : {g}]
    PROVE  y = [pid |-> p, instance_id |-> b, same |-> m, text |-> x, cached |-> c,
                enrich |-> e, io_available |-> v, cpu_from |-> cf, total_from |-> tf,
                io_from |-> of, interval_from |-> nf, gpu_base |-> g]
    OBVIOUS

(* The sample and the row of an entry that is finished.                     *)
SampleMade(s, x, copied, readable_gpu) ==
    [pid |-> x.pid, start_ticks |-> scan.row.instance_id, sampled_at |-> scan_clock,
     io_at |-> IF scan.row.io_available THEN scan_clock ELSE x.io_at,
     io_available |-> scan.row.io_available,
     text |-> Backend(s)!WithTexts(x, copied).text,
     gpu |-> IF "GPU" \in scan.flags /\ Backend(s)!gpu_due
             THEN Backend(s)!gpu_sampled(readable_gpu) ELSE x.gpu,
     generation |-> generation]

RowMade(s, x, readable_gpu) ==
    [pid |-> scan.row.pid, instance_id |-> scan.row.instance_id,
     same |-> scan.row.same, text |-> Backend(s)!CheckedText,
     cached |-> scan.row.cached, enrich |-> scan.row.enrich,
     io_available |-> scan.row.io_available,
     cpu_from |-> IF scan.row.same THEN x.sampled_at ELSE 0,
     total_from |-> total_at,
     io_from |-> IF scan.row.same /\ scan.row.io_available /\ x.io_available
                 THEN x.io_at ELSE 0,
     interval_from |-> x.sampled_at,
     gpu_base |-> IF "GPU" \in scan.flags THEN Backend(s)!gpu_base(readable_gpu) ELSE {}]

Refreshed(s) == Backend(s)!Wanted \cap ({"cgroup"} \ scan.row.cached)

(* What finish_entry makes of the sample and of the row.                    *)
LEMMA EntryFinished ==
    ASSUME NEW s, Backend(s)!BackendAssumption, PlacesInv(s), Backend(s)!finish_entry
    PROVE  /\ UNCHANGED <<alive, instances, scan_clock, total_at, generation,
                         scan_outcome, retained>>
           /\ phase = "finish" /\ phase' = "readdir"
           /\ ScanShaped(scan') /\ scan'.flags = scan.flags /\ scan'.seen = scan.seen
           /\ scan'.searchable = scan.searchable /\ scan'.mutations = scan.mutations
           /\ scan'.original_generation = scan.original_generation
           /\ scan'.row = Backend(s)!NoRow
           /\ \E copied \in SUBSET Refreshed(s), got \in BOOLEAN :
                 /\ ~s.fails => copied = Refreshed(s)
                 /\ got => alive[scan.row.pid] # 0
                 /\ heap' = Backend(s)!Allocated(copied, Backend(s)!CheckedText)
                 /\ samples' = [samples EXCEPT ![scan.index] =
                                   SampleMade(s, samples[scan.index], copied, got)]
                 /\ processes' = processes \cup {RowMade(s, samples[scan.index], got)}
<1> DEFINE x == samples[scan.index]
           wanted == "GPU" \in scan.flags
<1>1. /\ UNCHANGED <<alive, instances, scan_clock, total_at, generation,
                     scan_outcome, retained>>
      /\ phase = "finish" /\ phase' = "readdir"
      /\ scan' = [scan EXCEPT !.row = Backend(s)!NoRow, !.index = 0]
    BY DEF Backend!finish_entry
<1>2. /\ ScanShaped(scan') /\ scan'.flags = scan.flags /\ scan'.seen = scan.seen
      /\ scan'.searchable = scan.searchable /\ scan'.mutations = scan.mutations
      /\ scan'.original_generation = scan.original_generation
      /\ scan'.row = Backend(s)!NoRow
    BY <1>1 DEF PlacesInv, BackendTypes, ScanShaped
<1>3. PICK copied \in Backend(s)!Copies(Refreshed(s)),
           got \in IF wanted /\ Backend(s)!gpu_due THEN Backend(s)!gpu_readable ELSE {FALSE} :
         /\ heap' = Backend(s)!Allocated(copied, Backend(s)!CheckedText)
         /\ samples' = [samples EXCEPT ![scan.index] =
               [Backend(s)!WithTexts(x, copied) EXCEPT
                  !.gpu = IF wanted /\ Backend(s)!gpu_due
                          THEN Backend(s)!gpu_sampled(got) ELSE x.gpu,
                  !.start_ticks = scan.row.instance_id,
                  !.io_at = IF scan.row.io_available THEN scan_clock ELSE x.io_at,
                  !.io_available = scan.row.io_available,
                  !.sampled_at = scan_clock,
                  !.generation = generation]]
         /\ processes' = processes \cup
               {[scan.row EXCEPT
                   !.text = Backend(s)!CheckedText,
                   !.total_from = total_at,
                   !.cpu_from = IF scan.row.same THEN x.sampled_at ELSE 0,
                   !.interval_from = x.sampled_at,
                   !.io_from = IF scan.row.same /\ scan.row.io_available /\ x.io_available
                               THEN x.io_at ELSE 0,
                   !.gpu_base = IF wanted THEN Backend(s)!gpu_base(got) ELSE {}]}
    BY Zenon DEF Backend!finish_entry, Backend!Sample, Refreshed
<1>4. copied \in SUBSET Refreshed(s) /\ (~s.fails => copied = Refreshed(s))
    BY <1>3 DEF Backend!Copies
<1>5. got \in BOOLEAN /\ (got => alive[scan.row.pid] # 0)
    BY <1>3 DEF Backend!gpu_readable
<1>6. x \in SamplesOf(s) /\ InRow /\ copied \in SUBSET s.texts
  <2>1. scan.index \in DOMAIN samples
    BY <1>1 DEF PlacesInv, ScanPlaced, InRow
  <2>2. Backend(s)!Wanted \subseteq s.texts
    BY DEF Backend!Wanted
  <2> QED
    BY <1>1, <1>4, <2>1, <2>2, SamplesTyped DEF PlacesInv, InRow, Refreshed
<1> DEFINE w == Backend(s)!WithTexts(x, copied)
           gpu == IF wanted /\ Backend(s)!gpu_due THEN Backend(s)!gpu_sampled(got) ELSE x.gpu
           io == IF scan.row.io_available THEN scan_clock ELSE x.io_at
<1>7. w = [pid |-> x.pid, start_ticks |-> x.start_ticks,
           sampled_at |-> x.sampled_at, io_at |-> x.io_at,
           io_available |-> x.io_available, text |-> w.text, gpu |-> x.gpu,
           generation |-> x.generation]
    BY <1>6, TextsCopied
<1> DEFINE y == [w EXCEPT !.gpu = gpu, !.start_ticks = scan.row.instance_id,
                          !.io_at = io, !.io_available = scan.row.io_available,
                          !.sampled_at = scan_clock, !.generation = generation]
<1>8. samples' = [samples EXCEPT ![scan.index] = y]
    BY <1>3
<1>9. y \in [pid : {x.pid}, start_ticks : {scan.row.instance_id},
             sampled_at : {scan_clock}, io_at : {io},
             io_available : {scan.row.io_available}, text : {w.text}, gpu : {gpu},
             generation : {generation}]
  <2> HIDE DEF w, x, gpu, io
  <2>1. /\ w = [pid |-> w.pid, start_ticks |-> w.start_ticks,
                sampled_at |-> w.sampled_at, io_at |-> w.io_at,
                io_available |-> w.io_available, text |-> w.text, gpu |-> w.gpu,
                generation |-> w.generation]
        /\ w.pid = x.pid
    BY <1>7
  <2> QED
    BY <2>1
<1>10. y = [pid |-> x.pid, start_ticks |-> scan.row.instance_id,
            sampled_at |-> scan_clock, io_at |-> io,
            io_available |-> scan.row.io_available, text |-> w.text, gpu |-> gpu,
            generation |-> generation]
  <2> HIDE DEF y, w, x, gpu, io
  <2> QED
    BY <1>9, SampleIs
<1>12. samples' = [samples EXCEPT ![scan.index] = SampleMade(s, x, copied, got)]
    BY <1>8, <1>10 DEF SampleMade
<1> DEFINE text == Backend(s)!CheckedText
           cpu == IF scan.row.same THEN x.sampled_at ELSE 0
           bytes == IF scan.row.same /\ scan.row.io_available /\ x.io_available
                    THEN x.io_at ELSE 0
           base == IF wanted THEN Backend(s)!gpu_base(got) ELSE {}
           at == x.sampled_at
<1> DEFINE z == [scan.row EXCEPT !.text = text, !.total_from = total_at,
                   !.cpu_from = cpu, !.interval_from = at, !.io_from = bytes,
                   !.gpu_base = base]
<1>13. processes' = processes \cup {z}
    BY <1>3
<1>14. z = [pid |-> scan.row.pid, instance_id |-> scan.row.instance_id,
            same |-> scan.row.same, text |-> text,
            cached |-> scan.row.cached, enrich |-> scan.row.enrich,
            io_available |-> scan.row.io_available, cpu_from |-> cpu,
            total_from |-> total_at, io_from |-> bytes, interval_from |-> at,
            gpu_base |-> base]
  <2>1. RowShaped(scan.row)
    BY DEF PlacesInv, BackendTypes
  <2> HIDE DEF text, cpu, bytes, base, at
  <2>2. z \in [pid : {scan.row.pid}, instance_id : {scan.row.instance_id},
               same : {scan.row.same}, text : {text}, cached : {scan.row.cached},
               enrich : {scan.row.enrich}, io_available : {scan.row.io_available},
               cpu_from : {cpu}, total_from : {total_at}, io_from : {bytes},
               interval_from : {at}, gpu_base : {base}]
    BY <2>1 DEF RowShaped
  <2> HIDE DEF z
  <2> QED
    BY <2>2, RowIs
<1>15. processes' = processes \cup {RowMade(s, x, got)}
    BY <1>13, <1>14 DEF RowMade
<1> HIDE DEF x, y, z, text, cpu, bytes, base, at, gpu, io, w, wanted
<1>16. heap' = Backend(s)!Allocated(copied, Backend(s)!CheckedText)
    BY <1>3
<1> QED
    BY <1>1, <1>2, <1>4, <1>5, <1>12, <1>15, <1>16 DEF x

(* The figures of an entry's GPU columns are those of some process.         *)
LEMMA GpuTyped ==
    ASSUME NEW s, Backend(s)!BackendAssumption, PlacesInv(s), InRow, NEW got \in BOOLEAN
    PROVE  Backend(s)!gpu_sampled(got) \in
              [valid : BOOLEAN, of : 0 .. MaxInstance,
               shown : SUBSET (0 .. MaxInstance), sampled_at : 0 .. s.scans]
<1>1. /\ scan.index \in DOMAIN samples /\ scan.row.pid \in s.pids
      /\ MaxInstance \in Nat /\ s.scans \in Nat /\ scan_clock \in 0 .. s.scans
      /\ instances \in 0 .. MaxInstance /\ alive \in [s.pids -> 0 .. instances]
    BY BackendConstants DEF PlacesInv, BackendTypes, ScanPlaced
<1>2. samples[scan.index] \in SamplesOf(s)
    BY <1>1, SamplesTyped DEF PlacesInv
<1>3. samples[scan.index].gpu \in [valid : BOOLEAN, of : 0 .. MaxInstance,
               shown : SUBSET (0 .. MaxInstance), sampled_at : 0 .. s.scans]
    BY <1>2, SampleFields
<1>4. /\ alive[scan.row.pid] \in 0 .. MaxInstance
      /\ Backend(s)!Sample.gpu.of \in 0 .. MaxInstance
    BY <1>1, <1>3 DEF Backend!Sample
<1> QED
    BY <1>1, <1>4 DEF Backend!gpu_sampled

(* The sample a finished entry leaves behind.                               *)
LEMMA SampleMadeTyped ==
    ASSUME NEW s, Backend(s)!BackendAssumption, PlacesInv(s), InRow,
           NEW x \in SamplesOf(s), x.pid = scan.row.pid,
           NEW copied \in SUBSET s.texts, NEW got \in BOOLEAN
    PROVE  /\ SampleMade(s, x, copied, got) \in SamplesOf(s)
           /\ SampleMade(s, x, copied, got).pid = scan.row.pid
           /\ SampleMade(s, x, copied, got).generation = generation
<1>1. /\ Backend(s)!WithTexts(x, copied).text \in [s.texts -> Backend(s)!TextType]
      /\ x.pid \in s.pids /\ x.io_at \in 0 .. s.scans
      /\ x.gpu \in [valid : BOOLEAN, of : 0 .. MaxInstance,
               shown : SUBSET (0 .. MaxInstance), sampled_at : 0 .. s.scans]
    BY TextsCopied, SampleFields
<1>2. Backend(s)!gpu_sampled(got) \in
              [valid : BOOLEAN, of : 0 .. MaxInstance,
               shown : SUBSET (0 .. MaxInstance), sampled_at : 0 .. s.scans]
    BY GpuTyped
<1>3. /\ scan_clock \in 0 .. s.scans /\ scan.row.io_available \in BOOLEAN
      /\ generation \in 0 .. GenerationModulus - 1
      /\ scan.row.instance_id \in 0 .. MaxInstance
    BY BackendConstants, SMTT(20) DEF PlacesInv, BackendTypes, ScanPlaced
<1> QED
    BY <1>1, <1>2, <1>3 DEF SampleMade, SamplesOf

(* The texts wanted are texts, and the cgroup is read last.                 *)
LEMMA WantedTexts ==
    ASSUME NEW s
    PROVE  /\ Backend(s)!Wanted \in SUBSET s.texts /\ Refreshed(s) \in SUBSET s.texts
           /\ (Backend(s)!Wanted \ {"cgroup"}) \ scan'.row.cached \in SUBSET s.texts
    BY DEF Backend!Wanted, Refreshed

(* The steps of an entry keep the order of the vector.                      *)
LEMMA PlacesRow ==
    ASSUME NEW s, Backend(s)!BackendAssumption, PlacesInv(s),
           Backend(s)!read_metadata \/ Backend(s)!enrich \/ Backend(s)!finish_entry
    PROVE  PlacesInv(s)'
<1>1. CASE Backend(s)!read_metadata
  <2> DEFINE misses == (Backend(s)!Wanted \ {"cgroup"}) \ scan'.row.cached
  <2>1. /\ UNCHANGED <<alive, instances, scan_clock, total_at, generation, scan_outcome>>
        /\ phase = "metadata" /\ phase' = "enrich"
        /\ ScanShaped(scan') /\ scan'.seen = scan.seen
        /\ scan'.searchable = scan.searchable /\ scan'.mutations = scan.mutations
        /\ scan'.original_generation = scan.original_generation
        /\ scan'.index = scan.index /\ RowShaped(scan'.row)
        /\ scan'.row.pid = scan.row.pid /\ scan'.row.instance_id = scan.row.instance_id
        /\ scan'.row.io_available \in BOOLEAN
    BY <1>1, MetadataRead
  <2>2. PICK copied \in SUBSET misses :
           samples' = [samples EXCEPT ![scan.index] =
                         Backend(s)!WithTexts(samples[scan.index], copied)]
    BY <1>1, MetadataRead
  <2>3. /\ InRow /\ Scanning' /\ InRow' /\ Scanning
    BY <2>1 DEF InRow, Scanning
  <2>4. /\ samples[scan.index] \in SamplesOf(s) /\ copied \in SUBSET s.texts
        /\ samples[scan.index].pid = scan.row.pid
    BY <2>2, <2>3, SamplesTyped, WantedTexts DEF PlacesInv, ScanPlaced
  <2> DEFINE x == Backend(s)!WithTexts(samples[scan.index], copied)
  <2>5. x \in SamplesOf(s) /\ x.pid = scan.row.pid
        /\ x.generation = samples[scan.index].generation
    BY <2>3, <2>4, TextsCopied
  <2> HIDE DEF x
  <2>6. samples' = [samples EXCEPT ![scan.index] = x]
    BY <2>2 DEF x
  <2>7. samples' \in Seq(SamplesOf(s)) /\ ScanPlaced' /\ GenerationsTell'
    BY <2>1, <2>3, <2>5, <2>6, SampleReplaced
  <2>8. BackendTypes(s)'
    BY <2>1, <2>3, <2>7 DEF PlacesInv, BackendTypes
  <2> QED
    BY <2>7, <2>8 DEF PlacesInv
<1>2. CASE Backend(s)!enrich
  <2>1. /\ UNCHANGED <<alive, instances, scan_clock, total_at, generation, scan_outcome,
                       samples>>
        /\ phase = "enrich" /\ phase' = "finish"
        /\ ScanShaped(scan') /\ scan'.seen = scan.seen
        /\ scan'.searchable = scan.searchable /\ scan'.mutations = scan.mutations
        /\ scan'.original_generation = scan.original_generation
        /\ scan'.index = scan.index /\ RowShaped(scan'.row)
        /\ scan'.row.pid = scan.row.pid /\ scan'.row.instance_id = scan.row.instance_id
        /\ scan'.row.io_available = scan.row.io_available
    BY <1>2, EnrichRead
  <2>2. /\ InRow /\ Scanning' /\ InRow' /\ Scanning /\ phase' # "destroyed"
    BY <2>1 DEF InRow, Scanning
  <2>3. BackendTypes(s)'
    BY <2>1, <2>2 DEF PlacesInv, BackendTypes
  <2>4. ScanPlaced'
    BY <2>1, <2>2 DEF PlacesInv, ScanPlaced
  <2>5. GenerationsTell'
    BY <2>1, <2>2 DEF PlacesInv, GenerationsTell, Finished, Original
  <2> QED
    BY <2>3, <2>4, <2>5 DEF PlacesInv
<1>3. CASE Backend(s)!finish_entry
  <2>1. /\ UNCHANGED <<alive, instances, scan_clock, total_at, generation, scan_outcome>>
        /\ phase = "finish" /\ phase' = "readdir"
        /\ ScanShaped(scan') /\ scan'.seen = scan.seen
        /\ scan'.searchable = scan.searchable /\ scan'.mutations = scan.mutations
        /\ scan'.original_generation = scan.original_generation
        /\ scan'.row = Backend(s)!NoRow
    BY <1>3, EntryFinished
  <2>2. PICK copied \in SUBSET Refreshed(s), got \in BOOLEAN :
           samples' = [samples EXCEPT ![scan.index] =
                         SampleMade(s, samples[scan.index], copied, got)]
    BY <1>3, EntryFinished
  <2>3. /\ InRow /\ Scanning' /\ ~InRow' /\ Scanning
    BY <2>1 DEF InRow, Scanning
  <2>4. /\ samples[scan.index] \in SamplesOf(s) /\ copied \in SUBSET s.texts
        /\ samples[scan.index].pid = scan.row.pid
    BY <2>2, <2>3, SamplesTyped, WantedTexts DEF PlacesInv, ScanPlaced
  <2> DEFINE x == SampleMade(s, samples[scan.index], copied, got)
  <2>5. x \in SamplesOf(s) /\ x.pid = scan.row.pid /\ x.generation = generation
    BY <2>3, <2>4, SampleMadeTyped
  <2> HIDE DEF x
  <2>6. samples' = [samples EXCEPT ![scan.index] = x]
    BY <2>2 DEF x
  <2>7. samples' \in Seq(SamplesOf(s)) /\ ScanPlaced' /\ GenerationsTell'
    BY <2>1, <2>3, <2>5, <2>6, SampleReplaced
  <2>8. RowShaped(scan'.row) /\ scan'.row.io_available \in BOOLEAN
    BY <2>1 DEF Backend!NoRow, RowShaped
  <2>9. BackendTypes(s)'
    BY <2>1, <2>3, <2>7, <2>8 DEF PlacesInv, BackendTypes
  <2> QED
    BY <2>7, <2>9 DEF PlacesInv
<1> QED
    BY <1>1, <1>2, <1>3

(* What the log restores: the samples as the scan found them.               *)
LEMMA Restoring ==
    ASSUME NEW s, Backend(s)!BackendAssumption, PlacesInv(s), phase = "readdir"
    PROVE  /\ Backend(s)!Restored \in Seq(SamplesOf(s))
           /\ DOMAIN Backend(s)!Restored = 1 .. scan.searchable
           /\ 1 .. scan.searchable \subseteq DOMAIN samples
           /\ \A i \in 1 .. scan.searchable :
                 /\ Backend(s)!Restored[i] = Original(i)
                 /\ Original(i) \in SamplesOf(s) /\ Original(i).pid = samples[i].pid
<1>1. /\ Scanning /\ BackendTypes(s) /\ scan.searchable \in Nat
      /\ scan.searchable <= Len(samples)
      /\ DOMAIN samples = 1 .. Len(samples) /\ Len(samples) \in Nat
      /\ \A i \in DOMAIN samples : samples[i] \in SamplesOf(s)
    BY SamplesTyped DEF Scanning, PlacesInv, BackendTypes, ScanPlaced
<1>2. /\ 1 .. scan.searchable \subseteq DOMAIN samples
      /\ \A i \in 1 .. scan.searchable :
           Original(i) \in SamplesOf(s) /\ Original(i).pid = samples[i].pid
    BY <1>1 DEF PlacesInv, BackendTypes, ScanPlaced, Original
<1>3. Backend(s)!Restored = [i \in 1 .. scan.searchable |-> Original(i)]
    BY DEF Backend!Restored, Original
<1> QED
    BY <1>1, <1>2, <1>3

(* A scan ends, with its rows or with the samples as they were.             *)
LEMMA PlacesEnd ==
    ASSUME NEW s, Backend(s)!BackendAssumption, PlacesInv(s),
           Backend(s)!rollback \/ Backend(s)!commit
    PROVE  PlacesInv(s)'
<1>1. /\ phase = "readdir" /\ phase' = "idle" /\ scan' = Backend(s)!NoScan
      /\ UNCHANGED <<alive, instances, scan_clock>>
      /\ scan_outcome' \in {"failed", "published"}
      /\ total_at' \in {total_at, scan_clock}
    BY DEF Backend!rollback, Backend!commit
<1>2. Scanning /\ ~Scanning' /\ ~InRow'
    BY <1>1 DEF Scanning, InRow
<1>3. /\ samples' \in Seq(SamplesOf(s))
      /\ generation' \in 0 .. GenerationModulus - 1
      /\ \A n \in DOMAIN samples' : samples'[n].generation = generation'
      /\ \A n, m \in DOMAIN samples' : n < m => samples'[n].pid < samples'[m].pid
  <2>1. CASE Backend(s)!rollback
    <3>1. samples' = Backend(s)!Restored /\ generation' = scan.original_generation
      BY <2>1 DEF Backend!rollback
    <3>2. \A i \in 1 .. scan.searchable : Original(i).generation = generation'
      BY <1>2, <3>1 DEF PlacesInv, GenerationsTell
    <3>3. \A n, m \in 1 .. scan.searchable : n < m => Original(n).pid < Original(m).pid
      BY <1>1, <1>2, Restoring DEF PlacesInv, ScanPlaced
    <3>4. generation' \in 0 .. GenerationModulus - 1
      BY <3>1 DEF PlacesInv, BackendTypes
    <3>5. /\ samples' \in Seq(SamplesOf(s)) /\ DOMAIN samples' = 1 .. scan.searchable
          /\ \A i \in 1 .. scan.searchable : samples'[i] = Original(i)
      BY <1>1, <3>1, Restoring
    <3> QED
      BY <3>2, <3>3, <3>4, <3>5
  <2>2. CASE Backend(s)!commit
    <3>1. samples' = Backend(s)!Compacted /\ generation' = generation
      BY <2>2 DEF Backend!commit
    <3>2. \A i \in Backend(s)!Kept : samples[i].generation = generation
      BY DEF Backend!Kept
    <3>3. generation' \in 0 .. GenerationModulus - 1
      BY <3>1 DEF PlacesInv, BackendTypes
    <3>4. /\ samples' \in Seq(SamplesOf(s))
          /\ \A n \in DOMAIN samples' : \E i \in Backend(s)!Kept : samples'[n] = samples[i]
          /\ \A n, m \in DOMAIN samples' : n < m => samples'[n].pid < samples'[m].pid
      BY <1>1, <3>1, Compaction
    <3> QED
      BY <3>1, <3>2, <3>3, <3>4
  <2> QED
    BY <2>1, <2>2
<1>4. /\ ScanShaped(scan') /\ scan'.row = Backend(s)!NoRow /\ scan'.seen = {}
      /\ scan'.searchable = 0 /\ scan'.mutations = <<>>
      /\ scan'.original_generation = 0
    BY <1>1 DEF Backend!NoScan, ScanShaped
<1>5. RowShaped(scan'.row) /\ scan'.row.io_available \in BOOLEAN
    BY <1>4 DEF Backend!NoRow, RowShaped
<1>6. DOMAIN scan'.mutations = {} /\ scan'.mutations \in [DOMAIN scan'.mutations -> SamplesOf(s)]
    BY <1>4
<1>7. BackendTypes(s)'
    BY <1>1, <1>2, <1>3, <1>4, <1>5, <1>6, BackendConstants, SMTT(20)
       DEF PlacesInv, BackendTypes
<1>8. \A n, m \in DOMAIN samples' : samples'[n].pid = samples'[m].pid => n = m
  <2> TAKE n, m \in DOMAIN samples'
  <2>1. /\ n \in Nat /\ m \in Nat
        /\ samples'[n] \in SamplesOf(s) /\ samples'[m] \in SamplesOf(s)
    BY <1>3
  <2>2. samples'[n].pid \in Nat /\ samples'[m].pid \in Nat
    BY <2>1, SampleFields, BackendConstants
  <2> QED
    BY <1>3, <2>1, <2>2
<1>9. ScanPlaced' /\ GenerationsTell'
    BY <1>1, <1>2, <1>3, <1>6, <1>8 DEF ScanPlaced, GenerationsTell
<1> QED
    BY <1>7, <1>9 DEF PlacesInv

(* The order of the vector is kept by every step.                           *)
LEMMA PlacesStep ==
    ASSUME NEW s, Backend(s)!BackendAssumption, PlacesInv(s),
           Backend(s)!Next \/ UNCHANGED processVars
    PROVE  PlacesInv(s)'
<1>1. ASSUME NEW pid \in s.pids,
             Backend(s)!Exit(pid) \/ Backend(s)!Spawn(pid) \/ Backend(s)!read_stat(pid)
      PROVE  PlacesInv(s)'
    BY <1>1, PlacesKernel, PlacesRead
<1>2. CASE \/ \E flags \in s.flags : Backend(s)!scan_begin(flags)
           \/ Backend(s)!scan_refused
           \/ Backend(s)!lsm_process_backend_destroy
           \/ UNCHANGED processVars
    BY <1>2, PlacesIdle
<1>3. CASE Backend(s)!read_metadata \/ Backend(s)!enrich \/ Backend(s)!finish_entry
    BY <1>3, PlacesRow
<1>4. CASE Backend(s)!rollback \/ Backend(s)!commit
    BY <1>4, PlacesEnd
<1> QED
    BY <1>1, <1>2, <1>3, <1>4 DEF Backend!Next

(* The strings of a sample are named after it, and allocated at some scan   *)
(* up to a given one.                                                       *)
Named(s, x, last) ==
    \A t \in s.texts : \/ x.text[t].ptr = <<>>
                       \/ \E k \in 1 .. last : x.text[t].ptr = <<k, x.pid, t>>

(* What a sample holds that this scan has not touched.                      *)
Before(s, i, t) == IF i <= scan.searchable THEN Original(i).text[t].ptr ELSE <<>>

(* What the samples of a vector, and the logged copies, point to.           *)
HeldBy(s, p) ==
    \/ \E i \in DOMAIN samples, t \in s.texts : p = samples[i].text[t].ptr
    \/ \E i \in DOMAIN scan.mutations, t \in s.texts : p = scan.mutations[i].text[t].ptr

StringsInv(s) ==
    /\ ~Scanning => \A i \in DOMAIN samples : Named(s, samples[i], scan_clock)
    /\ Scanning =>
          /\ \A i \in 1 .. scan.searchable : Named(s, Original(i), scan_clock - 1)
          /\ \A i \in DOMAIN samples, t \in s.texts :
                samples[i].text[t].ptr \in
                   {Before(s, i, t), <<scan_clock, samples[i].pid, t>>}
    /\ InRow => \A t \in s.texts :
          phase = "metadata" \/ t = "cgroup"
             => samples[scan.index].text[t].ptr # <<scan_clock, scan.row.pid, t>>
    /\ DOMAIN heap = Backend(s)!Pointers(samples) \cup Backend(s)!Pointers(scan.mutations)
    /\ \A p \in DOMAIN heap : heap[p] \in 0 .. MaxInstance
    /\ phase \in {"enrich", "finish"} => scan.row.text \in [s.texts -> 0 .. MaxInstance]

(* What a sample says, with the strings of a heap: each text instead of the *)
(* pointer to it.                                                           *)
Says(s, h, x) ==
    [x EXCEPT !.text = [t \in s.texts |->
        LET p == x.text[t].ptr
        IN  IF p \in DOMAIN h THEN h[p] ELSE IF p = <<>> THEN 0 ELSE -1]]

TraceInv(s) ==
    /\ Scanning => retained = [i \in 1 .. scan.searchable |-> Says(s, heap, Original(i))]
    /\ scan_outcome = "failed" /\ phase = "idle" => Backend(s)!Contents = retained

(* The rows so far are those of the finished samples; a sample counts from  *)
(* the scan that is the baseline, or this one.                              *)
Rated(x, at) == x.sampled_at \in at /\ (x.io_available => x.io_at = x.sampled_at)

RowsInv(s) ==
    /\ Scanning =>
          {<<r.pid, r.instance_id>> : r \in processes} =
             {<<samples[i].pid, samples[i].start_ticks>> :
                i \in {j \in DOMAIN samples : Finished(j)}}
    /\ scan_outcome = "published" /\ phase = "idle" =>
          {<<r.pid, r.instance_id>> : r \in processes} =
             {<<samples[i].pid, samples[i].start_ticks>> : i \in DOMAIN samples}
    /\ \A i \in DOMAIN samples :
          Rated(samples[i], IF Scanning /\ Finished(i) THEN {scan_clock} ELSE {0, total_at})
    /\ \A i \in DOMAIN scan.mutations : Rated(scan.mutations[i], {0, total_at})
    /\ Backend(s)!RatesShareWindow

(* A cgroup read for the process that still has the PID is that process's.  *)
EnrichInv(s) ==
    /\ phase \in {"enrich", "finish"} =>
          /\ scan.row.enrich => "cgroup" \in s.texts
          /\ DOMAIN scan.row.text = s.texts
    /\ phase = "finish" /\ scan.row.enrich /\ alive[scan.row.pid] = scan.row.instance_id
          => scan.row.text["cgroup"] \in {0, scan.row.instance_id}
    /\ Backend(s)!EnrichedOwned

(* Every scan asks for every text and for the GPU figures, and every text   *)
(* is copied: no strdup fails.                                              *)
AllAsked(s) ==
    /\ s.fails = FALSE
    /\ \A f \in s.flags : /\ {"GPU", "CGROUP"} \subseteq f
                          /\ "executable" \in s.texts => "EXECUTABLE" \in f

(* What is kept of a process is its own.                                    *)
TextOf(h, x, t, n) == x.text[t].ptr # <<>> => h[x.text[t].ptr] \in {0, n}
GpuOf(x, n) == (x.gpu.valid => x.gpu.of = n) /\ x.gpu.shown \subseteq {n}

Own(s, h, a, x) ==
    a[x.pid] = x.start_ticks /\ x.start_ticks # 0 =>
       (\A t \in s.texts : TextOf(h, x, t, x.start_ticks)) /\ GpuOf(x, x.start_ticks)

(* What is known of the sample the scan is at.                              *)
RowOwn(s) ==
    /\ InRow /\ scan.row.same =>
          /\ GpuOf(samples[scan.index], scan.row.instance_id)
          /\ phase = "metadata" => \A t \in s.texts :
                TextOf(heap, samples[scan.index], t, scan.row.instance_id)
    /\ phase \in {"enrich", "finish"} =>
          /\ alive[scan.row.pid] = scan.row.instance_id =>
                \A t \in s.texts \ {"cgroup"} :
                   TextOf(heap, samples[scan.index], t, scan.row.instance_id)
          /\ \A t \in scan.row.cached :
                /\ scan.row.text[t] \in {0, scan.row.instance_id}
                /\ TextOf(heap, samples[scan.index], t, scan.row.instance_id)
          /\ "cgroup" \in s.texts => \/ "cgroup" \in scan.row.cached
                                     \/ scan.row.enrich
                                     \/ scan.row.text["cgroup"] = 0
          /\ scan.row.cached \subseteq s.texts
          /\ ("cgroup" \in scan.row.cached => ~scan.row.enrich)

OwnInv(s) ==
    /\ Scanning => scan.flags \in s.flags
    /\ \A i \in DOMAIN samples : samples[i].start_ticks <= instances
    /\ \A i \in DOMAIN scan.mutations :
          /\ scan.mutations[i].start_ticks <= instances
          /\ Own(s, heap, alive, scan.mutations[i])
    /\ \A i \in DOMAIN samples :
          ~(InRow /\ i = scan.index) => Own(s, heap, alive, samples[i])
    /\ RowOwn(s)
    /\ Backend(s)!RetainedOwned

(* What the kernel's steps leave alone, and that no PID comes back to a     *)
(* process that had it.                                                     *)
LEMMA KernelMoved ==
    ASSUME NEW s, Backend(s)!BackendAssumption, PlacesInv(s), NEW pid \in s.pids,
           Backend(s)!Exit(pid) \/ Backend(s)!Spawn(pid)
    PROVE  /\ UNCHANGED <<phase, scan_clock, samples, heap, total_at, generation,
                         processes, scan_outcome, retained>>
           /\ scan'.row = scan.row /\ scan'.seen = scan.seen
           /\ scan'.searchable = scan.searchable /\ scan'.mutations = scan.mutations
           /\ scan'.index = scan.index /\ scan'.flags = scan.flags
           /\ instances \in Nat /\ instances' \in Nat /\ instances <= instances'
           /\ \A p \in s.pids : alive'[p] \in {0, alive[p]} \/ alive'[p] > instances
<1>1. /\ instances \in Nat /\ alive \in [s.pids -> 0 .. instances]
    BY BackendConstants DEF PlacesInv, BackendTypes
<1>2. /\ scan'.row = scan.row /\ scan'.seen = scan.seen
      /\ scan'.searchable = scan.searchable /\ scan'.mutations = scan.mutations
      /\ scan'.index = scan.index /\ scan'.flags = scan.flags
    BY DEF Backend!Exit, Backend!Spawn, PlacesInv, BackendTypes, ScanShaped
<1>3. CASE Backend(s)!Exit(pid)
    BY <1>1, <1>2, <1>3 DEF Backend!Exit
<1>4. CASE Backend(s)!Spawn(pid)
    BY <1>1, <1>2, <1>4 DEF Backend!Spawn
<1> QED
    BY <1>3, <1>4

(* Where a scan begins, and where one ends.                                 *)
LEMMA ScanBegun ==
    ASSUME NEW s, Backend(s)!BackendAssumption, PlacesInv(s), NEW flags \in s.flags,
           Backend(s)!scan_begin(flags)
    PROVE  /\ UNCHANGED <<alive, instances, samples, heap, total_at>>
           /\ phase = "idle" /\ phase' = "readdir" /\ scan_clock' = scan_clock + 1
           /\ scan_outcome' = "none" /\ processes' = {}
           /\ retained' = Backend(s)!Contents
           /\ scan'.flags = flags /\ scan'.seen = {} /\ scan'.searchable = Len(samples)
           /\ DOMAIN scan'.mutations = {}
<1>1. /\ UNCHANGED <<alive, instances, samples, heap, total_at>>
      /\ phase = "idle" /\ phase' = "readdir" /\ scan_clock' = scan_clock + 1
      /\ scan_outcome' = "none" /\ processes' = {}
      /\ retained' = Backend(s)!Contents
    BY DEF Backend!scan_begin
<1>2. /\ scan'.flags = flags /\ scan'.seen = {} /\ scan'.searchable = Len(samples)
      /\ scan'.mutations = <<>>
    BY DEF Backend!scan_begin, Backend!NoScan
<1>3. DOMAIN scan'.mutations = {}
    BY <1>2
<1> QED
    BY <1>1, <1>2, <1>3

(* Nothing has been enriched at the start.                                  *)
LEMMA EnrichStart ==
    ASSUME NEW s, Backend(s)!Init
    PROVE  EnrichInv(s)
    BY DEF Backend!Init, EnrichInv, Backend!EnrichedOwned

(* The cgroup a row shows was read for the row's own process.               *)
LEMMA EnrichStep ==
    ASSUME NEW s, Backend(s)!BackendAssumption, PlacesInv(s), EnrichInv(s),
           Backend(s)!Next \/ UNCHANGED processVars
    PROVE  EnrichInv(s)'
<1>1. ASSUME NEW pid \in s.pids, Backend(s)!Exit(pid) \/ Backend(s)!Spawn(pid)
      PROVE  EnrichInv(s)'
  <2>1. /\ UNCHANGED <<phase, processes>> /\ scan'.row = scan.row
        /\ instances \in Nat
        /\ \A p \in s.pids : alive'[p] \in {0, alive[p]} \/ alive'[p] > instances
    BY <1>1, KernelMoved
  <2>2. phase = "finish" =>
           scan.row.instance_id \in 1 .. instances /\ scan.row.pid \in s.pids
    BY DEF PlacesInv, ScanPlaced, InRow, BackendTypes
  <2>3. phase = "finish" /\ alive'[scan.row.pid] = scan.row.instance_id =>
           alive[scan.row.pid] = scan.row.instance_id
    BY <2>1, <2>2
  <2> QED
    BY <2>1, <2>3 DEF EnrichInv, Backend!EnrichedOwned
<1>2. ASSUME NEW pid \in s.pids, Backend(s)!read_stat(pid)
      PROVE  EnrichInv(s)'
  <2>1. phase' = "metadata" /\ processes' = processes
    BY <1>2, StatRead
  <2> QED
    BY <2>1 DEF EnrichInv, Backend!EnrichedOwned
<1>3. CASE UNCHANGED processVars
    BY <1>3 DEF EnrichInv, Backend!EnrichedOwned, processVars
<1>4. ASSUME \/ \E flags \in s.flags : Backend(s)!scan_begin(flags)
             \/ Backend(s)!scan_refused
             \/ Backend(s)!lsm_process_backend_destroy
             \/ Backend(s)!rollback
      PROVE  EnrichInv(s)'
  <2>1. processes' = {} /\ phase' \notin {"enrich", "finish"}
    BY <1>4 DEF Backend!scan_begin, Backend!scan_refused, Backend!rollback,
                Backend!lsm_process_backend_destroy
  <2> QED
    BY <2>1 DEF EnrichInv, Backend!EnrichedOwned
<1>5. CASE Backend(s)!commit
  <2>1. processes' = processes /\ phase' = "idle"
    BY <1>5 DEF Backend!commit
  <2> QED
    BY <2>1 DEF EnrichInv, Backend!EnrichedOwned
<1>6. CASE Backend(s)!read_metadata
  <2>1. /\ processes' = processes /\ phase' = "enrich"
        /\ DOMAIN scan'.row.text = s.texts
        /\ scan'.row.enrich => "cgroup" \in Backend(s)!Wanted
    BY <1>6, MetadataRead
  <2> QED
    BY <2>1, WantedTexts DEF EnrichInv, Backend!EnrichedOwned
<1>7. CASE Backend(s)!enrich
  <2>1. /\ processes' = processes /\ phase = "enrich" /\ phase' = "finish"
        /\ alive' = alive
        /\ scan'.row.enrich = scan.row.enrich
        /\ scan'.row.pid = scan.row.pid /\ scan'.row.instance_id = scan.row.instance_id
        /\ scan'.row.text =
              IF scan.row.enrich
              THEN [scan.row.text EXCEPT !["cgroup"] = Backend(s)!ReadText("cgroup")]
              ELSE scan.row.text
    BY <1>7, EnrichRead
  <2>2. /\ scan.row.enrich => "cgroup" \in s.texts
        /\ DOMAIN scan.row.text = s.texts
    BY <2>1 DEF EnrichInv
  <2>3. DOMAIN scan'.row.text = s.texts
    BY <2>1, <2>2
  <2>4. scan.row.enrich => scan'.row.text["cgroup"] = Backend(s)!ReadText("cgroup")
    BY <2>1, <2>2
  <2>5. alive[scan.row.pid] = scan.row.instance_id =>
           Backend(s)!ReadText("cgroup") \in {0, scan.row.instance_id}
    BY DEF Backend!ReadText
  <2> QED
    BY <2>1, <2>2, <2>3, <2>4, <2>5 DEF EnrichInv, Backend!EnrichedOwned
<1>8. CASE Backend(s)!finish_entry
  <2>1. /\ phase = "finish" /\ phase' = "readdir"
        /\ \E got \in BOOLEAN :
              processes' = processes \cup {RowMade(s, samples[scan.index], got)}
    BY <1>8, EntryFinished
  <2>2. PICK got \in BOOLEAN :
              processes' = processes \cup {RowMade(s, samples[scan.index], got)}
    BY <2>1
  <2> DEFINE r == RowMade(s, samples[scan.index], got)
  <2>3. /\ r.enrich = scan.row.enrich /\ r.instance_id = scan.row.instance_id
        /\ r.text = Backend(s)!CheckedText
    BY DEF RowMade
  <2> HIDE DEF r
  <2>4. scan.row.enrich => Backend(s)!CheckedText["cgroup"] \in {0, scan.row.instance_id}
    BY <2>1 DEF EnrichInv, Backend!CheckedText, Backend!process_identity_pid,
                Backend!read_process_stat
  <2>5. processes' = processes \cup {r}
    BY <2>2 DEF r
  <2> QED
    BY <2>1, <2>3, <2>4, <2>5 DEF EnrichInv, Backend!EnrichedOwned
<1> QED
    BY <1>1, <1>2, <1>3, <1>4, <1>5, <1>6, <1>7, <1>8 DEF Backend!Next

(* A sample that is new counts from nothing.                                *)
LEMMA EmptyRated ==
    ASSUME NEW s, NEW pid, NEW at, 0 \in at
    PROVE  Rated(Backend(s)!EmptySample(pid), at)
    BY DEF Backend!EmptySample, Rated

(* There is no row at the start.                                            *)
LEMMA RowsStart ==
    ASSUME NEW s, Backend(s)!Init
    PROVE  RowsInv(s)
<1>1. /\ samples = <<>> /\ phase = "idle" /\ scan = Backend(s)!NoScan /\ processes = {}
      /\ scan_outcome = "none"
    BY DEF Backend!Init
<1>2. scan.mutations = <<>>
    BY <1>1 DEF Backend!NoScan
<1>3. DOMAIN samples = {} /\ DOMAIN scan.mutations = {} /\ ~Scanning
    BY <1>1, <1>2 DEF Scanning
<1> QED
    BY <1>1, <1>3 DEF RowsInv, Backend!RatesShareWindow

(* Which samples are finished does not change when an entry is looked up.   *)
LEMMA FinishedKept ==
    ASSUME NEW s, Backend(s)!BackendAssumption, PlacesInv(s), NEW pid \in s.pids,
           Backend(s)!read_stat(pid)
    PROVE  /\ Scanning /\ Scanning' /\ ~InRow /\ InRow'
           /\ DOMAIN samples \subseteq DOMAIN samples'
           /\ \A i \in DOMAIN samples :
                 samples'[i] = samples[i] /\ (Finished(i)' <=> Finished(i))
           /\ \A i \in DOMAIN samples' \ DOMAIN samples :
                 ~Finished(i)' /\ samples'[i] = Backend(s)!EmptySample(pid)
           /\ \A i \in DOMAIN scan'.mutations :
                 \/ i \in DOMAIN scan.mutations /\ scan'.mutations[i] = scan.mutations[i]
                 \/ /\ i = scan'.index /\ i \in DOMAIN samples /\ ~Finished(i)
                    /\ scan'.mutations[i] = samples[i]
<1>1. /\ Scanning /\ Scanning' /\ ~InRow /\ InRow'
    BY StatRead DEF Scanning, InRow
<1>2. /\ scan'.seen = scan.seen \cup {pid} /\ pid \notin scan.seen
      /\ scan'.index \in DOMAIN samples' /\ samples'[scan'.index].pid = pid
    BY StatRead
<1>3. /\ DOMAIN samples = 1 .. Len(samples) /\ Len(samples) \in Nat
      /\ samples \in Seq(SamplesOf(s))
    BY SamplesTyped DEF PlacesInv
<1>4. /\ \A i, j \in DOMAIN samples : samples[i].pid = samples[j].pid => i = j
      /\ scan.searchable <= Len(samples) /\ scan.searchable \in Nat
    BY <1>1 DEF PlacesInv, ScanPlaced, BackendTypes
<1>5. CASE /\ samples' = samples /\ scan'.index \in 1 .. scan.searchable
           /\ DOMAIN scan'.mutations = DOMAIN scan.mutations \cup {scan'.index}
           /\ scan'.mutations[scan'.index] = samples[scan'.index]
           /\ \A i \in DOMAIN scan.mutations : scan'.mutations[i] = scan.mutations[i]
  <2>1. \A i \in DOMAIN samples : Finished(i)' <=> Finished(i)
    BY <1>1, <1>2, <1>4, <1>5 DEF Finished
  <2>2. ~Finished(scan'.index) /\ scan'.index \in DOMAIN samples
    BY <1>1, <1>2, <1>5 DEF Finished
  <2> QED
    BY <1>1, <1>5, <2>1, <2>2
<1>6. CASE /\ samples' = Append(samples, Backend(s)!EmptySample(pid))
           /\ scan'.index = Len(samples) + 1
           /\ scan'.mutations = scan.mutations
           /\ \A i \in DOMAIN samples : samples[i].pid # pid
  <2>1. /\ DOMAIN samples' = 1 .. Len(samples) + 1
        /\ \A i \in DOMAIN samples : samples'[i] = samples[i]
        /\ samples'[Len(samples) + 1] = Backend(s)!EmptySample(pid)
    BY <1>3, <1>6
  <2>2. \A i \in DOMAIN samples : Finished(i)' <=> Finished(i)
    BY <1>1, <1>2, <1>3, <1>6, <2>1 DEF Finished
  <2>3. \A i \in DOMAIN samples' \ DOMAIN samples :
            ~Finished(i)' /\ samples'[i] = Backend(s)!EmptySample(pid)
    BY <1>1, <1>3, <1>6, <2>1 DEF Finished
  <2> QED
    BY <1>1, <1>3, <1>6, <2>1, <2>2, <2>3, SMTT(20)
<1> QED
    BY <1>5, <1>6, StatRead, ZenonT(30)

(* Which samples a step of an entry changes.                                *)
LEMMA SampleWritten ==
    ASSUME NEW s, Backend(s)!BackendAssumption, PlacesInv(s),
           Backend(s)!read_metadata \/ Backend(s)!finish_entry
    PROVE  /\ Scanning /\ Scanning' /\ InRow /\ scan.index \in DOMAIN samples
           /\ DOMAIN samples' = DOMAIN samples
           /\ \A i \in DOMAIN samples : i # scan.index => samples'[i] = samples[i]
           /\ samples[scan.index] \in SamplesOf(s)
           /\ samples[scan.index].pid = scan.row.pid /\ ~Finished(scan.index)
           /\ Backend(s)!read_metadata =>
                 \A i \in DOMAIN samples : Finished(i)' <=> Finished(i)
           /\ Backend(s)!finish_entry =>
                 \A i \in DOMAIN samples : Finished(i)' <=> Finished(i) \/ i = scan.index
           /\ Backend(s)!read_metadata =>
                 \E copied \in SUBSET s.texts : samples'[scan.index] =
                     Backend(s)!WithTexts(samples[scan.index], copied)
<1>1. /\ InRow /\ Scanning /\ Scanning'
      /\ scan'.seen = scan.seen
    BY MetadataRead, EntryFinished DEF InRow, Scanning
<1>2. /\ scan.index \in DOMAIN samples /\ samples[scan.index].pid = scan.row.pid
      /\ scan.row.pid \in scan.seen
      /\ \A i, j \in DOMAIN samples : samples[i].pid = samples[j].pid => i = j
    BY <1>1 DEF PlacesInv, ScanPlaced
<1>3. \E y : samples' = [samples EXCEPT ![scan.index] = y]
    BY MetadataRead, EntryFinished
<1>4. /\ DOMAIN samples' = DOMAIN samples
      /\ \A i \in DOMAIN samples : i # scan.index => samples'[i] = samples[i]
    BY <1>3
<1>5. samples[scan.index] \in SamplesOf(s) /\ ~Finished(scan.index)
    BY <1>1, <1>2, SamplesTyped DEF PlacesInv, Finished
<1>6. ASSUME Backend(s)!read_metadata
      PROVE  /\ \A i \in DOMAIN samples : Finished(i)' <=> Finished(i)
             /\ \E copied \in SUBSET s.texts : samples'[scan.index] =
                     Backend(s)!WithTexts(samples[scan.index], copied)
  <2>1. InRow' /\ scan'.index = scan.index
    BY <1>6, MetadataRead DEF InRow
  <2>2. PICK copied \in SUBSET ((Backend(s)!Wanted \ {"cgroup"}) \ scan'.row.cached) :
           samples' = [samples EXCEPT ![scan.index] =
                         Backend(s)!WithTexts(samples[scan.index], copied)]
    BY <1>6, MetadataRead
  <2>3. copied \in SUBSET s.texts
    BY <2>2, WantedTexts
  <2>4. samples'[scan.index] = Backend(s)!WithTexts(samples[scan.index], copied)
    BY <1>2, <2>2
  <2> QED
    BY <1>1, <1>4, <2>1, <2>3, <2>4 DEF Finished
<1>7. ASSUME Backend(s)!finish_entry
      PROVE  \A i \in DOMAIN samples : Finished(i)' <=> Finished(i) \/ i = scan.index
  <2>1. ~InRow'
    BY <1>7, EntryFinished DEF InRow
  <2>2. samples'[scan.index].pid = scan.row.pid
    <3>1. PICK copied \in SUBSET Refreshed(s), got \in BOOLEAN :
            samples' = [samples EXCEPT ![scan.index] =
                          SampleMade(s, samples[scan.index], copied, got)]
      BY <1>7, EntryFinished
    <3>2. samples'[scan.index] = SampleMade(s, samples[scan.index], copied, got)
      BY <1>2, <3>1
    <3> QED
      BY <1>1, <1>2, <1>5, <3>1, <3>2, SampleMadeTyped, WantedTexts
  <2> QED
    BY <1>1, <1>2, <1>4, <2>1, <2>2 DEF Finished
<1> QED
    BY <1>1, <1>2, <1>4, <1>5, <1>6, <1>7

(* The pairs of PID and process that rows, and that samples, stand for.     *)
RowPairs(rows) == {<<r.pid, r.instance_id>> : r \in rows}
SamplePairs(vector, D) == {<<vector[i].pid, vector[i].start_ticks>> : i \in D}

(* An entry adds its row, and its sample to those that are finished.        *)
LEMMA RowsFinish ==
    ASSUME NEW s, Backend(s)!BackendAssumption, PlacesInv(s), RowsInv(s),
           Backend(s)!finish_entry
    PROVE  RowsInv(s)'
<1> DEFINE x == samples[scan.index]
           D == {j \in DOMAIN samples : Finished(j)}
<1>1. /\ Scanning /\ Scanning' /\ scan.index \in DOMAIN samples
      /\ DOMAIN samples' = DOMAIN samples
      /\ \A i \in DOMAIN samples : i # scan.index => samples'[i] = samples[i]
      /\ x \in SamplesOf(s) /\ x.pid = scan.row.pid /\ ~Finished(scan.index)
      /\ \A i \in DOMAIN samples : Finished(i)' <=> Finished(i) \/ i = scan.index
    BY SampleWritten
<1>2. /\ UNCHANGED <<scan_clock, total_at>> /\ phase' = "readdir"
      /\ scan'.mutations = scan.mutations
    BY EntryFinished
<1>3. PICK copied \in SUBSET Refreshed(s), got \in BOOLEAN :
         /\ samples' = [samples EXCEPT ![scan.index] = SampleMade(s, x, copied, got)]
         /\ processes' = processes \cup {RowMade(s, x, got)}
    BY EntryFinished
<1> DEFINE y == SampleMade(s, x, copied, got)
           r == RowMade(s, x, got)
<1>4. samples'[scan.index] = y /\ processes' = processes \cup {r}
    BY <1>1, <1>3
<1>5. /\ y.pid = x.pid /\ y.start_ticks = scan.row.instance_id
      /\ Rated(y, {scan_clock})
    BY DEF SampleMade, Rated
<1>6. /\ r.pid = scan.row.pid /\ r.instance_id = scan.row.instance_id
      /\ r.total_from = total_at /\ r.interval_from = x.sampled_at
      /\ r.cpu_from = IF scan.row.same THEN x.sampled_at ELSE 0
      /\ r.io_from = IF scan.row.same /\ scan.row.io_available /\ x.io_available
                     THEN x.io_at ELSE 0
    BY DEF RowMade
<1> HIDE DEF y, r, x
<1>7. Rated(x, {0, total_at})
    BY <1>1 DEF RowsInv, x
<1>8. /\ r.cpu_from # 0 => r.cpu_from = r.total_from
      /\ r.io_from # 0 => r.io_from = r.interval_from
    BY <1>6, <1>7 DEF Rated
<1>9. Backend(s)!RatesShareWindow'
    BY <1>4, <1>8 DEF RowsInv, Backend!RatesShareWindow
<1>10. \A i \in DOMAIN samples' :
          Rated(samples'[i], IF Finished(i)' THEN {scan_clock'} ELSE {0, total_at'})
  <2> TAKE i \in DOMAIN samples'
  <2>1. CASE i = scan.index
    BY <1>1, <1>2, <1>4, <1>5, <2>1
  <2>2. CASE i # scan.index
    BY <1>1, <1>2, <2>2 DEF RowsInv
  <2> QED
    BY <2>1, <2>2
<1>11. {j \in DOMAIN samples' : Finished(j)'} = D \cup {scan.index}
    BY <1>1
<1>12. RowPairs(processes') = RowPairs(processes) \cup {<<r.pid, r.instance_id>>}
    BY <1>4 DEF RowPairs
<1>13. SamplePairs(samples', D \cup {scan.index}) =
          SamplePairs(samples, D) \cup {<<y.pid, y.start_ticks>>}
  <2>1. /\ \A i \in D : samples'[i] = samples[i]
        /\ samples'[scan.index] = y
    BY <1>1, <1>4
  <2> HIDE DEF D
  <2> QED
    BY <2>1 DEF SamplePairs
<1>14. RowPairs(processes) = SamplePairs(samples, D)
    BY <1>1 DEF RowsInv, RowPairs, SamplePairs
<1>15. <<r.pid, r.instance_id>> = <<y.pid, y.start_ticks>>
    BY <1>1, <1>5, <1>6
<1>16. RowPairs(processes') = SamplePairs(samples', {j \in DOMAIN samples' : Finished(j)'})
    BY <1>11, <1>12, <1>13, <1>14, <1>15
<1> HIDE DEF D
<1> QED
    BY <1>1, <1>2, <1>9, <1>10, <1>16 DEF RowsInv, RowPairs, SamplePairs

(* A scan ends: its rows and the samples kept agree.                        *)
LEMMA RowsEnd ==
    ASSUME NEW s, Backend(s)!BackendAssumption, PlacesInv(s), RowsInv(s),
           Backend(s)!rollback \/ Backend(s)!commit
    PROVE  RowsInv(s)'
<1>1. phase = "readdir" /\ phase' = "idle" /\ scan' = Backend(s)!NoScan
    BY DEF Backend!rollback, Backend!commit
<1>2. Scanning /\ ~Scanning' /\ ~InRow
    BY <1>1 DEF Scanning, InRow
<1>3. DOMAIN scan'.mutations = {}
  <2>1. scan'.mutations = <<>>
    BY <1>1 DEF Backend!NoScan
  <2> QED
    BY <2>1
<1>4. CASE Backend(s)!rollback
  <2>1. /\ samples' = Backend(s)!Restored /\ processes' = {} /\ scan_outcome' = "failed"
        /\ total_at' = total_at
    BY <1>4 DEF Backend!rollback
  <2>2. ASSUME NEW i \in 1 .. scan.searchable
        PROVE  Rated(Original(i), {0, total_at})
    <3>1. i \in DOMAIN samples
      BY <1>1, Restoring
    <3>2. i \notin DOMAIN scan.mutations => ~Finished(i)
      BY <1>2 DEF PlacesInv, ScanPlaced, Finished
    <3> QED
      BY <3>1, <3>2 DEF RowsInv, Original
  <2>3. \A i \in DOMAIN samples' : Rated(samples'[i], {0, total_at'})
    BY <1>1, <2>1, <2>2, Restoring
  <2> QED
    BY <1>2, <1>3, <2>1, <2>3 DEF RowsInv, Backend!RatesShareWindow
<1>5. CASE Backend(s)!commit
  <2>1. /\ samples' = Backend(s)!Compacted /\ processes' = processes
        /\ total_at' = scan_clock
    BY <1>5 DEF Backend!commit
  <2> DEFINE K == Backend(s)!Kept
  <2>2. K = {j \in DOMAIN samples : Finished(j)}
    BY <1>2 DEF Backend!Kept, PlacesInv, GenerationsTell
  <2>3. \A i \in K : Rated(samples[i], {scan_clock})
    BY <1>2, <2>2 DEF RowsInv
  <2>4. /\ \A n \in DOMAIN samples' : \E i \in K : samples'[n] = samples[i]
        /\ \A i \in K : \E n \in DOMAIN samples' : samples'[n] = samples[i]
    BY <1>1, <2>1, Compaction
  <2>5. RowPairs(processes) = SamplePairs(samples, K)
    BY <1>2, <2>2 DEF RowsInv, RowPairs, SamplePairs
  <2> HIDE DEF K
  <2>6. \A n \in DOMAIN samples' : Rated(samples'[n], {0, total_at'})
    BY <2>1, <2>3, <2>4 DEF Rated
  <2>7. SamplePairs(samples', DOMAIN samples') = SamplePairs(samples, K)
    BY <2>4 DEF SamplePairs
  <2>8. RowPairs(processes') = SamplePairs(samples', DOMAIN samples')
    BY <2>1, <2>5, <2>7
  <2> QED
    BY <1>2, <1>3, <2>1, <2>6, <2>8
       DEF RowsInv, RowPairs, SamplePairs, Backend!RatesShareWindow
<1> QED
    BY <1>4, <1>5

(* Rows and samples agree after every step, and count from one scan.        *)
LEMMA RowsStep ==
    ASSUME NEW s, Backend(s)!BackendAssumption, PlacesInv(s), RowsInv(s),
           Backend(s)!Next \/ UNCHANGED processVars
    PROVE  RowsInv(s)'
<1>1. ASSUME \/ \E pid \in s.pids : Backend(s)!Exit(pid) \/ Backend(s)!Spawn(pid)
             \/ Backend(s)!enrich
             \/ UNCHANGED processVars
      PROVE  RowsInv(s)'
  <2>1. /\ UNCHANGED <<scan_clock, samples, total_at, processes, scan_outcome>>
        /\ scan'.seen = scan.seen
        /\ scan'.mutations = scan.mutations /\ scan'.index = scan.index
        /\ phase' = phase \/ (phase = "enrich" /\ phase' = "finish")
    <3>1. CASE \E pid \in s.pids : Backend(s)!Exit(pid) \/ Backend(s)!Spawn(pid)
      BY <3>1, KernelMoved
    <3>2. CASE Backend(s)!enrich
      BY <3>2, EnrichRead
    <3>3. CASE UNCHANGED processVars
      BY <3>3 DEF processVars
    <3> QED
      BY <1>1, <3>1, <3>2, <3>3
  <2>2. /\ Scanning' <=> Scanning
        /\ InRow' <=> InRow
        /\ phase' = "idle" <=> phase = "idle"
    BY <2>1 DEF Scanning, InRow
  <2>3. \A i \in DOMAIN samples : Finished(i)' <=> Finished(i)
    BY <2>1, <2>2 DEF Finished
  <2>4. {j \in DOMAIN samples' : Finished(j)'} = {j \in DOMAIN samples : Finished(j)}
    BY <2>1, <2>3
  <2> QED
    BY <2>1, <2>2, <2>3, <2>4 DEF RowsInv, Backend!RatesShareWindow
<1>2. ASSUME NEW pid \in s.pids, Backend(s)!read_stat(pid)
      PROVE  RowsInv(s)'
  <2>1. /\ Scanning /\ Scanning' /\ DOMAIN samples \subseteq DOMAIN samples'
        /\ \A i \in DOMAIN samples :
              samples'[i] = samples[i] /\ (Finished(i)' <=> Finished(i))
        /\ \A i \in DOMAIN samples' \ DOMAIN samples :
              ~Finished(i)' /\ samples'[i] = Backend(s)!EmptySample(pid)
        /\ \A i \in DOMAIN scan'.mutations :
              \/ i \in DOMAIN scan.mutations /\ scan'.mutations[i] = scan.mutations[i]
              \/ /\ i = scan'.index /\ i \in DOMAIN samples /\ ~Finished(i)
                 /\ scan'.mutations[i] = samples[i]
    BY <1>2, FinishedKept
  <2>2. /\ UNCHANGED <<scan_clock, total_at, processes>> /\ phase' = "metadata"
    BY <1>2, StatRead
  <2>3. \A i \in DOMAIN samples' :
           Rated(samples'[i], IF Finished(i)' THEN {scan_clock'} ELSE {0, total_at'})
    <3> TAKE i \in DOMAIN samples'
    <3>1. CASE i \in DOMAIN samples
      BY <2>1, <2>2, <3>1 DEF RowsInv
    <3>2. CASE i \notin DOMAIN samples
      BY <2>1, <2>2, <3>2, EmptyRated
    <3> QED
      BY <3>1, <3>2
  <2>4. \A i \in DOMAIN scan'.mutations : Rated(scan'.mutations[i], {0, total_at'})
    BY <2>1, <2>2 DEF RowsInv
  <2>5. {j \in DOMAIN samples' : Finished(j)'} = {j \in DOMAIN samples : Finished(j)}
    BY <2>1
  <2>6. SamplePairs(samples', {j \in DOMAIN samples' : Finished(j)'}) =
           SamplePairs(samples, {j \in DOMAIN samples : Finished(j)})
    BY <2>1, <2>5 DEF SamplePairs
  <2>7. RowPairs(processes') = SamplePairs(samples', {j \in DOMAIN samples' : Finished(j)'})
    BY <2>1, <2>2, <2>6 DEF RowsInv, SamplePairs, RowPairs
  <2> QED
    BY <2>1, <2>2, <2>3, <2>4, <2>7
       DEF RowsInv, RowPairs, SamplePairs, Backend!RatesShareWindow
<1>3. CASE Backend(s)!read_metadata
  <2>1. /\ Scanning /\ Scanning' /\ InRow /\ scan.index \in DOMAIN samples
        /\ DOMAIN samples' = DOMAIN samples
        /\ \A i \in DOMAIN samples : i # scan.index => samples'[i] = samples[i]
        /\ samples[scan.index] \in SamplesOf(s)
        /\ \A i \in DOMAIN samples : Finished(i)' <=> Finished(i)
    BY <1>3, SampleWritten
  <2>2. PICK copied \in SUBSET s.texts : samples'[scan.index] =
                     Backend(s)!WithTexts(samples[scan.index], copied)
    BY <1>3, SampleWritten
  <2>3. /\ samples'[scan.index].pid = samples[scan.index].pid
        /\ samples'[scan.index].start_ticks = samples[scan.index].start_ticks
        /\ samples'[scan.index].sampled_at = samples[scan.index].sampled_at
        /\ samples'[scan.index].io_at = samples[scan.index].io_at
        /\ samples'[scan.index].io_available = samples[scan.index].io_available
    <3> DEFINE x == samples[scan.index]
               y == samples'[scan.index]
    <3>1. y = [pid |-> x.pid, start_ticks |-> x.start_ticks,
               sampled_at |-> x.sampled_at, io_at |-> x.io_at,
               io_available |-> x.io_available, text |-> y.text, gpu |-> x.gpu,
               generation |-> x.generation]
      BY <2>1, <2>2, TextsCopied
    <3> HIDE DEF x, y
    <3>2. /\ y.pid = x.pid /\ y.start_ticks = x.start_ticks
          /\ y.sampled_at = x.sampled_at /\ y.io_at = x.io_at
          /\ y.io_available = x.io_available
      BY <3>1
    <3> QED
      BY <3>2 DEF x, y
  <2>4. /\ UNCHANGED <<scan_clock, total_at, processes>> /\ phase' = "enrich"
        /\ scan'.mutations = scan.mutations
    BY <1>3, MetadataRead
  <2>5. \A i \in DOMAIN samples' :
           /\ samples'[i].pid = samples[i].pid
           /\ samples'[i].start_ticks = samples[i].start_ticks
           /\ Rated(samples'[i], IF Finished(i)' THEN {scan_clock'} ELSE {0, total_at'})
    <3> TAKE i \in DOMAIN samples'
    <3>1. CASE i = scan.index
      BY <2>1, <2>3, <2>4, <3>1 DEF RowsInv, Rated
    <3>2. CASE i # scan.index
      BY <2>1, <2>4, <3>2 DEF RowsInv
    <3> QED
      BY <3>1, <3>2
  <2>6. {j \in DOMAIN samples' : Finished(j)'} = {j \in DOMAIN samples : Finished(j)}
    BY <2>1
  <2>7. SamplePairs(samples', {j \in DOMAIN samples' : Finished(j)'}) =
           SamplePairs(samples, {j \in DOMAIN samples : Finished(j)})
    BY <2>1, <2>5, <2>6 DEF SamplePairs
  <2>8. RowPairs(processes') = SamplePairs(samples', {j \in DOMAIN samples' : Finished(j)'})
    BY <2>1, <2>4, <2>7 DEF RowsInv, SamplePairs, RowPairs
  <2> QED
    BY <2>1, <2>4, <2>5, <2>8
       DEF RowsInv, RowPairs, SamplePairs, Backend!RatesShareWindow
<1>4. ASSUME NEW flags \in s.flags, Backend(s)!scan_begin(flags)
      PROVE  RowsInv(s)'
  <2>1. /\ UNCHANGED <<samples, total_at>> /\ phase = "idle" /\ phase' = "readdir"
        /\ scan_outcome' = "none" /\ processes' = {} /\ scan'.seen = {}
        /\ DOMAIN scan'.mutations = {}
    BY <1>4, ScanBegun
  <2>2. ~Scanning /\ Scanning'
    BY <2>1 DEF Scanning
  <2>3. \A i \in DOMAIN samples : ~Finished(i)'
    BY <2>1 DEF Finished
  <2> QED
    BY <2>1, <2>2, <2>3 DEF RowsInv, Backend!RatesShareWindow
<1>5. CASE Backend(s)!scan_refused
  <2>1. /\ UNCHANGED <<samples, total_at, phase, scan>> /\ phase = "idle"
        /\ scan_outcome' = "refused" /\ processes' = {}
    BY <1>5 DEF Backend!scan_refused
  <2>2. ~Scanning /\ ~Scanning'
    BY <2>1 DEF Scanning
  <2> QED
    BY <2>1, <2>2 DEF RowsInv, Backend!RatesShareWindow
<1>6. CASE Backend(s)!lsm_process_backend_destroy
  <2>1. /\ samples' = <<>> /\ phase' = "destroyed" /\ processes' = {}
        /\ UNCHANGED <<total_at, scan>>
    BY <1>6 DEF Backend!lsm_process_backend_destroy
  <2>2. ~Scanning' /\ DOMAIN samples' = {}
    BY <2>1 DEF Scanning
  <2> QED
    BY <2>1, <2>2 DEF RowsInv, Backend!RatesShareWindow
<1> QED
    BY <1>1, <1>2, <1>3, <1>4, <1>5, <1>6, RowsFinish, RowsEnd DEF Backend!Next

(* The strings allocated are those that samples or logged copies hold.      *)
LEMMA HeapHeld ==
    ASSUME NEW s, StringsInv(s), NEW p
    PROVE  p \in DOMAIN heap <=> p # <<>> /\ HeldBy(s, p)
    BY DEF StringsInv, Backend!Pointers, Backend!NULL, HeldBy

(* While a scan runs, what it has allocated is named after it.              *)
LEMMA ScanNames ==
    ASSUME NEW s, Backend(s)!BackendAssumption, PlacesInv(s), StringsInv(s), Scanning
    PROVE  /\ \A i \in DOMAIN samples : Named(s, samples[i], scan_clock)
           /\ \A i \in DOMAIN scan.mutations :
                 Named(s, scan.mutations[i], scan_clock - 1)
<1>1. /\ scan_clock \in Nat /\ scan_clock >= 1 /\ scan.searchable \in Nat
      /\ DOMAIN samples = 1 .. Len(samples) /\ Len(samples) \in Nat
      /\ DOMAIN scan.mutations \subseteq 1 .. scan.searchable
      /\ \A i \in DOMAIN scan.mutations : scan.mutations[i].pid = samples[i].pid
    BY SamplesTyped, BackendConstants DEF PlacesInv, BackendTypes, ScanPlaced
<1>2. \A i \in DOMAIN scan.mutations : Named(s, scan.mutations[i], scan_clock - 1)
    BY <1>1 DEF StringsInv, Original
<1>3. ASSUME NEW i \in DOMAIN samples, NEW t \in s.texts, samples[i].text[t].ptr # <<>>
      PROVE  \E k \in 1 .. scan_clock : samples[i].text[t].ptr = <<k, samples[i].pid, t>>
  <2>1. CASE samples[i].text[t].ptr = <<scan_clock, samples[i].pid, t>>
    BY <1>1, <2>1
  <2>2. CASE samples[i].text[t].ptr = Before(s, i, t)
    <3>1. i \in 1 .. scan.searchable /\ samples[i].text[t].ptr = Original(i).text[t].ptr
      BY <1>1, <1>3, <2>2 DEF Before
    <3>2. Original(i).pid = samples[i].pid
      BY <1>1 DEF Original
    <3>3. PICK k \in 1 .. scan_clock - 1 :
             Original(i).text[t].ptr = <<k, Original(i).pid, t>>
      BY <1>3, <3>1 DEF StringsInv, Named
    <3> QED
      BY <1>1, <3>1, <3>2, <3>3
  <2> QED
    BY <2>1, <2>2 DEF StringsInv
<1> QED
    BY <1>2, <1>3 DEF Named

(* Two samples share no string: it is named after one of them.              *)
Sharing(s, x, t, c, y, u, d) ==
    /\ t \in s.texts /\ u \in s.texts /\ Named(s, x, c) /\ Named(s, y, d)
    /\ x.text[t].ptr = y.text[u].ptr /\ x.text[t].ptr # <<>>

(* Two samples whose names differ share no string.                          *)
LEMMA NamesDiffer ==
    ASSUME NEW s, NEW x, NEW t, NEW c, NEW y, NEW u, NEW d,
           Sharing(s, x, t, c, y, u, d)
    PROVE  x.pid = y.pid /\ t = u
<1>1. PICK k \in 1 .. c : x.text[t].ptr = <<k, x.pid, t>>
    BY DEF Named, Sharing
<1>2. PICK m \in 1 .. d : y.text[u].ptr = <<m, y.pid, u>>
    BY DEF Named, Sharing
<1>3. <<k, x.pid, t>> = <<m, y.pid, u>>
    BY <1>1, <1>2 DEF Sharing
<1> QED
    BY <1>3

(* A string of this scan is not one of an earlier scan.                     *)
LEMMA NamesOld ==
    ASSUME NEW s, NEW c \in Nat, NEW x, Named(s, x, c - 1), NEW t \in s.texts, NEW p, NEW u
    PROVE  x.text[t].ptr # <<c, p, u>>
<1>1. SUFFICES ASSUME x.text[t].ptr = <<c, p, u>>
               PROVE  FALSE
    OBVIOUS
<1>0. <<c, p, u>> # <<>>
    OBVIOUS
<1>2. PICK k \in 1 .. c - 1 : x.text[t].ptr = <<k, x.pid, t>>
    BY <1>0, <1>1 DEF Named
<1> QED
    BY <1>1, <1>2

(* Texts of the entry are copied: each to a string that was not there, and  *)
(* nothing that was there changes.                                          *)
Copying(s, copied, content) ==
    /\ copied \subseteq s.texts /\ heap' = Backend(s)!Allocated(copied, content)
    /\ \A t \in copied : phase = "metadata" \/ t = "cgroup"

Allotted(copied, content) ==
    /\ DOMAIN heap' = DOMAIN heap \cup {<<scan_clock, scan.row.pid, t>> : t \in copied}
    /\ \A p \in DOMAIN heap : heap'[p] = heap[p]
    /\ \A t \in copied : /\ <<scan_clock, scan.row.pid, t>> \notin DOMAIN heap
                         /\ heap'[<<scan_clock, scan.row.pid, t>>] = content[t]

(* The strings copied for an entry are new to the heap.                     *)
LEMMA TextsWritten ==
    ASSUME NEW s, Backend(s)!BackendAssumption, PlacesInv(s), StringsInv(s), InRow,
           NEW copied, NEW content, Copying(s, copied, content)
    PROVE  Allotted(copied, content)
<1> DEFINE new(t) == <<scan_clock, scan.row.pid, t>>
           D == DOMAIN heap \cup {new(t) : t \in copied}
<1>1. Scanning /\ scan_clock \in Nat
    BY BackendConstants DEF Scanning, InRow, PlacesInv, BackendTypes
<1>2. heap' = [p \in D |-> IF p \in DOMAIN heap THEN heap[p] ELSE content[p[3]]]
    BY DEF Copying, Backend!Allocated, Backend!NewPointer
<1>3. ASSUME NEW t \in copied
      PROVE  new(t) \notin DOMAIN heap
  <2>1. ASSUME NEW i \in DOMAIN samples, NEW u \in s.texts
        PROVE  new(t) # samples[i].text[u].ptr
    <3>1. SUFFICES ASSUME new(t) = samples[i].text[u].ptr
                   PROVE  FALSE
      OBVIOUS
    <3>2. new(t) # <<>>
      OBVIOUS
    <3>3. PICK k \in 1 .. scan_clock : samples[i].text[u].ptr = <<k, samples[i].pid, u>>
      BY <1>1, <3>1, <3>2, ScanNames DEF Named
    <3>4. samples[i].pid = scan.row.pid /\ u = t
      BY <3>1, <3>3
    <3>5. i = scan.index
      BY <3>4 DEF PlacesInv, ScanPlaced
    <3> QED
      BY <1>3, <3>1, <3>4, <3>5 DEF StringsInv, Copying
  <2>2. ASSUME NEW i \in DOMAIN scan.mutations, NEW u \in s.texts
        PROVE  new(t) # scan.mutations[i].text[u].ptr
    BY <1>1, ScanNames, NamesOld
  <2> QED
    BY <2>1, <2>2, HeapHeld DEF HeldBy
<1>4. \A t : new(t)[3] = t
    OBVIOUS
<1>5. DOMAIN heap' = D
    BY <1>2
<1>6. \A p \in DOMAIN heap : heap'[p] = heap[p]
    BY <1>2
<1>7. \A t \in copied : heap'[new(t)] = content[t]
  <2> TAKE t \in copied
  <2>1. new(t) \in D /\ new(t) \notin DOMAIN heap /\ new(t)[3] = t
    BY <1>3, <1>4
  <2> HIDE DEF new, D
  <2> QED
    BY <1>2, <2>1
<1> QED
    BY <1>3, <1>5, <1>6, <1>7 DEF Allotted

(* The sample of the entry is replaced by one that points to the new        *)
(* strings.                                                                 *)
Written(s, copied, content, y) ==
    /\ copied \subseteq s.texts
    /\ \A t \in copied : phase = "metadata" \/ t = "cgroup"
    /\ \A t \in copied : content[t] \in 0 .. MaxInstance
    /\ Allotted(copied, content)
    /\ samples' = [samples EXCEPT ![scan.index] = y] /\ y.pid = scan.row.pid
    /\ \A t \in s.texts : y.text[t].ptr =
          IF t \in copied THEN <<scan_clock, scan.row.pid, t>>
          ELSE samples[scan.index].text[t].ptr
    /\ scan_clock' = scan_clock /\ scan'.mutations = scan.mutations
    /\ scan'.searchable = scan.searchable
    /\ InRow' => /\ phase' # "metadata" /\ scan'.index = scan.index
                 /\ scan'.row.pid = scan.row.pid /\ "cgroup" \notin copied
    /\ phase' \in {"enrich", "finish"} =>
          scan'.row.text \in [s.texts -> 0 .. MaxInstance]

(* What the sample pointed to is in the log.                                *)
LEMMA StringsWritten ==
    ASSUME NEW s, Backend(s)!BackendAssumption, PlacesInv(s), StringsInv(s), InRow,
           Scanning', NEW copied, NEW content, NEW y, Written(s, copied, content, y)
    PROVE  StringsInv(s)'
<1> USE DEF Written, Allotted
<1> DEFINE new(t) == <<scan_clock, scan.row.pid, t>>
           x == samples[scan.index]
<1>1. /\ Scanning /\ scan.searchable \in Nat /\ scan.index \in DOMAIN samples
      /\ x.pid = scan.row.pid /\ DOMAIN samples = 1 .. Len(samples)
      /\ Len(samples) \in Nat /\ scan.row.pid \in scan.seen
      /\ scan.searchable <= Len(samples)
      /\ DOMAIN scan.mutations = {i \in 1 .. scan.searchable : samples[i].pid \in scan.seen}
  <2>1. Scanning
    BY DEF Scanning, InRow
  <2> QED
    BY <2>1, SamplesTyped DEF PlacesInv, BackendTypes, ScanPlaced
<1>2. /\ DOMAIN samples' = DOMAIN samples /\ samples'[scan.index] = y
      /\ \A i \in DOMAIN samples : i # scan.index => samples'[i] = samples[i]
    BY <1>1
<1>3. scan.index <= scan.searchable => scan.index \in DOMAIN scan.mutations
    BY <1>1
<1>4. \A i \in 1 .. scan.searchable : Original(i)' = Original(i)
    BY <1>1, <1>2, <1>3 DEF Original
<1>5. \A i \in 1 .. scan.searchable : Named(s, Original(i)', scan_clock' - 1)
    BY <1>1, <1>4 DEF StringsInv
<1>6. \A i \in DOMAIN samples', t \in s.texts : Before(s, i, t)' = Before(s, i, t)
    BY <1>1, <1>2, <1>4 DEF Before
<1>7. \A i \in DOMAIN samples', t \in s.texts :
         samples'[i].text[t].ptr \in {Before(s, i, t)', <<scan_clock', samples'[i].pid, t>>}
  <2> TAKE i \in DOMAIN samples', t \in s.texts
  <2>1. samples[i].text[t].ptr \in {Before(s, i, t), <<scan_clock, samples[i].pid, t>>}
    BY <1>1, <1>2 DEF StringsInv
  <2>2. CASE i = scan.index
    <3>1. samples'[i].text[t].ptr \in
             {<<scan_clock, samples[i].pid, t>>, samples[i].text[t].ptr}
      BY <1>1, <1>2, <2>2
    <3>2. samples'[i].pid = samples[i].pid
      BY <1>1, <1>2, <2>2
    <3> QED
      BY <1>6, <2>1, <3>1, <3>2
  <2>3. CASE i # scan.index
    BY <1>2, <1>6, <2>1, <2>3
  <2> QED
    BY <2>2, <2>3
<1>8. /\ DOMAIN heap' = DOMAIN heap \cup {new(t) : t \in copied}
      /\ \A p \in DOMAIN heap : heap'[p] = heap[p]
      /\ \A t \in copied : heap'[new(t)] = content[t]
    OBVIOUS
<1>9. \A p \in DOMAIN heap' : heap'[p] \in 0 .. MaxInstance
    BY <1>8 DEF StringsInv
<1>10. \A t \in copied : x.text[t].ptr = Before(s, scan.index, t)
  <2> TAKE t \in copied
  <2>1. x.text[t].ptr # new(t)
    BY DEF StringsInv
  <2>2. x.text[t].ptr \in {Before(s, scan.index, t), new(t)}
    BY <1>1 DEF StringsInv
  <2> QED
    BY <2>1, <2>2
<1>11. ASSUME NEW t \in copied, x.text[t].ptr # <<>>
       PROVE  /\ scan.index \in DOMAIN scan.mutations
              /\ x.text[t].ptr = scan.mutations[scan.index].text[t].ptr
    BY <1>1, <1>3, <1>10, <1>11 DEF Before, Original
<1>12. \A p : p \in DOMAIN heap' <=> p # <<>> /\ HeldBy(s, p)'
  <2> TAKE p
  <2>1. ASSUME p \in DOMAIN heap
        PROVE  p # <<>> /\ HeldBy(s, p)'
    <3>1. p # <<>> /\ HeldBy(s, p)
      BY <2>1, HeapHeld
    <3>2. ASSUME NEW i \in DOMAIN samples, NEW t \in s.texts, p = samples[i].text[t].ptr
          PROVE  HeldBy(s, p)'
      <4>1. CASE i # scan.index \/ t \notin copied
        <5>1. samples'[i].text[t].ptr = p
          BY <1>2, <3>2, <4>1
        <5> QED
          BY <1>2, <5>1 DEF HeldBy
      <4>2. CASE i = scan.index /\ t \in copied
        BY <1>11, <3>1, <3>2, <4>2 DEF HeldBy
      <4> QED
        BY <4>1, <4>2
    <3> QED
      BY <3>1, <3>2 DEF HeldBy
  <2>2. ASSUME NEW t \in copied, p = new(t)
        PROVE  p # <<>> /\ HeldBy(s, p)'
    <3>1. samples'[scan.index].text[t].ptr = p /\ t \in s.texts
      BY <1>2, <2>2
    <3> QED
      BY <1>1, <1>2, <2>2, <3>1 DEF HeldBy
  <2>3. ASSUME p # <<>>, HeldBy(s, p)'
        PROVE  p \in DOMAIN heap'
    <3>1. ASSUME NEW i \in DOMAIN samples, NEW t \in s.texts, p = samples'[i].text[t].ptr
          PROVE  p \in DOMAIN heap'
      <4>1. CASE i = scan.index /\ t \in copied
        <5>1. p = new(t)
          BY <1>2, <3>1, <4>1
        <5> QED
          BY <1>8, <4>1, <5>1
      <4>2. CASE i # scan.index \/ t \notin copied
        <5>1. samples[i].text[t].ptr = p
          BY <1>2, <3>1, <4>2
        <5> QED
          BY <1>8, <2>3, <5>1, HeapHeld DEF HeldBy
      <4> QED
        BY <4>1, <4>2
    <3>2. ASSUME NEW i \in DOMAIN scan.mutations, NEW t \in s.texts,
                 p = scan.mutations[i].text[t].ptr
          PROVE  p \in DOMAIN heap'
      BY <1>8, <2>3, <3>2, HeapHeld DEF HeldBy
    <3> QED
      BY <1>2, <2>3, <3>1, <3>2 DEF HeldBy
  <2> QED
    BY <1>8, <2>1, <2>2, <2>3
<1>13. DOMAIN heap' = Backend(s)!Pointers(samples') \cup Backend(s)!Pointers(scan'.mutations)
  <2> DEFINE R == Backend(s)!Pointers(samples') \cup Backend(s)!Pointers(scan'.mutations)
  <2>1. \A p : p \in R <=> p # <<>> /\ HeldBy(s, p)'
    BY DEF HeldBy, Backend!Pointers, Backend!NULL
  <2> HIDE DEF R
  <2>2. DOMAIN heap' = R
    BY <1>12, <2>1
  <2> QED
    BY <2>2 DEF R
<1>14. ASSUME InRow', NEW t \in s.texts, phase' = "metadata" \/ t = "cgroup"
       PROVE  samples'[scan'.index].text[t].ptr # <<scan_clock', scan'.row.pid, t>>
  <2>1. /\ t = "cgroup" /\ t \notin copied /\ scan'.index = scan.index
        /\ scan'.row.pid = scan.row.pid /\ scan_clock' = scan_clock
    BY <1>14
  <2>2. samples'[scan.index].text[t].ptr = x.text[t].ptr
    BY <1>2, <2>1
  <2>3. x.text[t].ptr # <<scan_clock, scan.row.pid, t>>
    BY <2>1 DEF StringsInv
  <2> QED
    BY <2>1, <2>2, <2>3
<1> QED
    BY <1>5, <1>7, <1>9, <1>13, <1>14 DEF StringsInv

(* What reading a text gives is a process, or none.                         *)
LEMMA ReadTyped ==
    ASSUME NEW s, Backend(s)!BackendAssumption, PlacesInv(s), InRow, NEW t
    PROVE  Backend(s)!ReadText(t) \in 0 .. MaxInstance
<1>1. /\ MaxInstance \in Nat /\ instances \in 0 .. MaxInstance
      /\ alive \in [s.pids -> 0 .. instances]
      /\ scan.row.pid \in s.pids /\ scan.row.instance_id \in 1 .. instances
    BY BackendConstants DEF PlacesInv, BackendTypes, ScanPlaced
<1> QED
    BY <1>1 DEF Backend!ReadText

(* The texts of a row are those of processes, or nothing.                   *)
LEMMA RowTextRead ==
    ASSUME NEW s, Backend(s)!BackendAssumption, PlacesInv(s), StringsInv(s),
           Backend(s)!read_metadata
    PROVE  scan'.row.text \in [s.texts -> 0 .. MaxInstance]
<1> DEFINE own == Backend(s)!Wanted \ {"cgroup"}
           text == scan'.row.text
           C == scan'.row.cached
<1>1. /\ phase = "metadata" /\ C = {t \in Backend(s)!Wanted : Backend(s)!Cached(t)}
      /\ DOMAIN text = s.texts /\ ScanShaped(scan') /\ RowShaped(scan'.row)
      /\ \A t \in s.texts : text[t] =
            IF t \in C THEN heap[samples[scan.index].text[t].ptr]
            ELSE IF t \in own THEN Backend(s)!ReadText(t) ELSE 0
    BY MetadataRead
<1>2. InRow /\ MaxInstance \in Nat
    BY <1>1, BackendConstants DEF InRow
<1>3. scan.index \in DOMAIN samples
    BY <1>2 DEF PlacesInv, ScanPlaced
<1>4. ASSUME NEW t \in s.texts, t \in C
      PROVE  heap[samples[scan.index].text[t].ptr] \in 0 .. MaxInstance
  <2>1. samples[scan.index].text[t].ptr # <<>>
    BY <1>1, <1>4 DEF Backend!Cached, Backend!Sample, Backend!NULL
  <2>2. samples[scan.index].text[t].ptr \in DOMAIN heap
    BY <1>3, <2>1, HeapHeld DEF HeldBy
  <2> QED
    BY <2>2 DEF StringsInv
<1>5. \A t \in s.texts : text[t] \in 0 .. MaxInstance
    BY <1>1, <1>2, <1>4, ReadTyped
<1>6. text = [t \in s.texts |-> text[t]]
    BY MetadataRead
<1> QED
    BY <1>5, <1>6

(* Overwriting one value of a function keeps its type.                      *)
LEMMA Overwritten ==
    ASSUME NEW T, NEW S, NEW f \in [T -> S], NEW a, NEW v \in S
    PROVE  [f EXCEPT ![a] = v] \in [T -> S]
    OBVIOUS

(* What a sample points to when some of its texts were copied just now.     *)
LEMMA PointersCopied ==
    ASSUME NEW s, Backend(s)!BackendAssumption, PlacesInv(s), InRow,
           NEW x \in SamplesOf(s), NEW copied \in SUBSET s.texts, NEW t \in s.texts
    PROVE  Backend(s)!WithTexts(x, copied).text[t].ptr =
              IF t \in copied THEN <<scan_clock, scan.row.pid, t>> ELSE x.text[t].ptr
<1> DEFINE v == Backend(s)!WithTexts(x, copied).text[t]
<1>1. v = IF t \in copied
          THEN [ptr |-> <<scan_clock, scan.row.pid, t>>, sampled_at |-> scan_clock]
          ELSE x.text[t]
    BY TextsCopied
<1> HIDE DEF v
<1>2. v.ptr = IF t \in copied THEN <<scan_clock, scan.row.pid, t>> ELSE x.text[t].ptr
    BY <1>1
<1> QED
    BY <1>2 DEF v

(* The texts a row ends with.                                               *)
LEMMA CheckedTyped ==
    ASSUME NEW s, Backend(s)!BackendAssumption, StringsInv(s), phase = "finish"
    PROVE  Backend(s)!CheckedText \in [s.texts -> 0 .. MaxInstance]
<1>1. scan.row.text \in [s.texts -> 0 .. MaxInstance] /\ MaxInstance \in Nat
    BY BackendConstants DEF StringsInv
<1>2. [scan.row.text EXCEPT !["cgroup"] = 0] \in [s.texts -> 0 .. MaxInstance]
  <2>1. 0 \in 0 .. MaxInstance
    BY <1>1
  <2> QED
    BY <1>1, <2>1, Overwritten
<1> QED
    BY <1>1, <1>2 DEF Backend!CheckedText

(* The steps of an entry leak no string and lose none.                      *)
LEMMA StringsRow ==
    ASSUME NEW s, Backend(s)!BackendAssumption, PlacesInv(s), StringsInv(s),
           Backend(s)!read_metadata \/ Backend(s)!enrich \/ Backend(s)!finish_entry
    PROVE  StringsInv(s)'
<1>1. CASE Backend(s)!read_metadata
  <2>1. /\ InRow /\ Scanning' /\ samples[scan.index] \in SamplesOf(s)
        /\ samples[scan.index].pid = scan.row.pid
    BY <1>1, SampleWritten
  <2>2. /\ phase = "metadata" /\ phase' = "enrich" /\ scan_clock' = scan_clock
        /\ scan'.searchable = scan.searchable /\ scan'.mutations = scan.mutations
        /\ scan'.index = scan.index /\ scan'.row.pid = scan.row.pid
    BY <1>1, MetadataRead
  <2> DEFINE content == scan'.row.text
  <2>3. content \in [s.texts -> 0 .. MaxInstance]
    BY <1>1, RowTextRead
  <2>4. PICK copied \in SUBSET ((Backend(s)!Wanted \ {"cgroup"}) \ scan'.row.cached) :
           /\ samples' = [samples EXCEPT ![scan.index] =
                             Backend(s)!WithTexts(samples[scan.index], copied)]
           /\ heap' = Backend(s)!Allocated(copied, content)
    BY <1>1, MetadataRead
  <2>5. copied \in SUBSET s.texts /\ "cgroup" \notin copied
    BY <2>4, WantedTexts
  <2> HIDE DEF content
  <2>6. \A t \in copied : phase = "metadata" \/ t = "cgroup"
    BY <2>2, <2>5
  <2>7. Allotted(copied, content)
    <3>1. Copying(s, copied, content)
      BY <2>4, <2>5, <2>6 DEF Copying
    <3> QED
      BY <2>1, <3>1, TextsWritten
  <2> DEFINE y == Backend(s)!WithTexts(samples[scan.index], copied)
  <2>8. y.pid = scan.row.pid
    BY <2>1, <2>5, TextsCopied
  <2>9. samples' = [samples EXCEPT ![scan.index] = y]
    BY <2>4
  <2>10. \A t \in copied : content[t] \in 0 .. MaxInstance
    BY <2>3, <2>5
  <2>11. \A t \in s.texts : y.text[t].ptr =
              IF t \in copied THEN <<scan_clock, scan.row.pid, t>>
              ELSE samples[scan.index].text[t].ptr
    BY <2>1, <2>5, PointersCopied
  <2> HIDE DEF y
  <2>12. /\ \A t \in copied : phase = "metadata" \/ t = "cgroup"
         /\ InRow' => /\ phase' # "metadata" /\ scan'.index = scan.index
                       /\ scan'.row.pid = scan.row.pid /\ "cgroup" \notin copied
         /\ phase' \in {"enrich", "finish"} =>
              scan'.row.text \in [s.texts -> 0 .. MaxInstance]
    BY <2>2, <2>3, <2>5 DEF content
  <2>13. Written(s, copied, content, y)
    BY <2>2, <2>5, <2>7, <2>8, <2>9, <2>10, <2>11, <2>12 DEF Written
  <2> QED
    BY <2>1, <2>13, StringsWritten
<1>2. CASE Backend(s)!enrich
  <2>1. /\ UNCHANGED <<scan_clock, samples, heap>>
        /\ phase = "enrich" /\ phase' = "finish" 
        /\ scan'.searchable = scan.searchable /\ scan'.mutations = scan.mutations
        /\ scan'.index = scan.index /\ scan'.row.pid = scan.row.pid
        /\ scan'.row.text =
              IF scan.row.enrich
              THEN [scan.row.text EXCEPT !["cgroup"] = Backend(s)!ReadText("cgroup")]
              ELSE scan.row.text
    BY <1>2, EnrichRead
  <2>2. InRow /\ InRow' /\ Scanning /\ Scanning'
    BY <2>1 DEF InRow, Scanning
  <2>3. Backend(s)!ReadText("cgroup") \in 0 .. MaxInstance
    BY <2>2, ReadTyped
  <2>4. scan'.row.text \in [s.texts -> 0 .. MaxInstance]
    BY <2>1, <2>3 DEF StringsInv
  <2>5. \A i \in DOMAIN samples : Original(i)' = Original(i)
    BY <2>1 DEF Original
  <2> QED
    BY <2>1, <2>2, <2>4, <2>5 DEF StringsInv, Original, Before
<1>3. CASE Backend(s)!finish_entry
  <2>1. /\ InRow /\ Scanning' /\ samples[scan.index] \in SamplesOf(s)
        /\ samples[scan.index].pid = scan.row.pid
    BY <1>3, SampleWritten
  <2>2. /\ phase = "finish" /\ phase' = "readdir" /\ scan_clock' = scan_clock
        /\ scan'.searchable = scan.searchable /\ scan'.mutations = scan.mutations
    BY <1>3, EntryFinished
  <2> DEFINE content == Backend(s)!CheckedText
  <2>3. content \in [s.texts -> 0 .. MaxInstance]
    BY <2>2, CheckedTyped
  <2>4. PICK copied \in SUBSET Refreshed(s), got \in BOOLEAN :
           /\ heap' = Backend(s)!Allocated(copied, content)
           /\ samples' = [samples EXCEPT ![scan.index] =
                             SampleMade(s, samples[scan.index], copied, got)]
    BY <1>3, EntryFinished
  <2>5. copied \in SUBSET s.texts /\ \A t \in copied : t = "cgroup"
    BY <2>4, WantedTexts DEF Refreshed
  <2> HIDE DEF content
  <2>6. \A t \in copied : phase = "metadata" \/ t = "cgroup"
    BY <2>2, <2>5
  <2>7. Allotted(copied, content)
    <3>1. Copying(s, copied, content)
      BY <2>4, <2>5, <2>6 DEF Copying
    <3> QED
      BY <2>1, <3>1, TextsWritten
  <2> DEFINE y == SampleMade(s, samples[scan.index], copied, got)
  <2>8. /\ y.pid = scan.row.pid
        /\ y.text = Backend(s)!WithTexts(samples[scan.index], copied).text
    BY <2>1 DEF SampleMade
  <2>9. samples' = [samples EXCEPT ![scan.index] = y]
    BY <2>4
  <2>10. \A t \in copied : content[t] \in 0 .. MaxInstance
    BY <2>3, <2>5
  <2> HIDE DEF y
  <2>11. \A t \in s.texts : y.text[t].ptr =
              IF t \in copied THEN <<scan_clock, scan.row.pid, t>>
              ELSE samples[scan.index].text[t].ptr
    BY <2>1, <2>5, <2>8, PointersCopied
  <2>12. /\ \A t \in copied : phase = "metadata" \/ t = "cgroup"
         /\ InRow' => /\ phase' # "metadata" /\ scan'.index = scan.index
                       /\ scan'.row.pid = scan.row.pid /\ "cgroup" \notin copied
         /\ phase' \in {"enrich", "finish"} =>
              scan'.row.text \in [s.texts -> 0 .. MaxInstance]
    BY <2>2, <2>5 DEF InRow
  <2>13. Written(s, copied, content, y)
    BY <2>2, <2>5, <2>7, <2>8, <2>9, <2>10, <2>11, <2>12 DEF Written
  <2> QED
    BY <2>1, <2>13, StringsWritten
<1> QED
    BY <1>1, <1>2, <1>3

(* No string is allocated at the start.                                     *)
LEMMA StringsStart ==
    ASSUME NEW s, Backend(s)!Init
    PROVE  StringsInv(s)
<1>1. /\ samples = <<>> /\ phase = "idle" /\ scan = Backend(s)!NoScan /\ heap = <<>>
    BY DEF Backend!Init
<1>2. scan.mutations = <<>>
    BY <1>1 DEF Backend!NoScan
<1>3. DOMAIN samples = {} /\ DOMAIN scan.mutations = {} /\ DOMAIN heap = {}
      /\ ~Scanning /\ ~InRow
    BY <1>1, <1>2 DEF Scanning, InRow
<1>4. DOMAIN heap = Backend(s)!Pointers(samples) \cup Backend(s)!Pointers(scan.mutations)
    BY <1>3 DEF Backend!Pointers
<1> QED
    BY <1>1, <1>3, <1>4 DEF StringsInv

(* A new sample has no strings; one that is found is copied into the log.   *)
LEMMA StringsRead ==
    ASSUME NEW s, Backend(s)!BackendAssumption, PlacesInv(s), StringsInv(s),
           NEW pid \in s.pids, Backend(s)!read_stat(pid)
    PROVE  StringsInv(s)'
<1> DEFINE E == Backend(s)!EmptySample(pid)
<1>1. /\ Scanning /\ Scanning' /\ ~InRow /\ InRow'
      /\ DOMAIN samples \subseteq DOMAIN samples'
      /\ \A i \in DOMAIN samples : samples'[i] = samples[i]
      /\ \A i \in DOMAIN samples' \ DOMAIN samples : samples'[i] = E
      /\ \A i \in DOMAIN scan'.mutations :
            \/ i \in DOMAIN scan.mutations /\ scan'.mutations[i] = scan.mutations[i]
            \/ /\ i = scan'.index /\ i \in DOMAIN samples
               /\ scan'.mutations[i] = samples[i]
    BY FinishedKept
<1>2. /\ UNCHANGED <<scan_clock, heap>> /\ phase' = "metadata"
      /\ scan'.searchable = scan.searchable /\ scan'.index \in DOMAIN samples'
      /\ samples'[scan'.index].pid = pid /\ scan'.row.pid = pid
      /\ \/ scan'.index \in 1 .. scan.searchable /\ scan'.index \notin DOMAIN scan.mutations
         \/ scan'.index = Len(samples) + 1
      /\ DOMAIN scan.mutations \subseteq DOMAIN scan'.mutations
  <2>1. scan'.row.pid = pid
    <3>1. scan'.row = [Backend(s)!NoRow EXCEPT
                 !.pid = pid, !.instance_id = alive[pid],
                 !.same = /\ samples'[scan'.index].start_ticks = alive[pid]
                          /\ samples'[scan'.index].start_ticks # 0]
      BY StatRead
    <3> QED
      BY <3>1 DEF Backend!NoRow
  <2> QED
    BY <2>1, StatRead
<1>3. /\ DOMAIN samples = 1 .. Len(samples) /\ Len(samples) \in Nat
      /\ scan.searchable \in Nat /\ scan.searchable <= Len(samples)
      /\ scan_clock \in Nat
    BY <1>1, SamplesTyped, BackendConstants DEF PlacesInv, BackendTypes, ScanPlaced
<1>4. \A t \in s.texts : E.text[t].ptr = <<>>
    BY DEF Backend!EmptySample, Backend!NoText, Backend!NULL
<1> HIDE DEF E
<1>5. \A i \in 1 .. scan.searchable : Original(i)' = Original(i)
    BY <1>1, <1>2, <1>3 DEF Original
<1>6. \A i \in 1 .. scan.searchable : Named(s, Original(i)', scan_clock' - 1)
    BY <1>1, <1>2, <1>5 DEF StringsInv
<1>7. \A i \in DOMAIN samples', t \in s.texts :
         samples'[i].text[t].ptr \in {Before(s, i, t)', <<scan_clock', samples'[i].pid, t>>}
  <2> TAKE i \in DOMAIN samples', t \in s.texts
  <2>1. CASE i \in DOMAIN samples
    <3>1. samples[i].text[t].ptr \in {Before(s, i, t), <<scan_clock, samples[i].pid, t>>}
      BY <1>1, <2>1 DEF StringsInv
    <3>2. Before(s, i, t)' = Before(s, i, t)
      BY <1>2, <1>3, <1>5, <2>1 DEF Before
    <3> QED
      BY <1>1, <1>2, <2>1, <3>1, <3>2
  <2>2. CASE i \notin DOMAIN samples
    <3>1. i \in Nat /\ i > scan.searchable
      <4>1. i \in Nat /\ i >= 1
        BY SamplesTyped, PlacesRead DEF PlacesInv, BackendTypes
      <4> QED
        BY <1>3, <2>2, <4>1
    <3>2. samples'[i].text[t].ptr = <<>>
      BY <1>1, <1>4, <2>2
    <3>3. Before(s, i, t)' = <<>>
      <4>1. ~(i <= scan'.searchable)
        BY <1>2, <1>3, <3>1
      <4> QED
        BY <4>1 DEF Before
    <3> QED
      BY <3>2, <3>3
  <2> QED
    BY <2>1, <2>2
<1>8. ASSUME NEW p
      PROVE  p \in DOMAIN heap' <=> p # <<>> /\ HeldBy(s, p)'
  <2>1. p # <<>> /\ HeldBy(s, p)' => HeldBy(s, p)
    <3>1. ASSUME NEW i \in DOMAIN samples', NEW t \in s.texts,
                 p = samples'[i].text[t].ptr, p # <<>>
          PROVE  HeldBy(s, p)
      BY <1>1, <1>4, <3>1 DEF HeldBy
    <3>2. ASSUME NEW i \in DOMAIN scan'.mutations, NEW t \in s.texts,
                 p = scan'.mutations[i].text[t].ptr
          PROVE  HeldBy(s, p)
      BY <1>1, <3>2 DEF HeldBy
    <3> QED
      BY <3>1, <3>2 DEF HeldBy
  <2>2. HeldBy(s, p) => HeldBy(s, p)'
    <3>1. \A i \in DOMAIN scan.mutations : scan'.mutations[i] = scan.mutations[i]
      BY <1>1, <1>2, <1>3
    <3> QED
      BY <1>1, <1>2, <3>1 DEF HeldBy
  <2> QED
    BY <1>2, <2>1, <2>2, HeapHeld
<1>9. DOMAIN heap' = Backend(s)!Pointers(samples') \cup Backend(s)!Pointers(scan'.mutations)
  <2> DEFINE R == Backend(s)!Pointers(samples') \cup Backend(s)!Pointers(scan'.mutations)
  <2>1. \A p : p \in R <=> p # <<>> /\ HeldBy(s, p)'
    BY DEF HeldBy, Backend!Pointers, Backend!NULL
  <2> HIDE DEF R
  <2>2. DOMAIN heap' = R
    BY <1>8, <2>1
  <2> QED
    BY <2>2 DEF R
<1>10. \A t \in s.texts :
          samples'[scan'.index].text[t].ptr # <<scan_clock', scan'.row.pid, t>>
  <2> TAKE t \in s.texts
  <2>1. CASE scan'.index \in 1 .. scan.searchable /\ scan'.index \notin DOMAIN scan.mutations
    <3>1. /\ Original(scan'.index) = samples'[scan'.index]
          /\ Named(s, Original(scan'.index), scan_clock - 1)
      BY <1>1, <1>3, <2>1 DEF Original, StringsInv
    <3> QED
      BY <1>2, <1>3, <3>1, NamesOld
  <2>2. CASE scan'.index = Len(samples) + 1
    <3>1. samples'[scan'.index] = E
      BY <1>1, <1>2, <1>3, <2>2
    <3>2. samples'[scan'.index].text[t].ptr = <<>>
      BY <1>4, <3>1
    <3>3. <<>> # <<scan_clock', scan'.row.pid, t>>
      OBVIOUS
    <3> QED
      BY <3>2, <3>3
  <2> QED
    BY <1>2, <2>1, <2>2
<1> QED
    BY <1>1, <1>2, <1>6, <1>7, <1>9, <1>10 DEF StringsInv

(* What a rollback frees, and what a commit frees.                          *)
LEMMA Freed ==
    ASSUME NEW s, NEW p
    PROVE  /\ p \in Backend(s)!Replaced(Backend(s)!Afters, Backend(s)!Befores) <=>
                 p # <<>> /\ \E i \in DOMAIN scan.mutations, t \in s.texts :
                    p = samples[i].text[t].ptr /\ p # scan.mutations[i].text[t].ptr
           /\ p \in Backend(s)!Replaced(Backend(s)!Befores, Backend(s)!Afters) <=>
                 p # <<>> /\ \E i \in DOMAIN scan.mutations, t \in s.texts :
                    p = scan.mutations[i].text[t].ptr /\ p # samples[i].text[t].ptr
<1> DEFINE A == [i \in DOMAIN scan.mutations |-> samples[i]]
           M == scan.mutations
<1>1. /\ Backend(s)!Afters = A /\ Backend(s)!Befores = M
      /\ DOMAIN A = DOMAIN M /\ \A i \in DOMAIN M : A[i] = samples[i]
    BY DEF Backend!Afters, Backend!Befores, Backend!Part
<1>2. \A D, K : p \in Backend(s)!Replaced(D, K) <=>
         p # <<>> /\ \E i \in DOMAIN D, t \in s.texts :
            p = D[i].text[t].ptr /\ p # K[i].text[t].ptr
    BY DEF Backend!Replaced, Backend!Pointers, Backend!NULL
<1> HIDE DEF A, M
<1>3. /\ p \in Backend(s)!Replaced(A, M) <=>
            p # <<>> /\ \E i \in DOMAIN M, t \in s.texts :
               p = samples[i].text[t].ptr /\ p # M[i].text[t].ptr
      /\ p \in Backend(s)!Replaced(M, A) <=>
            p # <<>> /\ \E i \in DOMAIN M, t \in s.texts :
               p = M[i].text[t].ptr /\ p # samples[i].text[t].ptr
    BY <1>1, <1>2
<1> QED
    BY <1>1, <1>3 DEF M

(* Each part of the table holds strings of its own.                         *)
LEMMA PartHolds ==
    ASSUME NEW s, NEW D, NEW p
    PROVE  p \in Backend(s)!Pointers(Backend(s)!Part(D)) <=>
              p # <<>> /\ \E i \in D, t \in s.texts : p = samples[i].text[t].ptr
    BY DEF Backend!Pointers, Backend!Part, Backend!NULL

(* A rollback leaves the strings of the samples as they were, and no other. *)
LEMMA RollbackFrees ==
    ASSUME NEW s, Backend(s)!BackendAssumption, PlacesInv(s), StringsInv(s),
           Backend(s)!rollback
    PROVE  /\ \A p : p \in DOMAIN heap' <=>
                 p # <<>> /\ \E i \in 1 .. scan.searchable, t \in s.texts :
                                p = Original(i).text[t].ptr
           /\ DOMAIN heap' \subseteq DOMAIN heap
           /\ \A p \in DOMAIN heap' : heap'[p] = heap[p]
<1> DEFINE R == Backend(s)!Replaced(Backend(s)!Afters, Backend(s)!Befores)
           T == Backend(s)!Pointers(Backend(s)!Part(scan.searchable + 1 .. Len(samples)))
<1>1. phase = "readdir" /\ heap' = Backend(s)!Free(R \cup T)
    BY DEF Backend!rollback
<1>2. /\ Scanning /\ scan.searchable \in Nat /\ scan.searchable <= Len(samples)
      /\ Len(samples) \in Nat /\ DOMAIN samples = 1 .. Len(samples)
      /\ DOMAIN scan.mutations \subseteq 1 .. scan.searchable
      /\ scan_clock \in Nat
    BY <1>1, SamplesTyped, BackendConstants
       DEF Scanning, PlacesInv, BackendTypes, ScanPlaced
<1>3. \A p : p \in R <=>
         p # <<>> /\ \E i \in DOMAIN scan.mutations, t \in s.texts :
            p = samples[i].text[t].ptr /\ p # scan.mutations[i].text[t].ptr
    BY Freed
<1>4. \A p : p \in T <=>
         p # <<>> /\ \E i \in scan.searchable + 1 .. Len(samples), t \in s.texts :
            p = samples[i].text[t].ptr
  <2> DEFINE D == scan.searchable + 1 .. Len(samples)
  <2> HIDE DEF D
  <2>1. \A p : p \in Backend(s)!Pointers(Backend(s)!Part(D)) <=>
           p # <<>> /\ \E i \in D, t \in s.texts : p = samples[i].text[t].ptr
    BY PartHolds
  <2> QED
    BY <2>1 DEF D
<1>5. /\ DOMAIN heap' = DOMAIN heap \ (R \cup T)
      /\ \A p \in DOMAIN heap' : heap'[p] = heap[p]
    BY <1>1 DEF Backend!Free
<1> HIDE DEF R, T
<1>6. ASSUME NEW i \in DOMAIN samples, NEW t \in s.texts,
             samples[i].text[t].ptr # Before(s, i, t)
      PROVE  samples[i].text[t].ptr = <<scan_clock, samples[i].pid, t>>
    BY <1>2, <1>6 DEF StringsInv
<1>7. ASSUME NEW p \in R \cup T
      PROVE  \E q, u : p = <<scan_clock, q, u>>
  <2>1. ASSUME NEW i \in DOMAIN scan.mutations, NEW t \in s.texts,
               p = samples[i].text[t].ptr, p # scan.mutations[i].text[t].ptr
        PROVE  p = <<scan_clock, samples[i].pid, t>>
    <3>1. i \in DOMAIN samples /\ Before(s, i, t) = scan.mutations[i].text[t].ptr
      BY <1>2 DEF Before, Original
    <3> QED
      BY <1>6, <2>1, <3>1
  <2>2. ASSUME NEW i \in scan.searchable + 1 .. Len(samples), NEW t \in s.texts,
               p = samples[i].text[t].ptr, p # <<>>
        PROVE  p = <<scan_clock, samples[i].pid, t>>
    <3>1. i \in DOMAIN samples /\ Before(s, i, t) = <<>>
      BY <1>2 DEF Before
    <3> QED
      BY <1>6, <2>2, <3>1
  <2> QED
    BY <1>3, <1>4, <1>7, <2>1, <2>2
<1>8. ASSUME NEW i \in 1 .. scan.searchable, NEW t \in s.texts,
             NEW p, p = Original(i).text[t].ptr, p # <<>>
      PROVE  p \in DOMAIN heap'
  <2>1. p \in DOMAIN heap
    <3>1. HeldBy(s, p)
      BY <1>2, <1>8 DEF HeldBy, Original
    <3> QED
      BY <1>8, <3>1, HeapHeld
  <2>2. p \notin R \cup T
    <3>1. Named(s, Original(i), scan_clock - 1)
      BY <1>2 DEF StringsInv
    <3>2. \A q, u : p # <<scan_clock, q, u>>
      BY <1>2, <1>8, <3>1, NamesOld
    <3> QED
      BY <1>7, <3>2
  <2> QED
    BY <1>5, <2>1, <2>2
<1>9. ASSUME NEW p \in DOMAIN heap'
      PROVE  p # <<>> /\ \E i \in 1 .. scan.searchable, t \in s.texts :
                            p = Original(i).text[t].ptr
  <2>1. p \in DOMAIN heap /\ p \notin R /\ p \notin T
    BY <1>5, <1>9
  <2>2. p # <<>> /\ HeldBy(s, p)
    BY <2>1, HeapHeld
  <2>3. ASSUME NEW i \in DOMAIN samples, NEW t \in s.texts, p = samples[i].text[t].ptr
        PROVE  \E j \in 1 .. scan.searchable : p = Original(j).text[t].ptr
    <3>1. i \in 1 .. scan.searchable
      BY <1>2, <1>4, <2>1, <2>2, <2>3
    <3>2. p = Original(i).text[t].ptr
      BY <1>3, <2>1, <2>2, <2>3 DEF Original
    <3> QED
      BY <3>1, <3>2
  <2>4. ASSUME NEW i \in DOMAIN scan.mutations, NEW t \in s.texts,
               p = scan.mutations[i].text[t].ptr
        PROVE  \E j \in 1 .. scan.searchable : p = Original(j).text[t].ptr
    BY <1>2, <2>4 DEF Original
  <2> QED
    BY <2>2, <2>3, <2>4 DEF HeldBy
<1> QED
    BY <1>5, <1>8, <1>9

(* A commit leaves the strings of the samples it keeps, and no other.       *)
LEMMA CommitFrees ==
    ASSUME NEW s, Backend(s)!BackendAssumption, PlacesInv(s), StringsInv(s),
           Backend(s)!commit
    PROVE  /\ \A p : p \in DOMAIN heap' <=>
                 p # <<>> /\ \E i \in Backend(s)!Kept, t \in s.texts :
                                p = samples[i].text[t].ptr
           /\ DOMAIN heap' \subseteq DOMAIN heap
           /\ \A p \in DOMAIN heap' : heap'[p] = heap[p]
<1> DEFINE R == Backend(s)!Replaced(Backend(s)!Befores, Backend(s)!Afters)
           K == Backend(s)!Kept
           T == Backend(s)!Pointers(Backend(s)!Part(DOMAIN samples \ K))
<1>1. phase = "readdir" /\ heap' = Backend(s)!Free(R \cup T)
    BY DEF Backend!commit
<1>2. /\ Scanning /\ scan.searchable \in Nat /\ scan.searchable <= Len(samples)
      /\ Len(samples) \in Nat /\ DOMAIN samples = 1 .. Len(samples)
      /\ DOMAIN scan.mutations \subseteq 1 .. scan.searchable
      /\ scan_clock \in Nat /\ K \subseteq DOMAIN samples
      /\ \A i \in DOMAIN scan.mutations : scan.mutations[i].pid = samples[i].pid
      /\ \A i, j \in DOMAIN samples : samples[i].pid = samples[j].pid => i = j
    BY <1>1, SamplesTyped, BackendConstants
       DEF Scanning, PlacesInv, BackendTypes, ScanPlaced, Backend!Kept
<1>3. \A p : p \in R <=>
         p # <<>> /\ \E i \in DOMAIN scan.mutations, t \in s.texts :
            p = scan.mutations[i].text[t].ptr /\ p # samples[i].text[t].ptr
    BY Freed
<1>4. \A p : p \in T <=>
         p # <<>> /\ \E i \in DOMAIN samples \ K, t \in s.texts :
            p = samples[i].text[t].ptr
    BY PartHolds
<1>5. /\ DOMAIN heap' = DOMAIN heap \ (R \cup T)
      /\ \A p \in DOMAIN heap' : heap'[p] = heap[p]
    BY <1>1 DEF Backend!Free
<1> HIDE DEF R, T, K
<1>6. /\ \A i \in DOMAIN samples : Named(s, samples[i], scan_clock)
      /\ \A i \in DOMAIN scan.mutations : Named(s, scan.mutations[i], scan_clock - 1)
    BY <1>2, ScanNames
<1>7. ASSUME NEW i \in K, NEW t \in s.texts, NEW p, p = samples[i].text[t].ptr, p # <<>>
      PROVE  p \in DOMAIN heap'
  <2>1. p \in DOMAIN heap
    BY <1>2, <1>7, HeapHeld DEF HeldBy
  <2>2. p \notin R
    <3>1. SUFFICES ASSUME NEW j \in DOMAIN scan.mutations, NEW u \in s.texts,
                          p = scan.mutations[j].text[u].ptr, p # samples[j].text[u].ptr
                   PROVE  FALSE
      BY <1>3
    <3>2. Sharing(s, samples[i], t, scan_clock, scan.mutations[j], u, scan_clock - 1)
      BY <1>2, <1>6, <1>7, <3>1 DEF Sharing
    <3>3. samples[i].pid = scan.mutations[j].pid /\ t = u
      BY <3>2, NamesDiffer
    <3>4. i = j
      BY <1>2, <3>3
    <3> QED
      BY <1>7, <3>1, <3>3, <3>4
  <2>3. p \notin T
    <3>1. SUFFICES ASSUME NEW j \in DOMAIN samples \ K, NEW u \in s.texts,
                          p = samples[j].text[u].ptr
                   PROVE  FALSE
      BY <1>4
    <3>2. Sharing(s, samples[i], t, scan_clock, samples[j], u, scan_clock)
      BY <1>2, <1>6, <1>7, <3>1 DEF Sharing
    <3>3. samples[i].pid = samples[j].pid
      BY <3>2, NamesDiffer
    <3> QED
      BY <1>2, <3>1, <3>3
  <2> QED
    BY <1>5, <2>1, <2>2, <2>3
<1>8. ASSUME NEW p \in DOMAIN heap'
      PROVE  p # <<>> /\ \E i \in K, t \in s.texts : p = samples[i].text[t].ptr
  <2>1. p \in DOMAIN heap /\ p \notin R /\ p \notin T
    BY <1>5, <1>8
  <2>2. p # <<>> /\ HeldBy(s, p)
    BY <2>1, HeapHeld
  <2>3. ASSUME NEW i \in DOMAIN samples, NEW t \in s.texts, p = samples[i].text[t].ptr
        PROVE  i \in K
    BY <1>4, <2>1, <2>2, <2>3
  <2>4. ASSUME NEW i \in DOMAIN scan.mutations, NEW t \in s.texts,
               p = scan.mutations[i].text[t].ptr
        PROVE  i \in DOMAIN samples /\ p = samples[i].text[t].ptr
    BY <1>2, <1>3, <2>1, <2>2, <2>4
  <2> QED
    BY <2>2, <2>3, <2>4 DEF HeldBy
<1> QED
    BY <1>5, <1>7, <1>8 DEF K

(* The end of a scan.                                                       *)
LEMMA StringsEnd ==
    ASSUME NEW s, Backend(s)!BackendAssumption, PlacesInv(s), StringsInv(s),
           Backend(s)!rollback \/ Backend(s)!commit
    PROVE  StringsInv(s)'
<1>1. /\ phase = "readdir" /\ phase' = "idle" /\ scan' = Backend(s)!NoScan
      /\ scan_clock' = scan_clock
    BY DEF Backend!rollback, Backend!commit
<1>2. Scanning /\ ~Scanning' /\ ~InRow' /\ scan_clock \in Nat
    BY <1>1, BackendConstants DEF Scanning, InRow, PlacesInv, BackendTypes
<1>3. DOMAIN scan'.mutations = {}
  <2>1. scan'.mutations = <<>>
    BY <1>1 DEF Backend!NoScan
  <2> QED
    BY <2>1
<1>4. /\ \A i \in DOMAIN samples' : Named(s, samples'[i], scan_clock')
      /\ \A p : p \in DOMAIN heap' <=>
            p # <<>> /\ \E i \in DOMAIN samples', t \in s.texts : p = samples'[i].text[t].ptr
      /\ DOMAIN heap' \subseteq DOMAIN heap
      /\ \A p \in DOMAIN heap' : heap'[p] = heap[p]
  <2>1. CASE Backend(s)!rollback
    <3>1. samples' = Backend(s)!Restored
      BY <2>1 DEF Backend!rollback
    <3>2. /\ DOMAIN samples' = 1 .. scan.searchable
          /\ \A i \in 1 .. scan.searchable : samples'[i] = Original(i)
      BY <1>1, <3>1, Restoring
    <3>3. ASSUME NEW i \in 1 .. scan.searchable
          PROVE  Named(s, Original(i), scan_clock)
      <4>1. Named(s, Original(i), scan_clock - 1)
        BY <1>2 DEF StringsInv
      <4>2. 1 .. scan_clock - 1 \subseteq 1 .. scan_clock
        BY <1>2
      <4> QED
        BY <4>1, <4>2 DEF Named
    <3> QED
      BY <1>1, <2>1, <3>2, <3>3, RollbackFrees
  <2>2. CASE Backend(s)!commit
    <3>1. samples' = Backend(s)!Compacted
      BY <2>2 DEF Backend!commit
    <3> DEFINE K == Backend(s)!Kept
    <3>2. /\ \A n \in DOMAIN samples' : \E i \in K : samples'[n] = samples[i]
          /\ \A i \in K : \E n \in DOMAIN samples' : samples'[n] = samples[i]
      BY <1>1, <3>1, Compaction
    <3>3. \A i \in K : Named(s, samples[i], scan_clock)
      BY <1>2, ScanNames DEF Backend!Kept
    <3>4. /\ \A p : p \in DOMAIN heap' <=>
                p # <<>> /\ \E i \in K, t \in s.texts : p = samples[i].text[t].ptr
          /\ DOMAIN heap' \subseteq DOMAIN heap
          /\ \A p \in DOMAIN heap' : heap'[p] = heap[p]
      BY <2>2, CommitFrees
    <3> HIDE DEF K
    <3>5. \A p : (\E i \in K, t \in s.texts : p = samples[i].text[t].ptr) <=>
                 (\E i \in DOMAIN samples', t \in s.texts : p = samples'[i].text[t].ptr)
      BY <3>2
    <3> QED
      BY <1>1, <3>2, <3>3, <3>4, <3>5
  <2> QED
    BY <2>1, <2>2
<1>5. DOMAIN heap' = Backend(s)!Pointers(samples') \cup Backend(s)!Pointers(scan'.mutations)
  <2> DEFINE R == Backend(s)!Pointers(samples') \cup Backend(s)!Pointers(scan'.mutations)
  <2>1. \A p : p \in R <=> 
            p # <<>> /\ \E i \in DOMAIN samples', t \in s.texts : p = samples'[i].text[t].ptr
    BY <1>3 DEF Backend!Pointers, Backend!NULL
  <2> HIDE DEF R
  <2>2. DOMAIN heap' = R
    BY <1>4, <2>1
  <2> QED
    BY <2>2 DEF R
<1>6. \A p \in DOMAIN heap' : heap'[p] \in 0 .. MaxInstance
    BY <1>4 DEF StringsInv
<1> QED
    BY <1>1, <1>2, <1>4, <1>5, <1>6 DEF StringsInv

(* No step leaks a string, and none frees one that is used.                 *)
LEMMA StringsStep ==
    ASSUME NEW s, Backend(s)!BackendAssumption, PlacesInv(s), StringsInv(s),
           Backend(s)!Next \/ UNCHANGED processVars
    PROVE  StringsInv(s)'
<1>1. ASSUME \/ \E pid \in s.pids : Backend(s)!Exit(pid) \/ Backend(s)!Spawn(pid)
             \/ Backend(s)!scan_refused
             \/ UNCHANGED processVars
      PROVE  StringsInv(s)'
  <2>1. /\ UNCHANGED <<phase, scan_clock, samples, heap>>
        /\ scan'.searchable = scan.searchable /\ scan'.row = scan.row
        /\ scan'.mutations = scan.mutations /\ scan'.index = scan.index
    <3>1. CASE \E pid \in s.pids : Backend(s)!Exit(pid) \/ Backend(s)!Spawn(pid)
      BY <3>1, KernelMoved
    <3>2. CASE Backend(s)!scan_refused
      BY <3>2 DEF Backend!scan_refused
    <3>3. CASE UNCHANGED processVars
      BY <3>3 DEF processVars
    <3> QED
      BY <1>1, <3>1, <3>2, <3>3
  <2>2. (Scanning' <=> Scanning) /\ (InRow' <=> InRow)
    BY <2>1 DEF Scanning, InRow
  <2>3. \A i : Original(i)' = Original(i)
    BY <2>1 DEF Original
  <2>4. \A i, t : Before(s, i, t)' = Before(s, i, t)
    BY <2>1, <2>3 DEF Before
  <2> QED
    BY <2>1, <2>2, <2>3, <2>4 DEF StringsInv
<1>2. ASSUME NEW flags \in s.flags, Backend(s)!scan_begin(flags)
      PROVE  StringsInv(s)'
  <2>1. /\ UNCHANGED <<samples, heap>> /\ phase = "idle" /\ phase' = "readdir"
        /\ scan_clock' = scan_clock + 1 /\ scan'.searchable = Len(samples)
        /\ DOMAIN scan'.mutations = {}
    BY <1>2, ScanBegun
  <2>2. ~Scanning /\ Scanning' /\ ~InRow'
    BY <2>1 DEF Scanning, InRow
  <2>3. /\ DOMAIN samples = 1 .. Len(samples) /\ Len(samples) \in Nat
        /\ DOMAIN scan.mutations = {} /\ scan_clock \in Nat
    BY <2>2, SamplesTyped, BackendConstants DEF PlacesInv, ScanPlaced, BackendTypes
  <2>4. \A i : Original(i)' = samples[i]
    BY <2>1 DEF Original
  <2>5. \A i \in DOMAIN samples, t \in s.texts : Before(s, i, t)' = samples[i].text[t].ptr
    BY <2>1, <2>3, <2>4 DEF Before
  <2>6. scan_clock' - 1 = scan_clock
    BY <2>1, <2>3
  <2>7. Backend(s)!Pointers(scan.mutations) = {} /\ Backend(s)!Pointers(scan'.mutations) = {}
    BY <2>1, <2>3 DEF Backend!Pointers
  <2> QED
    BY <2>1, <2>2, <2>3, <2>4, <2>5, <2>6, <2>7 DEF StringsInv
<1>3. CASE Backend(s)!lsm_process_backend_destroy
  <2>1. /\ samples' = <<>> /\ phase = "idle" /\ phase' = "destroyed" /\ scan' = scan
        /\ heap' = Backend(s)!Free(Backend(s)!Pointers(samples))
    BY <1>3 DEF Backend!lsm_process_backend_destroy
  <2>2. ~Scanning /\ ~Scanning' /\ ~InRow' /\ DOMAIN samples' = {}
    BY <2>1 DEF Scanning, InRow
  <2>3. DOMAIN scan.mutations = {}
    BY <2>2 DEF PlacesInv, ScanPlaced
  <2>4. /\ Backend(s)!Pointers(scan.mutations) = {} /\ Backend(s)!Pointers(scan'.mutations) = {}
        /\ Backend(s)!Pointers(samples') = {}
    BY <2>1, <2>2, <2>3 DEF Backend!Pointers
  <2>5. DOMAIN heap' = {}
    BY <2>1, <2>4 DEF Backend!Free, StringsInv
  <2> QED
    BY <2>1, <2>2, <2>4, <2>5 DEF StringsInv
<1> QED
    BY <1>1, <1>2, <1>3, StringsRead, StringsRow, StringsEnd DEF Backend!Next

(* What a sample says depends on the strings it points to.                  *)
LEMMA SaysKept ==
    ASSUME NEW s, NEW x, NEW h, NEW k,
           \A t \in s.texts :
              /\ x.text[t].ptr \in DOMAIN h <=> x.text[t].ptr \in DOMAIN k
              /\ x.text[t].ptr \in DOMAIN h => h[x.text[t].ptr] = k[x.text[t].ptr]
    PROVE  Says(s, h, x) = Says(s, k, x)
<1> DEFINE f == [t \in s.texts |->
                   LET p == x.text[t].ptr
                   IN  IF p \in DOMAIN h THEN h[p] ELSE IF p = <<>> THEN 0 ELSE -1]
           g == [t \in s.texts |->
                   LET p == x.text[t].ptr
                   IN  IF p \in DOMAIN k THEN k[p] ELSE IF p = <<>> THEN 0 ELSE -1]
<1>1. f = g
    OBVIOUS
<1>2. Says(s, h, x) = [x EXCEPT !.text = f] /\ Says(s, k, x) = [x EXCEPT !.text = g]
    BY DEF Says
<1> HIDE DEF f, g
<1> QED
    BY <1>1, <1>2

(* The samples a scan found are kept while it runs, in the vector or in the *)
(* log, and so are their strings.                                           *)
LEMMA OriginalsKept ==
    ASSUME NEW s, Backend(s)!BackendAssumption, PlacesInv(s), StringsInv(s),
           \/ \E pid \in s.pids : Backend(s)!read_stat(pid)
           \/ Backend(s)!read_metadata \/ Backend(s)!finish_entry
    PROVE  /\ Scanning /\ Scanning' /\ scan'.searchable = scan.searchable
           /\ \A i \in 1 .. scan.searchable : Original(i)' = Original(i)
           /\ DOMAIN heap \subseteq DOMAIN heap'
           /\ \A p \in DOMAIN heap : heap'[p] = heap[p]
           /\ UNCHANGED <<retained, scan_outcome>> /\ phase' # "idle"
<1>1. ASSUME NEW pid \in s.pids, Backend(s)!read_stat(pid)
      PROVE  /\ Scanning /\ Scanning' /\ scan'.searchable = scan.searchable
             /\ \A i \in 1 .. scan.searchable : Original(i)' = Original(i)
             /\ heap' = heap
             /\ UNCHANGED <<retained, scan_outcome>> /\ phase' # "idle"
  <2>1. /\ Scanning /\ Scanning'
        /\ \A i \in DOMAIN samples : samples'[i] = samples[i]
        /\ \A i \in DOMAIN scan'.mutations :
              \/ i \in DOMAIN scan.mutations /\ scan'.mutations[i] = scan.mutations[i]
              \/ /\ i = scan'.index /\ i \in DOMAIN samples
                 /\ scan'.mutations[i] = samples[i]
    BY <1>1, FinishedKept
  <2>2. /\ heap' = heap /\ scan'.searchable = scan.searchable
        /\ DOMAIN scan.mutations \subseteq DOMAIN scan'.mutations
        /\ \/ scan'.index \notin DOMAIN scan.mutations
           \/ scan'.index = Len(samples) + 1
        /\ UNCHANGED <<retained, scan_outcome>> /\ phase' # "idle"
    BY <1>1, StatRead
  <2>3. /\ 1 .. scan.searchable \subseteq DOMAIN samples
        /\ DOMAIN scan.mutations \subseteq DOMAIN samples
        /\ Len(samples) + 1 \notin DOMAIN samples
    BY <2>1, SamplesTyped DEF PlacesInv, BackendTypes, ScanPlaced
  <2>4. \A i \in 1 .. scan.searchable : Original(i)' = Original(i)
    BY <2>1, <2>2, <2>3 DEF Original
  <2> QED
    BY <2>1, <2>2, <2>4
<1>2. ASSUME Backend(s)!read_metadata \/ Backend(s)!finish_entry
      PROVE  /\ Scanning /\ Scanning' /\ scan'.searchable = scan.searchable
             /\ \A i \in 1 .. scan.searchable : Original(i)' = Original(i)
             /\ UNCHANGED <<retained, scan_outcome>> /\ phase' # "idle"
  <2>1. /\ Scanning /\ Scanning' /\ InRow /\ scan.index \in DOMAIN samples
        /\ DOMAIN samples' = DOMAIN samples
        /\ \A i \in DOMAIN samples : i # scan.index => samples'[i] = samples[i]
        /\ samples[scan.index].pid = scan.row.pid
    BY <1>2, SampleWritten
  <2>2. /\ scan'.searchable = scan.searchable /\ scan'.mutations = scan.mutations
        /\ UNCHANGED <<retained, scan_outcome>> /\ phase' # "idle"
    BY <1>2, MetadataRead, EntryFinished
  <2>3. /\ 1 .. scan.searchable \subseteq DOMAIN samples
        /\ scan.index \in 1 .. scan.searchable => scan.index \in DOMAIN scan.mutations
    BY <2>1, SamplesTyped DEF PlacesInv, BackendTypes, ScanPlaced
  <2>4. \A i \in 1 .. scan.searchable : Original(i)' = Original(i)
    BY <2>1, <2>2, <2>3 DEF Original
  <2> QED
    BY <2>1, <2>2, <2>4
<1>3. ASSUME Backend(s)!read_metadata \/ Backend(s)!finish_entry
      PROVE  \E copied, content : Allotted(copied, content)
  <2>1. InRow
    BY <1>3, SampleWritten
  <2>2. CASE Backend(s)!read_metadata
    <3>1. PICK copied \in SUBSET ((Backend(s)!Wanted \ {"cgroup"}) \ scan'.row.cached) :
             heap' = Backend(s)!Allocated(copied, scan'.row.text)
      BY <2>2, MetadataRead
    <3> DEFINE content == scan'.row.text
    <3>2. Copying(s, copied, content)
      BY <2>2, <3>1, WantedTexts, MetadataRead DEF Copying
    <3> HIDE DEF content
    <3> QED
      BY <2>1, <3>2, TextsWritten
  <2>3. CASE Backend(s)!finish_entry
    <3> DEFINE content == Backend(s)!CheckedText
    <3>1. PICK copied \in SUBSET Refreshed(s) : heap' = Backend(s)!Allocated(copied, content)
      BY <2>3, EntryFinished
    <3>2. \A t \in copied : t = "cgroup"
      BY <3>1 DEF Refreshed
    <3>3. Copying(s, copied, content)
      BY <3>1, <3>2, WantedTexts DEF Copying
    <3> HIDE DEF content
    <3> QED
      BY <2>1, <3>3, TextsWritten
  <2> QED
    BY <1>3, <2>2, <2>3
<1>4. ASSUME Backend(s)!read_metadata \/ Backend(s)!finish_entry
      PROVE  /\ DOMAIN heap \subseteq DOMAIN heap'
             /\ \A p \in DOMAIN heap : heap'[p] = heap[p]
    BY <1>3, <1>4 DEF Allotted
<1> QED
    BY <1>1, <1>2, <1>4

(* The strings of what a scan found are on the heap.                        *)
LEMMA OriginalHeld ==
    ASSUME NEW s, Backend(s)!BackendAssumption, PlacesInv(s), StringsInv(s), Scanning,
           NEW i \in 1 .. scan.searchable, NEW t \in s.texts
    PROVE  Original(i).text[t].ptr = <<>> \/ Original(i).text[t].ptr \in DOMAIN heap
<1>1. i \in DOMAIN samples
    BY SamplesTyped DEF PlacesInv, BackendTypes, ScanPlaced
<1>2. HeldBy(s, Original(i).text[t].ptr)
    BY <1>1 DEF HeldBy, Original
<1> QED
    BY <1>2, HeapHeld

(* The null pointer is never on the heap.                                   *)
LEMMA NothingAtNull ==
    ASSUME NEW s, StringsInv(s)
    PROVE  <<>> \notin DOMAIN heap
    BY HeapHeld

(* Nothing has been scanned at the start.                                   *)
LEMMA TraceStart ==
    ASSUME NEW s, Backend(s)!Init
    PROVE  TraceInv(s)
    BY DEF Backend!Init, TraceInv, Scanning

(* What the samples say changes when a scan is over, and not before it has  *)
(* succeeded.                                                               *)
LEMMA TraceStep ==
    ASSUME NEW s, Backend(s)!BackendAssumption, PlacesInv(s), StringsInv(s),
           StringsInv(s)', TraceInv(s),
           Backend(s)!Next \/ UNCHANGED processVars
    PROVE  TraceInv(s)'
<1>1. <<>> \notin DOMAIN heap /\ <<>> \notin DOMAIN heap'
  <2>1. <<>> \notin DOMAIN heap'
    <3>1. DOMAIN heap' = Backend(s)!Pointers(samples')
                            \cup Backend(s)!Pointers(scan'.mutations)
      BY DEF StringsInv
    <3>2. \A table : <<>> \notin Backend(s)!Pointers(table)
      BY DEF Backend!Pointers, Backend!NULL
    <3> QED
      BY <3>1, <3>2
  <2> QED
    BY <2>1, NothingAtNull
<1>2. ASSUME \/ \E pid \in s.pids : Backend(s)!Exit(pid) \/ Backend(s)!Spawn(pid)
             \/ Backend(s)!enrich
             \/ UNCHANGED processVars
      PROVE  TraceInv(s)'
  <2>1. /\ UNCHANGED <<samples, heap, scan_outcome, retained>>
        /\ scan'.searchable = scan.searchable /\ scan'.mutations = scan.mutations
        /\ phase' = phase \/ (phase = "enrich" /\ phase' = "finish")
    <3>1. CASE \E pid \in s.pids : Backend(s)!Exit(pid) \/ Backend(s)!Spawn(pid)
      BY <3>1, KernelMoved
    <3>2. CASE Backend(s)!enrich
      BY <3>2, EnrichRead
    <3>3. CASE UNCHANGED processVars
      BY <3>3 DEF processVars
    <3> QED
      BY <1>2, <3>1, <3>2, <3>3
  <2>2. (Scanning' <=> Scanning) /\ (phase' = "idle" <=> phase = "idle")
    BY <2>1 DEF Scanning
  <2>3. Backend(s)!Contents' = Backend(s)!Contents
    BY <2>1 DEF Backend!Contents
  <2>4. \A i : Original(i)' = Original(i)
    BY <2>1 DEF Original
  <2> QED
    BY <2>1, <2>2, <2>3, <2>4 DEF TraceInv
<1>3. ASSUME \/ \E pid \in s.pids : Backend(s)!read_stat(pid)
             \/ Backend(s)!read_metadata \/ Backend(s)!finish_entry
      PROVE  TraceInv(s)'
  <2>1. /\ Scanning /\ Scanning' /\ scan'.searchable = scan.searchable
        /\ \A i \in 1 .. scan.searchable : Original(i)' = Original(i)
        /\ DOMAIN heap \subseteq DOMAIN heap'
        /\ \A p \in DOMAIN heap : heap'[p] = heap[p]
        /\ UNCHANGED <<retained, scan_outcome>> /\ phase' # "idle"
    BY <1>3, OriginalsKept
  <2>2. \A i \in 1 .. scan.searchable : Says(s, heap', Original(i)) = Says(s, heap, Original(i))
    <3> TAKE i \in 1 .. scan.searchable
    <3> DEFINE x == Original(i)
    <3>1. \A t \in s.texts : x.text[t].ptr = <<>> \/ x.text[t].ptr \in DOMAIN heap
      BY <2>1, OriginalHeld
    <3> HIDE DEF x
    <3>2. \A t \in s.texts :
             /\ x.text[t].ptr \in DOMAIN heap' <=> x.text[t].ptr \in DOMAIN heap
             /\ x.text[t].ptr \in DOMAIN heap' => heap'[x.text[t].ptr] = heap[x.text[t].ptr]
      BY <1>1, <2>1, <3>1
    <3>3. Says(s, heap', x) = Says(s, heap, x)
      BY <3>2, SaysKept
    <3> QED
      BY <3>3 DEF x
  <2>3. [i \in 1 .. scan'.searchable |-> Says(s, heap', Original(i)')] =
           [i \in 1 .. scan.searchable |-> Says(s, heap, Original(i))]
    BY <2>1, <2>2
  <2> QED
    BY <2>1, <2>3 DEF TraceInv
<1>4. ASSUME NEW flags \in s.flags, Backend(s)!scan_begin(flags)
      PROVE  TraceInv(s)'
  <2>1. /\ UNCHANGED <<samples, heap>> /\ phase' = "readdir"
        /\ retained' = Backend(s)!Contents
        /\ scan'.searchable = Len(samples) /\ DOMAIN scan'.mutations = {}
    BY <1>4, ScanBegun
  <2>2. DOMAIN samples = 1 .. Len(samples)
    BY SamplesTyped DEF PlacesInv
  <2>3. \A i : Original(i)' = samples[i]
    BY <2>1 DEF Original
  <2>4. Backend(s)!Contents = [i \in DOMAIN samples |-> Says(s, heap, samples[i])]
    BY DEF Backend!Contents, Says, Backend!NULL
  <2> QED
    BY <2>1, <2>2, <2>3, <2>4 DEF TraceInv
<1>5. CASE \/ Backend(s)!scan_refused \/ Backend(s)!commit
           \/ Backend(s)!lsm_process_backend_destroy
  <2>1. phase' \in {"idle", "destroyed"} /\ (phase' = "idle" => scan_outcome' # "failed")
    BY <1>5 DEF Backend!scan_refused, Backend!commit, Backend!lsm_process_backend_destroy
  <2> QED
    BY <2>1 DEF TraceInv, Scanning
<1>6. CASE Backend(s)!rollback
  <2>1. /\ phase = "readdir" /\ phase' = "idle" /\ samples' = Backend(s)!Restored
        /\ retained' = retained
    BY <1>6 DEF Backend!rollback
  <2>2. Scanning /\ ~Scanning'
    BY <2>1 DEF Scanning
  <2>3. /\ DOMAIN samples' = 1 .. scan.searchable
        /\ \A i \in 1 .. scan.searchable : samples'[i] = Original(i)
    BY <2>1, Restoring
  <2>4. \A i \in 1 .. scan.searchable : Says(s, heap', Original(i)) = Says(s, heap, Original(i))
    <3> TAKE i \in 1 .. scan.searchable
    <3> DEFINE x == Original(i)
    <3>1. \A t \in s.texts : x.text[t].ptr = <<>> \/ x.text[t].ptr \in DOMAIN heap
      BY <2>2, OriginalHeld
    <3>2. \A t \in s.texts : x.text[t].ptr # <<>> => x.text[t].ptr \in DOMAIN heap'
      BY <1>6, RollbackFrees
    <3>3. \A p \in DOMAIN heap' : heap'[p] = heap[p]
      BY <1>6, RollbackFrees
    <3> HIDE DEF x
    <3>4. \A t \in s.texts :
             /\ x.text[t].ptr \in DOMAIN heap' <=> x.text[t].ptr \in DOMAIN heap
             /\ x.text[t].ptr \in DOMAIN heap' => heap'[x.text[t].ptr] = heap[x.text[t].ptr]
      BY <1>1, <3>1, <3>2, <3>3
    <3>5. Says(s, heap', x) = Says(s, heap, x)
      BY <3>4, SaysKept
    <3> QED
      BY <3>5 DEF x
  <2>5. Backend(s)!Contents' = [i \in DOMAIN samples' |-> Says(s, heap', samples'[i])]
    BY DEF Backend!Contents, Says, Backend!NULL
  <2>6. Backend(s)!Contents' = [i \in 1 .. scan.searchable |-> Says(s, heap, Original(i))]
    BY <2>3, <2>4, <2>5
  <2>7. retained = [i \in 1 .. scan.searchable |-> Says(s, heap, Original(i))]
    BY <2>2 DEF TraceInv
  <2> QED
    BY <2>1, <2>2, <2>6, <2>7 DEF TraceInv
<1> QED
    BY <1>2, <1>3, <1>4, <1>5, <1>6 DEF Backend!Next

(* What is kept of a process stays its own while its strings stay.          *)
LEMMA OwnKept ==
    ASSUME NEW s, NEW x, NEW h, NEW k, NEW a, Own(s, h, a, x),
           \A t \in s.texts : x.text[t].ptr # <<>> => k[x.text[t].ptr] = h[x.text[t].ptr]
    PROVE  Own(s, k, a, x)
    BY DEF Own, TextOf

(* Nothing is owned at the start.                                           *)
LEMMA OwnStart ==
    ASSUME NEW s, Backend(s)!Init
    PROVE  OwnInv(s)
<1>1. scan.mutations = <<>>
    BY DEF Backend!Init, Backend!NoScan
<1>2. DOMAIN scan.mutations = {} /\ DOMAIN samples = {} /\ phase = "idle" /\ processes = {}
    BY <1>1 DEF Backend!Init
<1> QED
    BY <1>2 DEF OwnInv, RowOwn, Scanning, InRow, Backend!RetainedOwned

(* A PID that changes hands is taken by a process that has no sample.       *)
LEMMA OwnKernel ==
    ASSUME NEW s, Backend(s)!BackendAssumption, PlacesInv(s), OwnInv(s), NEW pid \in s.pids,
           Backend(s)!Exit(pid) \/ Backend(s)!Spawn(pid)
    PROVE  OwnInv(s)'
<1>1. /\ UNCHANGED <<phase, samples, heap, processes>>
      /\ scan'.row = scan.row /\ scan'.mutations = scan.mutations
      /\ scan'.index = scan.index /\ scan'.flags = scan.flags
      /\ instances \in Nat /\ instances' \in Nat /\ instances <= instances'
      /\ \A p \in s.pids : alive'[p] \in {0, alive[p]} \/ alive'[p] > instances
    BY KernelMoved
<1>2. (Scanning' <=> Scanning) /\ (InRow' <=> InRow)
    BY <1>1 DEF Scanning, InRow
<1>3. ASSUME NEW x \in SamplesOf(s), x.start_ticks <= instances, Own(s, heap, alive, x)
      PROVE  x.start_ticks <= instances' /\ Own(s, heap', alive', x)
  <2>1. x.pid \in s.pids /\ x.start_ticks \in Nat
    BY SampleFields, BackendConstants
  <2>2. alive'[x.pid] = x.start_ticks /\ x.start_ticks # 0 => alive[x.pid] = x.start_ticks
    BY <1>1, <1>3, <2>1
  <2>3. x.start_ticks <= instances'
    BY <1>1, <1>3, <2>1
  <2> QED
    BY <1>1, <1>3, <2>2, <2>3 DEF Own
<1>4. /\ \A i \in DOMAIN samples : samples[i] \in SamplesOf(s)
      /\ \A i \in DOMAIN scan.mutations : scan.mutations[i] \in SamplesOf(s)
    BY SamplesTyped DEF PlacesInv, BackendTypes
<1>5. \A i \in DOMAIN samples : samples[i].start_ticks <= instances'
  <2> TAKE i \in DOMAIN samples
  <2>1. samples[i].start_ticks \in Nat /\ samples[i].start_ticks <= instances
    BY <1>4, SampleFields, BackendConstants DEF OwnInv
  <2> QED
    BY <1>1, <2>1
<1>6. InRow /\ alive'[scan.row.pid] = scan.row.instance_id
         => alive[scan.row.pid] = scan.row.instance_id
  <2>1. SUFFICES ASSUME InRow PROVE alive'[scan.row.pid] = scan.row.instance_id
                                       => alive[scan.row.pid] = scan.row.instance_id
    OBVIOUS
  <2>2. scan.row.pid \in s.pids /\ scan.row.instance_id \in 1 .. instances
    BY <2>1 DEF PlacesInv, ScanPlaced, BackendTypes
  <2> QED
    BY <1>1, <2>2
<1>7. RowOwn(s)'
  <2>1. phase \in {"enrich", "finish"} => InRow
    BY DEF InRow
  <2> QED
    BY <1>1, <1>2, <1>6, <2>1 DEF OwnInv, RowOwn
<1> QED
    BY <1>1, <1>2, <1>3, <1>4, <1>5, <1>7 DEF OwnInv, Backend!RetainedOwned

(* A sample is used for the process it is of, or not at all.                *)
LEMMA OwnRead ==
    ASSUME NEW s, Backend(s)!BackendAssumption, PlacesInv(s), OwnInv(s), NEW pid \in s.pids,
           Backend(s)!read_stat(pid)
    PROVE  OwnInv(s)'
<1>1. /\ Scanning /\ Scanning' /\ ~InRow /\ InRow'
      /\ DOMAIN samples \subseteq DOMAIN samples'
      /\ \A i \in DOMAIN samples : samples'[i] = samples[i]
      /\ \A i \in DOMAIN samples' \ DOMAIN samples :
            samples'[i] = Backend(s)!EmptySample(pid)
      /\ \A i \in DOMAIN scan'.mutations :
            \/ i \in DOMAIN scan.mutations /\ scan'.mutations[i] = scan.mutations[i]
            \/ i \in DOMAIN samples /\ scan'.mutations[i] = samples[i]
    BY FinishedKept
<1>2. /\ UNCHANGED <<alive, instances, heap, processes>> /\ phase' = "metadata"
      /\ scan'.flags = scan.flags /\ scan'.index \in DOMAIN samples'
      /\ samples'[scan'.index].pid = pid
      /\ scan'.row = [Backend(s)!NoRow EXCEPT
                 !.pid = pid, !.instance_id = alive[pid],
                 !.same = /\ samples'[scan'.index].start_ticks = alive[pid]
                          /\ samples'[scan'.index].start_ticks # 0]
    BY StatRead
<1>3. /\ scan'.row.instance_id = alive[pid]
      /\ scan'.row.same => /\ samples'[scan'.index].start_ticks = alive[pid]
                           /\ samples'[scan'.index].start_ticks # 0
    BY <1>2 DEF Backend!NoRow
<1>4. Backend(s)!EmptySample(pid).start_ticks = 0 /\ instances \in Nat
    BY BackendConstants DEF Backend!EmptySample, PlacesInv, BackendTypes
<1>5. \A i \in DOMAIN samples' : samples'[i].start_ticks <= instances'
    BY <1>1, <1>2, <1>4 DEF OwnInv
<1>6. \A i \in DOMAIN samples' : Own(s, heap, alive, samples'[i])
  <2> TAKE i \in DOMAIN samples'
  <2>1. CASE i \in DOMAIN samples
    BY <1>1, <2>1 DEF OwnInv
  <2>2. CASE i \notin DOMAIN samples
    BY <1>1, <1>4, <2>2 DEF Own
  <2> QED
    BY <2>1, <2>2
<1>7. scan'.row.same =>
         /\ GpuOf(samples'[scan'.index], scan'.row.instance_id)
         /\ \A t \in s.texts : TextOf(heap, samples'[scan'.index], t, scan'.row.instance_id)
    BY <1>2, <1>3, <1>6 DEF Own
<1>8. \A i \in DOMAIN scan'.mutations :
         /\ scan'.mutations[i].start_ticks <= instances
         /\ Own(s, heap, alive, scan'.mutations[i])
    BY <1>1 DEF OwnInv
<1>9. RowOwn(s)'
    BY <1>2, <1>7 DEF RowOwn
<1> QED
    BY <1>1, <1>2, <1>5, <1>6, <1>8, <1>9 DEF OwnInv, Backend!RetainedOwned

(* While an entry is read, what the other samples and the log say stays.    *)
LEMMA OthersOwn ==
    ASSUME NEW s, Backend(s)!BackendAssumption, PlacesInv(s), StringsInv(s), OwnInv(s),
           Backend(s)!read_metadata \/ Backend(s)!finish_entry
    PROVE  /\ \A i \in DOMAIN scan'.mutations :
                 /\ scan'.mutations[i].start_ticks <= instances'
                 /\ Own(s, heap', alive', scan'.mutations[i])
           /\ \A i \in DOMAIN samples' : i # scan.index =>
                 /\ samples'[i].start_ticks <= instances'
                 /\ Own(s, heap', alive', samples'[i])
           /\ \A t \in s.texts : samples[scan.index].text[t].ptr # <<>> =>
                 heap'[samples[scan.index].text[t].ptr] = heap[samples[scan.index].text[t].ptr]
<1>1. /\ InRow /\ scan.index \in DOMAIN samples /\ DOMAIN samples' = DOMAIN samples
      /\ \A i \in DOMAIN samples : i # scan.index => samples'[i] = samples[i]
    BY SampleWritten
<1>2. \A p \in DOMAIN heap : heap'[p] = heap[p]
    BY OriginalsKept
<1>3. UNCHANGED <<alive, instances>> /\ scan'.mutations = scan.mutations
    BY MetadataRead, EntryFinished
<1>4. /\ \A i \in DOMAIN samples, t \in s.texts : samples[i].text[t].ptr # <<>> =>
            samples[i].text[t].ptr \in DOMAIN heap
      /\ \A i \in DOMAIN scan.mutations, t \in s.texts : scan.mutations[i].text[t].ptr # <<>> =>
            scan.mutations[i].text[t].ptr \in DOMAIN heap
    BY HeapHeld DEF HeldBy
<1>5. ASSUME NEW i \in DOMAIN scan.mutations
      PROVE  Own(s, heap', alive, scan.mutations[i])
  <2>1. Own(s, heap, alive, scan.mutations[i])
    BY DEF OwnInv
  <2>2. \A t \in s.texts : scan.mutations[i].text[t].ptr # <<>> =>
           heap'[scan.mutations[i].text[t].ptr] = heap[scan.mutations[i].text[t].ptr]
    BY <1>2, <1>4
  <2> QED
    BY <2>1, <2>2, OwnKept
<1>6. ASSUME NEW i \in DOMAIN samples, i # scan.index
      PROVE  Own(s, heap', alive, samples[i])
  <2>1. Own(s, heap, alive, samples[i])
    BY <1>6 DEF OwnInv
  <2>2. \A t \in s.texts : samples[i].text[t].ptr # <<>> =>
           heap'[samples[i].text[t].ptr] = heap[samples[i].text[t].ptr]
    BY <1>2, <1>4
  <2> QED
    BY <2>1, <2>2, OwnKept
<1> QED
    BY <1>1, <1>2, <1>3, <1>4, <1>5, <1>6 DEF OwnInv

(* Every text is wanted.                                                    *)
LEMMA AllWanted ==
    ASSUME NEW s, Backend(s)!BackendAssumption, AllAsked(s), OwnInv(s), Scanning
    PROVE  Backend(s)!Wanted = s.texts /\ "GPU" \in scan.flags
<1>1. s.texts \subseteq {"command", "executable", "cgroup"}
    BY DEF Backend!BackendAssumption
<1>2. /\ {"GPU", "CGROUP"} \subseteq scan.flags
      /\ "executable" \in s.texts => "EXECUTABLE" \in scan.flags
    BY DEF AllAsked, OwnInv
<1> QED
    BY <1>1, <1>2 DEF Backend!Wanted

(* The command and the executable are copied for the process that has the   *)
(* PID, and a cached text is that of the process in the row.                *)
LEMMA OwnMetadata ==
    ASSUME NEW s, Backend(s)!BackendAssumption, AllAsked(s), PlacesInv(s), StringsInv(s),
           OwnInv(s), Backend(s)!read_metadata
    PROVE  OwnInv(s)'
<1>1. /\ Scanning /\ Scanning' /\ InRow /\ scan.index \in DOMAIN samples
      /\ DOMAIN samples' = DOMAIN samples /\ samples[scan.index] \in SamplesOf(s)
      /\ samples[scan.index].pid = scan.row.pid
    BY SampleWritten
<1>2. /\ UNCHANGED <<alive, instances, scan_clock, processes>>
      /\ phase = "metadata" /\ phase' = "enrich" /\ scan'.flags = scan.flags
      /\ scan'.index = scan.index /\ scan'.row.same = scan.row.same
      /\ scan'.row.pid = scan.row.pid
      /\ scan'.row.instance_id = scan.row.instance_id
      /\ scan'.row.cached = {t \in Backend(s)!Wanted : Backend(s)!Cached(t)}
      /\ scan'.row.enrich = (/\ "cgroup" \in Backend(s)!Wanted \ scan'.row.cached
                             /\ alive[scan.row.pid] = scan.row.instance_id)
      /\ \A t \in s.texts : scan'.row.text[t] =
            IF t \in scan'.row.cached THEN heap[samples[scan.index].text[t].ptr]
            ELSE IF t \in Backend(s)!Wanted \ {"cgroup"}
                 THEN Backend(s)!ReadText(t) ELSE 0
    BY MetadataRead
<1>3. PICK copied \in SUBSET ((Backend(s)!Wanted \ {"cgroup"}) \ scan'.row.cached) :
         /\ copied = (Backend(s)!Wanted \ {"cgroup"}) \ scan'.row.cached
         /\ samples' = [samples EXCEPT ![scan.index] =
                           Backend(s)!WithTexts(samples[scan.index], copied)]
         /\ heap' = Backend(s)!Allocated(copied, scan'.row.text)
    BY MetadataRead DEF AllAsked
<1>4. Backend(s)!Wanted = s.texts
    BY <1>1, AllWanted
<1> DEFINE x == samples[scan.index]
           y == samples'[scan.index]
           n == scan.row.instance_id
           content == scan'.row.text
<1>5. y = Backend(s)!WithTexts(x, copied)
    BY <1>1, <1>3
<1>6. Copying(s, copied, content)
    BY <1>2, <1>3, <1>4 DEF Copying
<1>7. Allotted(copied, content)
  <2> HIDE DEF content
  <2> QED
    BY <1>1, <1>6, TextsWritten
<1>8. /\ \A t \in s.texts : y.text[t].ptr =
            IF t \in copied THEN <<scan_clock, scan.row.pid, t>> ELSE x.text[t].ptr
      /\ y.gpu = x.gpu /\ y.start_ticks = x.start_ticks
  <2>0. copied \in SUBSET s.texts
    BY <1>3, <1>4
  <2>1. y = [pid |-> x.pid, start_ticks |-> x.start_ticks,
             sampled_at |-> x.sampled_at, io_at |-> x.io_at,
             io_available |-> x.io_available, text |-> y.text, gpu |-> x.gpu,
             generation |-> x.generation]
    <3> HIDE DEF y
    <3> QED
      BY <1>1, <1>5, <2>0, TextsCopied
  <2>2. \A t \in s.texts : y.text[t].ptr =
            IF t \in copied THEN <<scan_clock, scan.row.pid, t>> ELSE x.text[t].ptr
    BY <1>1, <1>3, <1>4, <1>5, PointersCopied
  <2> HIDE DEF x, y
  <2>3. y.gpu = x.gpu /\ y.start_ticks = x.start_ticks
    BY <2>1
  <2> QED
    BY <2>2, <2>3
<1>9. /\ n \in 1 .. instances /\ instances \in Nat
      /\ scan.row.same => /\ GpuOf(x, n)
                          /\ \A t \in s.texts : TextOf(heap, x, t, n)
    BY <1>1, <1>2, BackendConstants DEF OwnInv, RowOwn, PlacesInv, ScanPlaced, BackendTypes
<1>10. \A t \in scan'.row.cached : scan.row.same /\ x.text[t].ptr # <<>> /\ t \in s.texts
    BY <1>2, <1>4 DEF Backend!Cached, Backend!Sample, Backend!NULL
<1>11. \A t \in s.texts : x.text[t].ptr # <<>> => heap'[x.text[t].ptr] = heap[x.text[t].ptr]
    BY OthersOwn, SMTT(20)
<1> HIDE DEF x, y, n, content
<1>12. \A t \in scan'.row.cached : content[t] \in {0, n} /\ TextOf(heap', y, t, n)
  <2> TAKE t \in scan'.row.cached
  <2>1. /\ t \in s.texts /\ scan.row.same /\ x.text[t].ptr # <<>>
        /\ heap[x.text[t].ptr] \in {0, n}
    BY <1>9, <1>10 DEF TextOf
  <2>2. content[t] = heap[x.text[t].ptr]
    BY <1>2, <2>1 DEF content, x
  <2>3. t \notin copied
    BY <1>3
  <2> QED
    BY <1>8, <1>11, <2>1, <2>2, <2>3 DEF TextOf
<1>13. ASSUME alive[scan.row.pid] = n, NEW t \in s.texts \ {"cgroup"}
       PROVE  TextOf(heap', y, t, n)
  <2>1. CASE t \in scan'.row.cached
    BY <1>12, <2>1
  <2>2. CASE t \notin scan'.row.cached
    <3>1. t \in copied
      BY <1>3, <1>4, <2>2
    <3>2. content[t] = Backend(s)!ReadText(t)
      BY <1>2, <1>4, <2>2 DEF content
    <3>3. Backend(s)!ReadText(t) = n
      BY <1>9, <1>13 DEF Backend!ReadText, n
    <3>4. heap'[y.text[t].ptr] = content[t]
      BY <1>7, <1>8, <3>1 DEF Allotted
    <3> QED
      BY <3>2, <3>3, <3>4 DEF TextOf
  <2> QED
    BY <2>1, <2>2
<1>14. /\ "cgroup" \in s.texts => "cgroup" \in scan'.row.cached \/ content["cgroup"] = 0
       /\ scan'.row.cached \subseteq s.texts
       /\ ("cgroup" \in scan'.row.cached => ~scan'.row.enrich)
    BY <1>2, <1>10 DEF content
<1>15. RowOwn(s)'
  <2>1. scan'.row.same => GpuOf(y, n)
    BY <1>2, <1>8, <1>9 DEF GpuOf
  <2>2. phase' # "metadata"
    BY <1>2
  <2>3. alive'[scan'.row.pid] = n => \A t \in s.texts \ {"cgroup"} : TextOf(heap', y, t, n)
    BY <1>2, <1>13
  <2>4. y = samples'[scan'.index] /\ n = scan'.row.instance_id /\ content = scan'.row.text
    BY <1>2 DEF y, n, content
  <2> QED
    BY <1>12, <1>14, <2>1, <2>2, <2>3, <2>4 DEF RowOwn
<1>16. y.start_ticks <= instances'
    BY <1>1, <1>2, <1>8 DEF OwnInv, x, y
<1>17. InRow'
    BY <1>2 DEF InRow
<1> QED
    BY <1>1, <1>2, <1>15, <1>16, <1>17, OthersOwn DEF OwnInv, Backend!RetainedOwned, y

(* The GPU figures of the row and of the sample are the process's own.      *)
LEMMA GpuOwn ==
    ASSUME NEW s, NEW got \in BOOLEAN, "GPU" \in scan.flags, scan.row.instance_id # 0,
           scan.row.same => GpuOf(samples[scan.index], scan.row.instance_id)
    PROVE  /\ RowMade(s, samples[scan.index], got).gpu_base \subseteq {scan.row.instance_id}
           /\ alive[scan.row.pid] = scan.row.instance_id =>
                 \A copied : GpuOf(SampleMade(s, samples[scan.index], copied, got),
                                   scan.row.instance_id)
<1> DEFINE g == samples[scan.index].gpu
           n == scan.row.instance_id
<1>1. scan.row.same => (g.valid => g.of = n) /\ g.shown \subseteq {n}
    BY DEF GpuOf
<1>2. ~Backend(s)!gpu_due => scan.row.same
    BY DEF Backend!gpu_due
<1>3. Backend(s)!gpu_delta => g.of = n
    BY <1>1 DEF Backend!gpu_delta, Backend!Sample
<1>4. RowMade(s, samples[scan.index], got).gpu_base = Backend(s)!gpu_base(got)
    BY DEF RowMade
<1>5. Backend(s)!gpu_base(got) \subseteq {n}
    BY <1>1, <1>2, <1>3 DEF Backend!gpu_base, Backend!Sample
<1>6. ASSUME alive[scan.row.pid] = n, NEW copied
      PROVE  GpuOf(SampleMade(s, samples[scan.index], copied, got), n)
  <2> DEFINE h == IF Backend(s)!gpu_due THEN Backend(s)!gpu_sampled(got) ELSE g
  <2>1. SampleMade(s, samples[scan.index], copied, got).gpu = h
    BY DEF SampleMade
  <2>2. (h.valid => h.of = n) /\ h.shown \subseteq {n}
    <3>1. CASE ~Backend(s)!gpu_due
      BY <1>1, <1>2, <3>1
    <3>2. CASE Backend(s)!gpu_due /\ got
      <4>1. h = [valid |-> TRUE, of |-> n,
                 shown |-> {n} \cup (IF Backend(s)!gpu_delta THEN {g.of} ELSE {}),
                 sampled_at |-> scan_clock]
        BY <1>6, <3>2 DEF Backend!gpu_sampled, Backend!Sample
      <4> HIDE DEF h, n, g
      <4> QED
        BY <1>3, <4>1
    <3>3. CASE Backend(s)!gpu_due /\ ~got
      <4>1. h = [valid |-> FALSE, of |-> g.of, shown |-> {}, sampled_at |-> scan_clock]
        BY <3>3 DEF Backend!gpu_sampled, Backend!Sample
      <4> HIDE DEF h, n, g
      <4> QED
        BY <4>1
    <3> QED
      BY <3>1, <3>2, <3>3
  <2> QED
    BY <2>1, <2>2 DEF GpuOf
<1> QED
    BY <1>4, <1>5, <1>6

(* The cgroup is copied for the process of the row, or not known.           *)
LEMMA OwnFinish ==
    ASSUME NEW s, Backend(s)!BackendAssumption, AllAsked(s), PlacesInv(s), StringsInv(s),
           EnrichInv(s), OwnInv(s), Backend(s)!finish_entry
    PROVE  OwnInv(s)'
<1>1. /\ Scanning /\ Scanning' /\ InRow /\ scan.index \in DOMAIN samples
      /\ DOMAIN samples' = DOMAIN samples /\ samples[scan.index] \in SamplesOf(s)
      /\ samples[scan.index].pid = scan.row.pid
    BY SampleWritten
<1>2. /\ UNCHANGED <<alive, instances, scan_clock>>
      /\ phase = "finish" /\ phase' = "readdir" /\ scan'.flags = scan.flags
    BY EntryFinished
<1>3. PICK copied \in SUBSET Refreshed(s), got \in BOOLEAN :
         /\ copied = Refreshed(s)
         /\ heap' = Backend(s)!Allocated(copied, Backend(s)!CheckedText)
         /\ samples' = [samples EXCEPT ![scan.index] =
                           SampleMade(s, samples[scan.index], copied, got)]
         /\ processes' = processes \cup {RowMade(s, samples[scan.index], got)}
    BY EntryFinished DEF AllAsked
<1>4. Backend(s)!Wanted = s.texts /\ "GPU" \in scan.flags
    BY <1>1, AllWanted
<1> DEFINE x == samples[scan.index]
           y == samples'[scan.index]
           n == scan.row.instance_id
           content == Backend(s)!CheckedText
           r == RowMade(s, x, got)
<1>5. copied = s.texts \cap ({"cgroup"} \ scan.row.cached)
    BY <1>3, <1>4 DEF Refreshed
<1>6. Copying(s, copied, content)
    BY <1>3, <1>5 DEF Copying
<1>7. Allotted(copied, content)
  <2> HIDE DEF content
  <2> QED
    BY <1>1, <1>6, TextsWritten
<1>8. /\ y = SampleMade(s, x, copied, got)
      /\ y.start_ticks = n /\ y.pid = scan.row.pid
      /\ \A t \in s.texts : y.text[t].ptr =
            IF t \in copied THEN <<scan_clock, scan.row.pid, t>> ELSE x.text[t].ptr
  <2>1. y = SampleMade(s, x, copied, got)
    BY <1>1, <1>3
  <2>2. y.text = Backend(s)!WithTexts(x, copied).text /\ y.start_ticks = n /\ y.pid = x.pid
    BY <2>1 DEF SampleMade
  <2>3. copied \in SUBSET s.texts
    BY <1>5
  <2> QED
    BY <1>1, <2>1, <2>2, <2>3, PointersCopied
<1>9. /\ n \in 1 .. instances /\ instances \in Nat
      /\ scan.row.same => GpuOf(x, n)
      /\ alive[scan.row.pid] = n => \A t \in s.texts \ {"cgroup"} : TextOf(heap, x, t, n)
      /\ \A t \in scan.row.cached : scan.row.text[t] \in {0, n} /\ TextOf(heap, x, t, n)
      /\ "cgroup" \in s.texts => \/ "cgroup" \in scan.row.cached \/ scan.row.enrich
                                 \/ scan.row.text["cgroup"] = 0
      /\ scan.row.cached \subseteq s.texts
      /\ scan.row.enrich /\ alive[scan.row.pid] = n => scan.row.text["cgroup"] \in {0, n}
      /\ DOMAIN scan.row.text = s.texts
    BY <1>1, <1>2, BackendConstants
       DEF OwnInv, RowOwn, EnrichInv, PlacesInv, ScanPlaced, BackendTypes
<1>10. /\ \A t \in scan.row.cached : content[t] \in {0, n}
       /\ alive[scan.row.pid] = n => content = scan.row.text
  <2>1. CASE scan.row.enrich /\ ~Backend(s)!process_identity_pid
    <3>1. content = [scan.row.text EXCEPT !["cgroup"] = 0]
      BY <2>1 DEF Backend!CheckedText
    <3>2. alive[scan.row.pid] # n
      BY <2>1 DEF Backend!process_identity_pid, Backend!read_process_stat
    <3> QED
      BY <1>9, <3>1, <3>2
  <2>2. CASE ~(scan.row.enrich /\ ~Backend(s)!process_identity_pid)
    <3>1. content = scan.row.text
      BY <2>2 DEF Backend!CheckedText
    <3> QED
      BY <1>9, <3>1
  <2> QED
    BY <2>1, <2>2
<1>11. \A t \in s.texts : x.text[t].ptr # <<>> => heap'[x.text[t].ptr] = heap[x.text[t].ptr]
    BY OthersOwn, SMTT(20)
<1>12. /\ r.gpu_base \subseteq {n}
       /\ alive[scan.row.pid] = n => GpuOf(y, n)
    BY <1>4, <1>8, <1>9, GpuOwn, SMTT(20)
<1>13. /\ r.cached = scan.row.cached /\ r.text = content /\ r.instance_id = n
    BY DEF RowMade
<1> HIDE DEF x, y, n, content, r
<1>14. ASSUME alive[scan.row.pid] = n, NEW t \in s.texts
       PROVE  TextOf(heap', y, t, n)
  <2>1. CASE t \in copied
    <3>1. t = "cgroup" /\ t \notin scan.row.cached
      BY <1>5, <2>1
    <3>2. heap'[y.text[t].ptr] = content[t]
      BY <1>7, <1>8, <2>1 DEF Allotted
    <3>3. content[t] \in {0, n}
      BY <1>9, <1>10, <1>14, <3>1
    <3> QED
      BY <3>2, <3>3 DEF TextOf
  <2>2. CASE t \notin copied
    <3>1. TextOf(heap, x, t, n)
      BY <1>5, <1>9, <1>14, <2>2
    <3> QED
      BY <1>8, <1>11, <2>2, <3>1 DEF TextOf
  <2> QED
    BY <2>1, <2>2
<1>15. Own(s, heap', alive', y)
    BY <1>2, <1>8, <1>12, <1>14 DEF Own
<1>16. y.start_ticks <= instances'
    BY <1>2, <1>8, <1>9
<1>17. Backend(s)!RetainedOwned'
  <2>1. \A q \in processes : /\ \A t \in q.cached : q.text[t] \in {0, q.instance_id}
                             /\ q.gpu_base \subseteq {q.instance_id}
    BY DEF OwnInv, Backend!RetainedOwned
  <2>2. /\ \A t \in r.cached : r.text[t] \in {0, r.instance_id}
        /\ r.gpu_base \subseteq {r.instance_id}
    BY <1>10, <1>12, <1>13
  <2>3. processes' = processes \cup {r}
    BY <1>3 DEF r, x
  <2> QED
    BY <2>1, <2>2, <2>3 DEF Backend!RetainedOwned
<1>18. RowOwn(s)'
    BY <1>2 DEF RowOwn, InRow
<1>19. \A i \in DOMAIN samples' :
          samples'[i].start_ticks <= instances' /\ Own(s, heap', alive', samples'[i])
    BY <1>15, <1>16, OthersOwn DEF y
<1> QED
    BY <1>1, <1>2, <1>17, <1>18, <1>19, OthersOwn DEF OwnInv

(* The end of a scan keeps what it keeps.                                   *)
LEMMA OwnEnd ==
    ASSUME NEW s, Backend(s)!BackendAssumption, PlacesInv(s), StringsInv(s), OwnInv(s),
           Backend(s)!rollback \/ Backend(s)!commit
    PROVE  OwnInv(s)'
<1>1. /\ phase = "readdir" /\ phase' = "idle" /\ scan' = Backend(s)!NoScan
      /\ UNCHANGED <<alive, instances>>
    BY DEF Backend!rollback, Backend!commit
<1>2. Scanning /\ ~InRow /\ ~Scanning' /\ ~InRow'
    BY <1>1 DEF Scanning, InRow
<1>3. DOMAIN scan'.mutations = {}
  <2>1. scan'.mutations = <<>>
    BY <1>1 DEF Backend!NoScan
  <2> QED
    BY <2>1
<1>4. RowOwn(s)'
    BY <1>1 DEF RowOwn, InRow
<1>5. CASE Backend(s)!rollback
  <2>1. samples' = Backend(s)!Restored /\ processes' = {}
    BY <1>5 DEF Backend!rollback
  <2>2. /\ DOMAIN samples' = 1 .. scan.searchable
        /\ 1 .. scan.searchable \subseteq DOMAIN samples
        /\ \A i \in 1 .. scan.searchable : samples'[i] = Original(i)
    BY <1>1, <2>1, Restoring
  <2>3. ASSUME NEW i \in 1 .. scan.searchable
        PROVE  Original(i).start_ticks <= instances /\ Own(s, heap', alive, Original(i))
    <3>1. Original(i).start_ticks <= instances /\ Own(s, heap, alive, Original(i))
      BY <1>2, <2>2 DEF OwnInv, Original
    <3>2. \A t \in s.texts : Original(i).text[t].ptr # <<>> =>
             heap'[Original(i).text[t].ptr] = heap[Original(i).text[t].ptr]
      BY <1>5, RollbackFrees
    <3> QED
      BY <3>1, <3>2, OwnKept
  <2> QED
    BY <1>1, <1>2, <1>3, <1>4, <2>1, <2>2, <2>3 DEF OwnInv, Backend!RetainedOwned
<1>6. CASE Backend(s)!commit
  <2>1. samples' = Backend(s)!Compacted /\ processes' = processes
    BY <1>6 DEF Backend!commit
  <2> DEFINE K == Backend(s)!Kept
  <2>2. \A m \in DOMAIN samples' : \E i \in K : samples'[m] = samples[i]
    BY <1>1, <2>1, Compaction
  <2>3. ASSUME NEW i \in K
        PROVE  samples[i].start_ticks <= instances /\ Own(s, heap', alive, samples[i])
    <3>1. samples[i].start_ticks <= instances /\ Own(s, heap, alive, samples[i])
      BY <1>2 DEF OwnInv, Backend!Kept
    <3>2. \A t \in s.texts : samples[i].text[t].ptr # <<>> =>
             heap'[samples[i].text[t].ptr] = heap[samples[i].text[t].ptr]
      BY <1>6, CommitFrees
    <3> QED
      BY <3>1, <3>2, OwnKept
  <2> HIDE DEF K
  <2>4. \A m \in DOMAIN samples' :
           samples'[m].start_ticks <= instances /\ Own(s, heap', alive, samples'[m])
    BY <2>2, <2>3
  <2> QED
    BY <1>1, <1>2, <1>3, <1>4, <2>1, <2>4 DEF OwnInv, Backend!RetainedOwned
<1> QED
    BY <1>5, <1>6

(* What is kept of a process is its own after every step.                   *)
LEMMA OwnStep ==
    ASSUME NEW s, Backend(s)!BackendAssumption, AllAsked(s), PlacesInv(s), StringsInv(s),
           EnrichInv(s), OwnInv(s), Backend(s)!Next \/ UNCHANGED processVars
    PROVE  OwnInv(s)'
<1>1. CASE Backend(s)!enrich
  <2>1. /\ UNCHANGED <<alive, instances, samples, heap, processes>>
        /\ phase = "enrich" /\ phase' = "finish" /\ scan'.flags = scan.flags
        /\ scan'.mutations = scan.mutations /\ scan'.index = scan.index
        /\ scan'.row.pid = scan.row.pid /\ scan'.row.same = scan.row.same
        /\ scan'.row.instance_id = scan.row.instance_id
        /\ scan'.row.cached = scan.row.cached
        /\ scan'.row.enrich = scan.row.enrich
        /\ scan'.row.text =
              IF scan.row.enrich
              THEN [scan.row.text EXCEPT !["cgroup"] = Backend(s)!ReadText("cgroup")]
              ELSE scan.row.text
    BY <1>1, EnrichRead
  <2>2. Scanning /\ Scanning' /\ InRow /\ InRow'
    BY <2>1 DEF Scanning, InRow
  <2>3. /\ \A t \in scan.row.cached : scan'.row.text[t] = scan.row.text[t]
        /\ ~scan.row.enrich => scan'.row.text = scan.row.text
    <3>1. /\ scan.row.cached \subseteq DOMAIN scan.row.text
          /\ "cgroup" \in scan.row.cached => ~scan.row.enrich
      BY <2>1 DEF OwnInv, RowOwn, EnrichInv
    <3> QED
      BY <2>1, <3>1
  <2>4. RowOwn(s)'
    BY <2>1, <2>2, <2>3 DEF OwnInv, RowOwn
  <2> QED
    BY <2>1, <2>2, <2>4 DEF OwnInv, Backend!RetainedOwned
<1>2. ASSUME NEW flags \in s.flags, Backend(s)!scan_begin(flags)
      PROVE  OwnInv(s)'
  <2>1. /\ UNCHANGED <<alive, instances, samples, heap>> /\ phase = "idle"
        /\ phase' = "readdir" /\ processes' = {} /\ scan'.flags = flags
        /\ DOMAIN scan'.mutations = {}
    BY <1>2, ScanBegun
  <2>2. ~InRow /\ ~InRow'
    BY <2>1 DEF InRow
  <2> QED
    BY <2>1, <2>2 DEF OwnInv, RowOwn, Backend!RetainedOwned
<1>3. CASE Backend(s)!scan_refused \/ UNCHANGED processVars
  <2>1. /\ UNCHANGED <<alive, instances, samples, heap, scan, phase>>
        /\ processes' \in {{}, processes}
    BY <1>3 DEF Backend!scan_refused, processVars
  <2>2. Backend(s)!RetainedOwned'
    BY <2>1 DEF OwnInv, Backend!RetainedOwned
  <2> QED
    BY <2>1, <2>2 DEF OwnInv, RowOwn, Scanning, InRow
<1>4. CASE Backend(s)!lsm_process_backend_destroy
  <2>1. /\ samples' = <<>> /\ phase = "idle" /\ phase' = "destroyed"
        /\ processes' = {} /\ scan' = scan
    BY <1>4 DEF Backend!lsm_process_backend_destroy
  <2>2. DOMAIN samples' = {} /\ ~Scanning' /\ ~InRow' /\ ~Scanning
    BY <2>1 DEF Scanning, InRow
  <2>3. DOMAIN scan'.mutations = {}
    BY <2>1, <2>2 DEF PlacesInv, ScanPlaced
  <2> QED
    BY <2>1, <2>2, <2>3 DEF OwnInv, RowOwn, Backend!RetainedOwned
<1> QED
    BY <1>1, <1>2, <1>3, <1>4, OwnKernel, OwnRead, OwnMetadata, OwnFinish, OwnEnd
       DEF Backend!Next

(* There are at most as many samples as PIDs.                               *)
LEMMA SamplesFit ==
    ASSUME NEW s, Backend(s)!BackendAssumption, PlacesInv(s)
    PROVE  Len(samples) <= Backend(s)!Cardinality(s.pids)
<1> DEFINE D == 1 .. Len(samples)
           f == [i \in D |-> samples[i].pid]
<1>1. /\ DOMAIN samples = D /\ Len(samples) \in Nat
      /\ \A i \in D : samples[i].pid \in s.pids
    BY SamplesTyped DEF PlacesInv
<1>2. IsFiniteSet(D) /\ Cardinality(D) = Len(samples) /\ IsFiniteSet(s.pids)
  <2> DEFINE L == Len(samples)
  <2>1. L \in Nat
    BY <1>1
  <2> HIDE DEF L
  <2>2. IsFiniteSet(1 .. L) /\ Cardinality(1 .. L) = IF 1 > L THEN 0 ELSE L - 1 + 1
    BY <2>1, FS_Interval
  <2>3. Cardinality(1 .. L) = L
    BY <2>1, <2>2
  <2> QED
    BY <2>2, <2>3, BackendConstants DEF L
<1>3. f \in Injection(D, s.pids)
  <2>1. \A i, j \in D : samples[i].pid = samples[j].pid => i = j
    BY <1>1 DEF PlacesInv, ScanPlaced
  <2> HIDE DEF D
  <2> QED
    BY <1>1, <2>1 DEF Injection, IsInjective
<1> HIDE DEF D, f
<1>4. Cardinality(D) <= Cardinality(s.pids)
    BY <1>2, <1>3, FS_Injection
<1> QED
    BY <1>2, <1>4, BackendFinite

(* The inductive invariant of the Linux backend.                            *)
BackendInv(s) ==
    PlacesInv(s) /\ StringsInv(s) /\ TraceInv(s) /\ RowsInv(s) /\ EnrichInv(s)

(* The whole invariant of the backend holds at the start.                   *)
LEMMA BackendStart ==
    ASSUME NEW s, Backend(s)!BackendAssumption, Backend(s)!Init
    PROVE  BackendInv(s)
    BY PlacesStart, StringsStart, TraceStart, RowsStart, EnrichStart DEF BackendInv

(* Every step of a scan and of the machine keeps it.                        *)
LEMMA BackendStep ==
    ASSUME NEW s, Backend(s)!BackendAssumption, BackendInv(s),
           Backend(s)!Next \/ UNCHANGED processVars
    PROVE  BackendInv(s)'
<1>1. StringsInv(s)'
    BY StringsStep DEF BackendInv
<1> QED
    BY <1>1, PlacesStep, TraceStep, RowsStep, EnrichStep DEF BackendInv

(* The invariants say what the properties of the backend say.               *)
LEMMA BackendImplied ==
    ASSUME NEW s, Backend(s)!BackendAssumption, BackendInv(s)
    PROVE  /\ Backend(s)!TypeOK /\ Backend(s)!SamplesIndexed
           /\ Backend(s)!FailedScanLeavesNoTrace /\ Backend(s)!StringsOwned
           /\ Backend(s)!RatesShareWindow /\ Backend(s)!EnrichedOwned
<1>0. PlacesInv(s) /\ StringsInv(s) /\ TraceInv(s) /\ RowsInv(s) /\ EnrichInv(s)
    BY DEF BackendInv
<1>1. Backend(s)!TypeOK
  <2>1. ASSUME NEW i \in DOMAIN samples
        PROVE  /\ samples[i].pid \in s.pids
               /\ samples[i].start_ticks \in 0 .. MaxInstance
               /\ samples[i].text \in [s.texts -> Backend(s)!TextType]
               /\ samples[i].gpu.sampled_at \in 0 .. s.scans
    <3>1. samples[i] \in SamplesOf(s)
      BY <1>0, SamplesTyped DEF PlacesInv
    <3> QED
      BY <3>1, SampleFields
  <2>2. /\ instances \in 0 .. MaxInstance /\ MaxInstance \in Nat
        /\ alive \in [s.pids -> 0 .. MaxInstance]
        /\ scan_clock \in 0 .. s.scans /\ total_at \in 0 .. s.scans
    <3>1. /\ instances \in 0 .. MaxInstance /\ alive \in [s.pids -> 0 .. instances]
          /\ scan_clock \in 0 .. s.scans /\ total_at \in 0 .. scan_clock
          /\ MaxInstance \in Nat /\ s.scans \in Nat
      BY <1>0, BackendConstants DEF PlacesInv, BackendTypes
    <3>2. 0 .. instances \subseteq 0 .. MaxInstance
      BY <3>1
    <3> QED
      BY <3>1, <3>2
  <2>3. \A p \in DOMAIN heap : heap[p] \in 0 .. MaxInstance
    BY <1>0 DEF StringsInv
  <2> QED
    BY <1>0, <2>1, <2>2, <2>3, SamplesFit DEF Backend!TypeOK, PlacesInv, BackendTypes
<1>2. Backend(s)!SamplesIndexed
  <2>1. phase = "idle" => ~Scanning
    BY DEF Scanning
  <2> QED
    BY <1>0, <2>1 DEF Backend!SamplesIndexed, PlacesInv, ScanPlaced, RowsInv
<1>3. Backend(s)!StringsOwned
  <2>1. \A i \in DOMAIN samples : Named(s, samples[i], scan_clock)
    BY <1>0, ScanNames DEF StringsInv
  <2>2. ASSUME NEW i \in DOMAIN samples, NEW j \in DOMAIN samples,
               NEW t \in s.texts, NEW u \in s.texts,
               samples[i].text[t].ptr = samples[j].text[u].ptr,
               samples[i].text[t].ptr # <<>>
        PROVE  i = j /\ t = u
    <3>1. Sharing(s, samples[i], t, scan_clock, samples[j], u, scan_clock)
      BY <2>1, <2>2 DEF Sharing
    <3>2. samples[i].pid = samples[j].pid /\ t = u
      BY <3>1, NamesDiffer
    <3> QED
      BY <1>0, <3>2 DEF PlacesInv, ScanPlaced
  <2>3. DOMAIN heap = Backend(s)!Pointers(samples)
                         \cup Backend(s)!Pointers(Backend(s)!Befores)
    BY <1>0 DEF StringsInv, Backend!Befores
  <2> QED
    BY <2>2, <2>3 DEF Backend!StringsOwned, Backend!NULL
<1> QED
    BY <1>0, <1>1, <1>2, <1>3
       DEF TraceInv, RowsInv, EnrichInv, Backend!FailedScanLeavesNoTrace

-----------------------------------------------------------------------------
(* The Windows backend.                                                     *)

(* A sample with an instance is of that process, its account included.      *)
WinSample(x, last) ==
    /\ x = [instance |-> x.instance, of |-> x.of, at |-> x.at, io |-> x.io,
            generation |-> x.generation, account |-> x.account]
    /\ x.instance \in 0 .. last /\ x.generation \in 0 .. GenerationModulus - 1
    /\ x.account \in WindowsProcesses!Account
    /\ x.instance # 0 =>
          /\ x.of = x.instance
          /\ x.account.identity \in {2, WindowsProcesses!owner(x.instance)}

(* A row with an instance is of that process, and so is what it counts from. *)
WinRow(r, last) ==
    /\ r.instance \in 0 .. last /\ r.account \in WindowsProcesses!Account
    /\ r.instance # 0 =>
          /\ r.instance = r.of
          /\ r.account.identity \in {2, WindowsProcesses!owner(r.instance)}
          /\ \A rate \in {r.cpu, r.io} : rate # <<>> => rate.of = r.instance
    /\ r.cpu # <<>> => r.cpu.system \in {0, r.cpu.from}

WinTypes ==
    /\ created \in 0 .. MaxInstance /\ win_alive \in [ReusedPids -> 0 .. created]
    /\ DOMAIN win_samples \subseteq ReusedPids
    /\ DOMAIN win_processes \subseteq ReusedPids
    /\ win_generation \in 0 .. GenerationModulus - 1
    /\ win_scan = [at |-> win_scan.at, number |-> win_scan.number,
                   system |-> win_scan.system, listed |-> win_scan.listed]
    /\ win_scan.at \in {"idle", "rows"} /\ win_scan.number \in 1 .. MaxScans + 1
    /\ last_scan \in 1 .. MaxScans + 1 /\ system_at \in {0, last_scan}
    /\ enrich \in [at : {"idle", "open", "recheck", "done"}, pid : Nat,
                   instance : 0 .. created, of : 0 .. created]

(* Samples and rows are of their processes, and what an enrichment read is  *)
(* of the process that has the PID, if it is still that of the row.         *)
WinOwned ==
    /\ \A p \in DOMAIN win_samples : WinSample(win_samples[p], created)
    /\ \A p \in DOMAIN win_processes : WinRow(win_processes[p], created)
    /\ enrich.at \in {"open", "recheck"} =>
          enrich.pid \in ReusedPids /\ enrich.instance # 0
    /\ enrich.at = "recheck" /\ win_alive[enrich.pid] = enrich.instance
          => enrich.of = enrich.instance
    /\ enrich.at = "done" => enrich.of = enrich.instance

(* The samples a scan has come to have its number and its generation; the   *)
(* others, and those it would put back, have those of the last scan that    *)
(* succeeded.                                                               *)
WinWindow ==
    /\ win_scan.at = "idle" => \A p \in DOMAIN win_samples :
          /\ win_samples[p].at = last_scan
          /\ win_samples[p].generation = win_generation
    /\ win_scan.at = "rows" =>
          /\ DOMAIN win_scan.listed \subseteq ReusedPids
          /\ \A p \in DOMAIN win_samples :
                \/ /\ p \notin DOMAIN win_scan.listed
                   /\ win_samples[p].at = win_scan.number
                   /\ win_samples[p].generation = win_generation
                \/ /\ win_samples[p].at = last_scan
                   /\ win_samples[p].generation # win_generation
          /\ \A p \in DOMAIN win_processes :
                \A rate \in {win_processes[p].cpu, win_processes[p].io} :
                   rate # <<>> => rate.from = last_scan
          /\ win_backup.generation \in 0 .. GenerationModulus - 1
          /\ DOMAIN win_backup.samples \subseteq ReusedPids
          /\ \A p \in DOMAIN win_backup.samples :
                /\ WinSample(win_backup.samples[p], created)
                /\ win_backup.samples[p].at = last_scan
                /\ win_backup.samples[p].generation = win_backup.generation

WinInv == WinTypes /\ WinOwned /\ WinWindow

(* What is assumed of the constants of the Windows backend.                 *)
LEMMA WinConstants ==
    ASSUME WindowsProcesses!BackendAssumption
    PROVE  /\ ReusedPids \in SUBSET (Nat \ {0}) /\ IsFiniteSet(ReusedPids)
           /\ \A S : WindowsProcesses!Cardinality(S) = Cardinality(S)
           /\ MaxInstance \in Nat /\ Cardinality(ReusedPids) <= MaxInstance
           /\ MaxScans \in Nat /\ GenerationModulus \in Nat /\ GenerationModulus > 1
<1>1. \A S : /\ WindowsProcesses!IsFiniteSet(S) <=> IsFiniteSet(S)
             /\ WindowsProcesses!Cardinality(S) = Cardinality(S)
    BY DEF WindowsProcesses!IsFiniteSet, WindowsProcesses!Cardinality,
           IsFiniteSet, Cardinality
<1> QED
    BY <1>1 DEF WindowsProcesses!BackendAssumption

(* The Windows backend begins with no sample.                               *)
LEMMA WinStart ==
    ASSUME WindowsProcesses!BackendAssumption, WindowsProcesses!Init
    PROVE  WinInv
<1> DEFINE n == Cardinality(ReusedPids)
           Below(p) == {q \in ReusedPids : q < p}
<1>1. n \in Nat /\ n <= MaxInstance
    BY WinConstants, FS_CardinalityType
<1>2. ASSUME NEW p \in ReusedPids
      PROVE  Cardinality(Below(p)) \in Nat /\ 1 + Cardinality(Below(p)) <= n
  <2>1. Below(p) \in SUBSET ReusedPids /\ p \notin Below(p) /\ IsFiniteSet(ReusedPids)
    BY WinConstants
  <2> HIDE DEF Below
  <2>2. /\ IsFiniteSet(Below(p)) /\ Cardinality(Below(p)) <= n
        /\ n = Cardinality(Below(p)) => ReusedPids = Below(p)
    BY <2>1, FS_Subset
  <2>3. Cardinality(Below(p)) \in Nat
    BY <2>2, FS_CardinalityType
  <2>4. Cardinality(Below(p)) # n
    BY <2>1, <2>2
  <2> HIDE DEF n
  <2> QED
    BY <1>1, <2>2, <2>3, <2>4
<1>3. /\ win_alive = [p \in ReusedPids |-> 1 + Cardinality(Below(p))] /\ created = n
    BY WinConstants DEF WindowsProcesses!Init
<1> HIDE DEF n, Below
<1>4. win_alive \in [ReusedPids -> 0 .. created]
    BY <1>1, <1>2, <1>3
<1>5. /\ win_samples = <<>> /\ win_processes = <<>> /\ system_at \in {0, 1}
      /\ win_generation = GenerationModulus - 2 /\ last_scan = 1
      /\ win_scan = [at |-> "idle", number |-> 1, system |-> FALSE, listed |-> <<>>]
      /\ enrich = [at |-> "idle", pid |-> 0, instance |-> 0, of |-> 0]
    BY DEF WindowsProcesses!Init, WindowsProcesses!Nothing
<1>6. DOMAIN win_samples = {} /\ DOMAIN win_processes = {}
    BY <1>5
<1>7. WinTypes
    BY <1>1, <1>3, <1>4, <1>5, <1>6, WinConstants DEF WinTypes
<1> QED
    BY <1>5, <1>6, <1>7 DEF WinInv, WinOwned, WinWindow

(* A process that comes takes a number no row and no sample has.            *)
LEMMA WinMachine ==
    ASSUME WindowsProcesses!BackendAssumption, WinInv, WindowsProcesses!MachineChanges
    PROVE  WinInv'
<1>1. UNCHANGED <<win_samples, win_backup, win_generation, system_at, win_scan,
                  win_processes, enrich, last_scan>>
    BY DEF WindowsProcesses!MachineChanges
<1>2. created \in 0 .. MaxInstance /\ win_alive \in [ReusedPids -> 0 .. created]
    BY DEF WinInv, WinTypes
<1>3. /\ created' \in created .. MaxInstance /\ win_alive' \in [ReusedPids -> 0 .. created']
      /\ \A p \in ReusedPids : win_alive'[p] \in {0, win_alive[p]} \/ win_alive'[p] > created
  <2>1. PICK p \in ReusedPids :
           \/ /\ win_alive' = [win_alive EXCEPT ![p] = 0] /\ created' = created
           \/ /\ created < MaxInstance /\ created' = created + 1
              /\ win_alive' = [win_alive EXCEPT ![p] = created']
    BY DEF WindowsProcesses!MachineChanges
  <2>2. CASE win_alive' = [win_alive EXCEPT ![p] = 0] /\ created' = created
    BY <1>2, <2>2, WinConstants
  <2>3. CASE /\ created < MaxInstance /\ created' = created + 1
             /\ win_alive' = [win_alive EXCEPT ![p] = created']
    BY <1>2, <2>3, WinConstants
  <2> QED
    BY <2>1, <2>2, <2>3
<1>4. 0 .. created \subseteq 0 .. created'
    BY <1>2, <1>3
<1>5. \A x : WinSample(x, created) => WinSample(x, created')
    BY <1>4 DEF WinSample
<1>6. \A r : WinRow(r, created) => WinRow(r, created')
    BY <1>4 DEF WinRow
<1>7. enrich.at = "recheck" /\ win_alive'[enrich.pid] = enrich.instance
         => win_alive[enrich.pid] = enrich.instance
    BY <1>2, <1>3 DEF WinInv, WinTypes, WinOwned
<1>8. WinTypes'
  <2>1. created' \in 0 .. MaxInstance
    BY <1>2, <1>3, WinConstants
  <2>2. enrich \in [at : {"idle", "open", "recheck", "done"}, pid : Nat,
                    instance : 0 .. created', of : 0 .. created']
    BY <1>4 DEF WinInv, WinTypes
  <2> QED
    BY <1>1, <1>3, <2>1, <2>2 DEF WinInv, WinTypes
<1>9. WinOwned'
    BY <1>1, <1>5, <1>6, <1>7 DEF WinInv, WinOwned
<1>10. WinWindow'
    BY <1>1, <1>5 DEF WinInv, WinWindow
<1> QED
    BY <1>8, <1>9, <1>10 DEF WinInv

(* The generation of a new scan is no sample's, also when it wraps.         *)
LEMMA WinBegin ==
    ASSUME WindowsProcesses!BackendAssumption, WinInv, WindowsProcesses!BeginScan
    PROVE  WinInv'
<1>1. /\ win_scan.at = "idle" /\ win_scan.number <= MaxScans /\ win_processes' = <<>>
      /\ UNCHANGED <<win_alive, created, system_at, enrich, last_scan>>
    BY DEF WindowsProcesses!BeginScan, WindowsProcesses!Nothing
<1>2. /\ win_scan.number \in 1 .. MaxScans + 1 /\ MaxScans \in Nat
      /\ DOMAIN win_processes' = {}
    BY <1>1, WinConstants DEF WinInv, WinTypes
<1>3. win_scan.number + 1 \in 1 .. MaxScans + 1
    BY <1>1, <1>2
<1>4. CASE /\ win_scan' = [win_scan EXCEPT !.number = @ + 1]
           /\ UNCHANGED <<win_samples, win_backup, win_generation>>
  <2>1. win_scan' = [at |-> "idle", number |-> win_scan.number + 1,
                     system |-> win_scan.system, listed |-> win_scan.listed]
    BY <1>1, <1>4 DEF WinInv, WinTypes
  <2>2. WinTypes'
    BY <1>1, <1>2, <1>3, <1>4, <2>1 DEF WinInv, WinTypes
  <2>3. WinOwned'
    BY <1>1, <1>2, <1>4 DEF WinInv, WinOwned
  <2>4. WinWindow'
    BY <1>1, <1>4, <2>1 DEF WinInv, WinWindow
  <2> QED
    BY <2>2, <2>3, <2>4 DEF WinInv
<1>5. CASE ~(/\ win_scan' = [win_scan EXCEPT !.number = @ + 1]
             /\ UNCHANGED <<win_samples, win_backup, win_generation>>)
  <2> DEFINE n == (win_generation + 1) % GenerationModulus
             L == [p \in {q \in ReusedPids : win_alive[q] # 0} |-> win_alive[p]]
  <2>1. /\ win_backup' = [samples |-> win_samples, generation |-> win_generation]
        /\ win_generation' = IF n = 0 THEN 1 ELSE n
        /\ win_samples' = IF n # 0 THEN win_samples
                          ELSE [p \in DOMAIN win_samples |->
                                   [win_samples[p] EXCEPT !.generation = 0]]
        /\ \E read \in BOOLEAN :
              win_scan' = [at |-> "rows", number |-> win_scan.number + 1,
                           system |-> read, listed |-> L]
    BY <1>5 DEF WindowsProcesses!BeginScan
  <2>2. /\ win_scan'.at = "rows" /\ win_scan'.number = win_scan.number + 1
        /\ win_scan'.listed = L
        /\ win_scan' = [at |-> win_scan'.at, number |-> win_scan'.number,
                        system |-> win_scan'.system, listed |-> win_scan'.listed]
    <3> HIDE DEF L
    <3> QED
      BY <2>1
  <2>3. DOMAIN L \subseteq ReusedPids
    OBVIOUS
  <2>4. /\ win_generation \in 0 .. GenerationModulus - 1
        /\ GenerationModulus \in Nat /\ GenerationModulus > 1
    BY WinConstants DEF WinInv, WinTypes
  <2>5. n = 0 \/ (n = win_generation + 1 /\ n \in 1 .. GenerationModulus - 1)
    <3>1. win_generation + 1 < GenerationModulus \/ win_generation + 1 = GenerationModulus
      BY <2>4
    <3>2. CASE win_generation + 1 < GenerationModulus
      BY <2>4, <3>2
    <3>3. CASE win_generation + 1 = GenerationModulus
      BY <2>4, <3>3
    <3> QED
      BY <3>1, <3>2, <3>3
  <2> HIDE DEF n, L
  <2>6. win_generation' \in 0 .. GenerationModulus - 1
    BY <2>1, <2>4, <2>5
  <2>7. /\ DOMAIN win_samples' = DOMAIN win_samples
        /\ \A p \in DOMAIN win_samples :
              /\ WinSample(win_samples'[p], created)
              /\ win_samples'[p].at = win_samples[p].at
              /\ win_samples'[p].generation # win_generation'
    <3>1. \A p \in DOMAIN win_samples :
             /\ WinSample(win_samples[p], created)
             /\ win_samples[p].generation = win_generation
      BY <1>1 DEF WinInv, WinOwned, WinWindow
    <3>2. CASE n # 0
      <4>1. win_samples' = win_samples /\ win_generation' = win_generation + 1
        BY <2>1, <2>5, <3>2
      <4>2. win_generation # win_generation + 1
        BY <2>4
      <4> QED
        BY <3>1, <4>1, <4>2
    <3>3. CASE n = 0
      <4>1. /\ DOMAIN win_samples' = DOMAIN win_samples /\ win_generation' = 1
            /\ \A p \in DOMAIN win_samples :
                  win_samples'[p] = [win_samples[p] EXCEPT !.generation = 0]
        BY <2>1, <3>3
      <4>2. ASSUME NEW p \in DOMAIN win_samples
            PROVE  /\ WinSample(win_samples'[p], created)
                   /\ win_samples'[p].at = win_samples[p].at
                   /\ win_samples'[p].generation # 1
        <5> DEFINE x == win_samples[p]
                   y == win_samples'[p]
        <5>1. y = [instance |-> x.instance, of |-> x.of, at |-> x.at, io |-> x.io,
                   generation |-> 0, account |-> x.account]
          BY <3>1, <4>1 DEF WinSample
        <5> HIDE DEF x, y
        <5>2. /\ y.generation = 0 /\ y.at = x.at /\ y.instance = x.instance
              /\ y.of = x.of /\ y.account = x.account
          BY <5>1
        <5>3. WinSample(x, created)
          BY <3>1 DEF x
        <5>4. 0 \in 0 .. GenerationModulus - 1
          BY <2>4
        <5>5. WinSample(y, created)
          BY <5>1, <5>2, <5>3, <5>4 DEF WinSample
        <5> QED
          BY <5>2, <5>5 DEF x, y
      <4> QED
        BY <4>1, <4>2
    <3> QED
      BY <3>2, <3>3
  <2>8. WinTypes'
    BY <1>1, <1>2, <1>3, <2>2, <2>6, <2>7 DEF WinInv, WinTypes
  <2>9. WinOwned'
    BY <1>1, <1>2, <2>7 DEF WinInv, WinOwned
  <2>10. WinWindow'
    <3>1. /\ win_backup'.samples = win_samples /\ win_backup'.generation = win_generation
      BY <2>1
    <3>2. \A p \in DOMAIN win_samples : win_samples[p].at = last_scan
      BY <1>1 DEF WinInv, WinWindow
    <3>3. /\ \A p \in DOMAIN win_samples : WinSample(win_samples[p], created)
          /\ \A p \in DOMAIN win_samples : win_samples[p].generation = win_generation
          /\ DOMAIN win_samples \subseteq ReusedPids
      BY <1>1 DEF WinInv, WinOwned, WinWindow, WinTypes
    <3> QED
      BY <1>1, <1>2, <2>2, <2>3, <2>4, <2>7, <3>1, <3>2, <3>3 DEF WinWindow
  <2> QED
    BY <2>8, <2>9, <2>10 DEF WinInv
<1> QED
    BY <1>4, <1>5

(* What the end of a scan that failed puts back.                            *)
LEMMA WinFails ==
    ASSUME WindowsProcesses!BackendAssumption, WinInv, win_scan.at = "rows",
           WindowsProcesses!ScanFails, UNCHANGED <<win_alive, created, enrich>>
    PROVE  WinInv'
<1>1. /\ win_samples' = win_backup.samples /\ win_generation' = win_backup.generation
      /\ win_processes' = <<>> /\ UNCHANGED <<system_at, last_scan>>
    BY DEF WindowsProcesses!ScanFails, WindowsProcesses!Nothing
<1>2. win_scan' = [at |-> "idle", number |-> win_scan.number, system |-> FALSE,
                   listed |-> <<>>]
    BY DEF WindowsProcesses!ScanFails, WindowsProcesses!Nothing, WinInv, WinTypes
<1>3. /\ DOMAIN win_processes' = {} /\ win_scan'.at = "idle"
      /\ win_scan'.number = win_scan.number
      /\ win_scan' = [at |-> win_scan'.at, number |-> win_scan'.number,
                      system |-> win_scan'.system, listed |-> win_scan'.listed]
    BY <1>1, <1>2
<1>4. WinTypes'
    BY <1>1, <1>3 DEF WinInv, WinTypes, WinWindow
<1>5. WinOwned'
    BY <1>1, <1>3 DEF WinInv, WinOwned, WinWindow
<1>6. WinWindow'
    BY <1>1, <1>3 DEF WinInv, WinWindow
<1> QED
    BY <1>4, <1>5, <1>6 DEF WinInv

(* What an entry adds: a sample of this scan, and a row that counts from    *)
(* the last scan that succeeded.                                            *)
WinMade(x, r) ==
    /\ WinSample(x, created) /\ x.at = win_scan.number /\ x.generation = win_generation
    /\ WinRow(r, created)
    /\ \A rate \in {r.cpu, r.io} : rate # <<>> => rate.from = last_scan

(* fill_process_metrics makes such a sample and such a row.                 *)
LEMMA WinMetrics ==
    ASSUME WindowsProcesses!BackendAssumption, WinInv, win_scan.at = "rows",
           NEW p \in DOMAIN win_scan.listed, win_alive[p] # 0, p \in ReusedPids,
           NEW times \in BOOLEAN, NEW io \in BOOLEAN, NEW ask \in BOOLEAN,
           NEW found \in BOOLEAN,
           WindowsProcesses!populate_process_metrics(p, win_alive[p], times, io, ask, found)
    PROVE  \E x, r : /\ WinMade(x, r)
                     /\ win_samples' = WindowsProcesses!With(win_samples, p, x)
                     /\ win_processes' = WindowsProcesses!With(win_processes, p, r)
<1> DEFINE n == win_alive[p]
           old == WindowsProcesses!find_or_create_sample(p)
           shown == IF times THEN n ELSE 0
           same == old.instance # 0 /\ old.instance = shown
           kept == same /\ old.account.identity # 2
           asked == WindowsProcesses!populate_process_account(n, ask, found)
           account == IF kept /\ old.account.named THEN old.account
                      ELSE IF kept /\ asked.identity = 2 THEN old.account
                      ELSE asked
           cpu == IF same /\ win_scan.system
                  THEN [of |-> old.of, from |-> old.at, system |-> system_at]
                  ELSE <<>>
           drives_read == IF same /\ io /\ old.io
                          THEN [of |-> old.of, from |-> old.at] ELSE <<>>
           r == [name |-> win_scan.listed[p], instance |-> shown, of |-> n,
                 account |-> account, cpu |-> cpu, io |-> drives_read]
           x == [instance |-> shown, of |-> n, at |-> win_scan.number, io |-> io,
                 generation |-> win_generation, account |-> account]
<1>1. /\ win_processes' = WindowsProcesses!With(win_processes, p, r)
      /\ win_samples' = WindowsProcesses!With(win_samples, p, x)
    BY DEF WindowsProcesses!populate_process_metrics, WindowsProcesses!Nothing
<1>2. /\ n \in 1 .. created /\ created \in Nat /\ GenerationModulus \in Nat
      /\ win_generation \in 0 .. GenerationModulus - 1 /\ GenerationModulus > 1
    BY WinConstants DEF WinInv, WinTypes
<1>3. /\ WinSample(old, created) \/ old.instance = 0
      /\ same => old.at = last_scan
  <2>1. CASE p \in DOMAIN win_samples
    <3>1. old = win_samples[p]
      BY <2>1 DEF WindowsProcesses!find_or_create_sample
    <3> QED
      BY <2>1, <3>1 DEF WinInv, WinOwned, WinWindow
  <2>2. CASE p \notin DOMAIN win_samples
    <3>1. old = WindowsProcesses!NoSample
      BY <2>2 DEF WindowsProcesses!find_or_create_sample
    <3> QED
      BY <3>1 DEF WindowsProcesses!NoSample
  <2> QED
    BY <2>1, <2>2
<1> HIDE DEF old, n
<1>4. /\ asked \in WindowsProcesses!Account
      /\ asked.identity \in {2, WindowsProcesses!owner(n)}
  <2>1. n % 2 \in {0, 1}
    BY <1>2
  <2>2. CASE ~ask
    BY <2>2 DEF WindowsProcesses!populate_process_account, WindowsProcesses!NoAccount,
                WindowsProcesses!Account
  <2>3. CASE ask
    <3> DEFINE named == found \/ WindowsProcesses!owner(n) \in accounts
    <3>1. asked = [identity |-> WindowsProcesses!owner(n), named |-> named]
      BY <2>3 DEF WindowsProcesses!populate_process_account
    <3>2. named \in BOOLEAN
      OBVIOUS
    <3> HIDE DEF named, asked
    <3> QED
      BY <2>1, <3>1, <3>2 DEF WindowsProcesses!Account, WindowsProcesses!owner
  <2> QED
    BY <2>2, <2>3
<1> HIDE DEF asked
<1>5. same => /\ old.of = shown /\ old.account \in WindowsProcesses!Account
              /\ old.account.identity \in {2, WindowsProcesses!owner(shown)}
    BY <1>3 DEF WinSample
<1>6. /\ account \in WindowsProcesses!Account
      /\ shown # 0 => /\ shown = n
                      /\ account.identity \in {2, WindowsProcesses!owner(shown)}
    BY <1>4, <1>5
<1>7. shown \in 0 .. created
    BY <1>2
<1>8. /\ cpu # <<>> => /\ same /\ cpu = [of |-> old.of, from |-> old.at, system |-> system_at]
      /\ drives_read # <<>> => /\ same /\ drives_read = [of |-> old.of, from |-> old.at]
    OBVIOUS
<1>9. same => shown # 0
    OBVIOUS
<1> HIDE DEF account, shown, same, cpu, drives_read
<1>10. /\ cpu # <<>> => /\ cpu.of = shown /\ cpu.from = last_scan
                        /\ cpu.system \in {0, cpu.from}
       /\ drives_read # <<>> => drives_read.of = shown /\ drives_read.from = last_scan
  <2>1. system_at \in {0, last_scan}
    BY DEF WinInv, WinTypes
  <2> QED
    BY <1>3, <1>5, <1>8, <2>1
<1>11. /\ r.instance = shown /\ r.of = n /\ r.account = account /\ r.cpu = cpu
       /\ r.io = drives_read
       /\ x.instance = shown /\ x.of = n /\ x.at = win_scan.number /\ x.account = account
       /\ x.generation = win_generation
       /\ x = [instance |-> x.instance, of |-> x.of, at |-> x.at, io |-> x.io,
               generation |-> x.generation, account |-> x.account]
    OBVIOUS
<1> HIDE DEF r, x
<1>12. WinMade(x, r)
    BY <1>2, <1>6, <1>7, <1>10, <1>11 DEF WinMade, WinSample, WinRow
<1> QED
    BY <1>1, <1>12

(* An entry is read, or there is no memory for it.                          *)
LEMMA WinRead ==
    ASSUME WindowsProcesses!BackendAssumption, WinInv, NEW p \in ReusedPids,
           WindowsProcesses!ReadEntry(p)
    PROVE  WinInv'
<1>1. /\ win_scan.at = "rows" /\ p \in DOMAIN win_scan.listed
      /\ UNCHANGED <<win_alive, created, enrich>>
    BY DEF WindowsProcesses!ReadEntry
<1>2. CASE WindowsProcesses!ScanFails
    BY <1>1, <1>2, WinFails
<1>3. CASE ~WindowsProcesses!ScanFails
  <2> DEFINE r0 == [name |-> win_scan.listed[p], instance |-> 0, of |-> 0,
                    account |-> WindowsProcesses!NoAccount, cpu |-> <<>>, io |-> <<>>]
  <2>1. /\ UNCHANGED <<win_backup, win_generation, system_at, last_scan>>
        /\ win_scan' = [win_scan EXCEPT
                           !.listed = WindowsProcesses!Without(win_scan.listed, p)]
        /\ \/ /\ win_alive[p] # 0
              /\ \E times, io, ask, found \in BOOLEAN :
                   WindowsProcesses!populate_process_metrics(p, win_alive[p], times, io,
                                                             ask, found)
           \/ /\ win_processes' = WindowsProcesses!With(win_processes, p, r0)
              /\ win_samples' = win_samples
    BY <1>3 DEF WindowsProcesses!ReadEntry, WindowsProcesses!Nothing
  <2>2. PICK x, r : /\ WinMade(x, r) \/ (WinRow(r, created) /\ r.cpu = <<>> /\ r.io = <<>>)
                    /\ win_processes' = WindowsProcesses!With(win_processes, p, r)
                    /\ \/ WinMade(x, r)
                          /\ win_samples' = WindowsProcesses!With(win_samples, p, x)
                       \/ win_samples' = win_samples
    <3>1. CASE /\ win_alive[p] # 0
               /\ \E times, io, ask, found \in BOOLEAN :
                    WindowsProcesses!populate_process_metrics(p, win_alive[p], times, io,
                                                              ask, found)
      <4>1. PICK times \in BOOLEAN, io \in BOOLEAN, ask \in BOOLEAN, found \in BOOLEAN :
               WindowsProcesses!populate_process_metrics(p, win_alive[p], times, io,
                                                         ask, found)
        BY <3>1
      <4>2. \E x, r : /\ WinMade(x, r)
                      /\ win_samples' = WindowsProcesses!With(win_samples, p, x)
                      /\ win_processes' = WindowsProcesses!With(win_processes, p, r)
        BY <1>1, <3>1, <4>1, WinMetrics
      <4> QED
        BY <4>2
    <3>2. CASE /\ win_processes' = WindowsProcesses!With(win_processes, p, r0)
               /\ win_samples' = win_samples
      <4>1. created \in Nat
        BY WinConstants DEF WinInv, WinTypes
      <4>2. WinRow(r0, created) /\ r0.cpu = <<>> /\ r0.io = <<>>
        BY <4>1 DEF WinRow, WindowsProcesses!NoAccount, WindowsProcesses!Account
      <4> QED
        BY <3>2, <4>2
    <3> QED
      BY <2>1, <3>1, <3>2
  <2> DEFINE L == WindowsProcesses!Without(win_scan.listed, p)
  <2>3. DOMAIN L = DOMAIN win_scan.listed \ {p}
    BY DEF WindowsProcesses!Without
  <2> HIDE DEF L
  <2>4. /\ win_scan' = [at |-> "rows", number |-> win_scan.number,
                        system |-> win_scan.system, listed |-> L]
    BY <1>1, <2>1 DEF WinInv, WinTypes, L
  <2>5. /\ win_scan'.at = "rows" /\ win_scan'.number = win_scan.number
        /\ win_scan'.listed = L
        /\ win_scan' = [at |-> win_scan'.at, number |-> win_scan'.number,
                        system |-> win_scan'.system, listed |-> win_scan'.listed]
    BY <2>4
  <2>6. /\ DOMAIN win_processes' = DOMAIN win_processes \cup {p}
        /\ \A q \in DOMAIN win_processes' : win_processes'[q] =
              IF q = p THEN r ELSE win_processes[q]
    BY <2>2 DEF WindowsProcesses!With
  <2>7. /\ WinRow(r, created)
        /\ \A rate \in {r.cpu, r.io} : rate # <<>> => rate.from = last_scan
    BY <2>2 DEF WinMade
  <2>8. \A q \in DOMAIN win_samples' :
           \/ q \in DOMAIN win_samples /\ win_samples'[q] = win_samples[q]
           \/ /\ q = p /\ WinSample(win_samples'[q], created)
              /\ win_samples'[q].at = win_scan.number
              /\ win_samples'[q].generation = win_generation
    BY <2>2 DEF WindowsProcesses!With, WinMade
  <2>9. WinTypes'
    BY <1>1, <2>1, <2>5, <2>6, <2>8 DEF WinInv, WinTypes
  <2>10. WinOwned'
    BY <1>1, <2>6, <2>7, <2>8 DEF WinInv, WinOwned
  <2>11. WinWindow'
    BY <1>1, <2>1, <2>3, <2>5, <2>6, <2>7, <2>8 DEF WinInv, WinWindow
  <2> QED
    BY <2>9, <2>10, <2>11 DEF WinInv
<1> QED
    BY <1>2, <1>3

(* A scan that succeeds keeps the samples it has come to.                   *)
LEMMA WinEnd ==
    ASSUME WindowsProcesses!BackendAssumption, WinInv, WindowsProcesses!EndScan
    PROVE  WinInv'
<1>1. /\ win_scan.at = "rows" /\ win_scan.listed = <<>>
      /\ UNCHANGED <<win_alive, created, enrich>>
    BY DEF WindowsProcesses!EndScan, WindowsProcesses!Nothing
<1>2. CASE WindowsProcesses!ScanFails
    BY <1>1, <1>2, WinFails
<1>3. CASE ~WindowsProcesses!ScanFails
  <2>1. /\ win_samples' = WindowsProcesses!prune_process_samples
        /\ system_at' = IF win_scan.system THEN win_scan.number ELSE 0
        /\ last_scan' = win_scan.number
        /\ win_scan' = [win_scan EXCEPT !.at = "idle", !.system = FALSE]
        /\ UNCHANGED <<win_generation, win_processes>>
    BY <1>3 DEF WindowsProcesses!EndScan
  <2>2. /\ DOMAIN win_samples' =
              {q \in DOMAIN win_samples : win_samples[q].generation = win_generation}
        /\ \A q \in DOMAIN win_samples' : win_samples'[q] = win_samples[q]
    BY <2>1 DEF WindowsProcesses!prune_process_samples
  <2>3. win_scan' = [at |-> "idle", number |-> win_scan.number, system |-> FALSE,
                     listed |-> win_scan.listed]
    BY <2>1 DEF WinInv, WinTypes
  <2>4. /\ win_scan'.at = "idle" /\ win_scan'.number = win_scan.number
        /\ win_scan' = [at |-> win_scan'.at, number |-> win_scan'.number,
                        system |-> win_scan'.system, listed |-> win_scan'.listed]
    BY <2>3
  <2>5. WinTypes'
    BY <1>1, <2>1, <2>2, <2>4 DEF WinInv, WinTypes
  <2>6. WinOwned'
    BY <1>1, <2>1, <2>2 DEF WinInv, WinOwned
  <2>7. WinWindow'
    BY <1>1, <2>1, <2>2, <2>4 DEF WinInv, WinWindow
  <2> QED
    BY <2>5, <2>6, <2>7 DEF WinInv
<1> QED
    BY <1>2, <1>3

(* An enrichment answers for the process of the row, or not at all.         *)
LEMMA WinEnrich ==
    ASSUME WindowsProcesses!BackendAssumption, WinInv,
           \/ WindowsProcesses!EnrichBegins \/ WindowsProcesses!EnrichReads
           \/ WindowsProcesses!EnrichEnds \/ WindowsProcesses!EnrichUsed
    PROVE  WinInv'
<1>1. UNCHANGED <<win_alive, created, win_samples, win_backup, accounts, win_generation,
                  system_at, win_scan, win_processes, last_scan>>
    BY DEF WindowsProcesses!EnrichBegins, WindowsProcesses!EnrichReads,
           WindowsProcesses!EnrichEnds, WindowsProcesses!EnrichUsed
<1>2. /\ created \in 0 .. MaxInstance /\ MaxInstance \in Nat /\ ReusedPids \subseteq Nat
      /\ win_alive \in [ReusedPids -> 0 .. created]
      /\ enrich \in [at : {"idle", "open", "recheck", "done"}, pid : Nat,
                     instance : 0 .. created, of : 0 .. created]
    BY WinConstants DEF WinInv, WinTypes
<1>3. /\ enrich' \in [at : {"idle", "open", "recheck", "done"}, pid : Nat,
                      instance : 0 .. created, of : 0 .. created]
      /\ enrich'.at \in {"open", "recheck"} =>
            enrich'.pid \in ReusedPids /\ enrich'.instance # 0
      /\ enrich'.at = "recheck" /\ win_alive[enrich'.pid] = enrich'.instance
            => enrich'.of = enrich'.instance
      /\ enrich'.at = "done" => enrich'.of = enrich'.instance
  <2>1. CASE WindowsProcesses!EnrichBegins
    <3>1. PICK p \in DOMAIN win_processes :
             /\ win_processes[p].instance # 0
             /\ enrich' = [at |-> "open", pid |-> p,
                           instance |-> win_processes[p].instance, of |-> 0]
      BY <2>1 DEF WindowsProcesses!EnrichBegins
    <3> DEFINE n == win_processes[p].instance
    <3>2. p \in ReusedPids /\ p \in Nat /\ n \in 0 .. created /\ n # 0
      BY <1>2, <3>1 DEF WinInv, WinTypes, WinOwned, WinRow
    <3> HIDE DEF n
    <3>3. enrich' = [at |-> "open", pid |-> p, instance |-> n, of |-> 0]
      BY <3>1 DEF n
    <3> QED
      BY <1>2, <3>2, <3>3
  <2>2. CASE WindowsProcesses!EnrichReads
    <3>1. /\ enrich.at = "open"
          /\ enrich' = IF win_alive[enrich.pid] = 0 THEN [enrich EXCEPT !.at = "idle"]
                       ELSE [enrich EXCEPT !.at = "recheck", !.of = win_alive[enrich.pid]]
      BY <2>2 DEF WindowsProcesses!EnrichReads
    <3>2. enrich.pid \in ReusedPids /\ enrich.instance # 0
      BY <3>1 DEF WinInv, WinOwned
    <3> QED
      BY <1>2, <3>1, <3>2
  <2>3. CASE WindowsProcesses!EnrichEnds
    <3>1. /\ enrich.at = "recheck"
          /\ enrich' = [enrich EXCEPT !.at = IF win_alive[enrich.pid] = enrich.instance
                                             THEN "done" ELSE "idle"]
      BY <2>3 DEF WindowsProcesses!EnrichEnds, WindowsProcesses!EnrichMatches
    <3>2. win_alive[enrich.pid] = enrich.instance => enrich.of = enrich.instance
      BY <3>1 DEF WinInv, WinOwned
    <3> QED
      BY <1>2, <3>1, <3>2
  <2>4. CASE WindowsProcesses!EnrichUsed
    <3>1. enrich' = [at |-> "idle", pid |-> 0, instance |-> 0, of |-> 0]
      BY <2>4 DEF WindowsProcesses!EnrichUsed
    <3> QED
      BY <1>2, <3>1
  <2> QED
    BY <2>1, <2>2, <2>3, <2>4
<1>4. WinTypes'
    BY <1>1, <1>3 DEF WinInv, WinTypes
<1>5. WinOwned'
    BY <1>1, <1>3 DEF WinInv, WinOwned
<1>6. WinWindow'
    BY <1>1 DEF WinInv, WinWindow
<1> QED
    BY <1>4, <1>5, <1>6 DEF WinInv

(* Every step of a Windows scan keeps the invariant.                        *)
LEMMA WinStep ==
    ASSUME WindowsProcesses!BackendAssumption, WinInv,
           WindowsProcesses!Next \/ UNCHANGED winProcessVars
    PROVE  WinInv'
<1>1. CASE UNCHANGED winProcessVars
    BY <1>1 DEF winProcessVars, WinInv, WinTypes, WinOwned, WinWindow
<1> QED
    BY <1>1, WinMachine, WinBegin, WinRead, WinEnd, WinEnrich DEF WindowsProcesses!Next

(* The invariant is what the rows and the samples promise.                  *)
LEMMA WinImplied ==
    ASSUME WindowsProcesses!BackendAssumption, WinInv
    PROVE  /\ WindowsProcesses!TypeOK /\ WindowsProcesses!RatesShareWindow
           /\ WindowsProcesses!RowsOwned
<1>1. WindowsProcesses!TypeOK
  <2>1. /\ created \in 0 .. MaxInstance /\ MaxInstance \in Nat
        /\ MaxScans \in Nat /\ last_scan \in 1 .. MaxScans + 1
        /\ system_at \in {0, last_scan}
    BY WinConstants DEF WinInv, WinTypes
  <2>2. 0 .. created \subseteq 0 .. MaxInstance /\ system_at \in 0 .. MaxScans + 1
    BY <2>1
  <2> QED
    BY <2>2 DEF WindowsProcesses!TypeOK, WinInv, WinTypes, WinOwned, WinSample, WinRow
<1>2. WindowsProcesses!RatesShareWindow
  <2>1. /\ \A p \in DOMAIN win_processes :
              win_processes[p].cpu # <<>> =>
                 win_processes[p].cpu.system \in {0, win_processes[p].cpu.from}
    BY DEF WinInv, WinOwned, WinRow
  <2> QED
    BY <2>1 DEF WindowsProcesses!RatesShareWindow, WindowsProcesses!Nothing, WinInv, WinWindow
<1>3. WindowsProcesses!RowsOwned
    BY DEF WindowsProcesses!RowsOwned, WindowsProcesses!Nothing, WinInv, WinOwned, WinRow
<1> QED
    BY <1>1, <1>2, <1>3
=============================================================================
