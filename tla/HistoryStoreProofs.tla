-------------------------- MODULE HistoryStoreProofs --------------------------
(***************************************************************************)
(* Proofs about the application history, for every number of observations, *)
(* resets and sessions.                                                    *)
(*                                                                         *)
(* The dirty flag is cleared by comparing generations, so its honesty      *)
(* rests on what a generation stands for: a request of the present         *)
(* generation holds the present table, and the file holds the table of     *)
(* latest_written.  An older writer is harmless because under the lock it  *)
(* is newer than latest_written, and because every older table is          *)
(* contained in the present one but for what the user has reset and what   *)
(* the retention limit has evicted.  Both need that nothing is written     *)
(* before the load has been merged, and that the generation does not       *)
(* saturate.  Eviction is final: once MaxEntries rows seen later fill a    *)
(* table, whatever is added to it and trimmed leaves such a table.         *)
(***************************************************************************)
EXTENDS HistoryStore, FiniteSetTheorems, TLAPS

Pending == start_up = "pending"
Saving == main \in {"save", "destroy"}
Busy(w) == writer[w] # "idle"

(* Every change of the table counts, and stays below the limit.             *)
ChangesCounted ==
    /\ history_mutation_generation <=
           observations + resets + (IF Pending THEN 0 ELSE 1)
    /\ \A o \in Observed :
           (\/ o \in table \/ o \in file \/ o \in loaded \/ o \in cleared
            \/ \E w \in Writers : o \in request[w].entries) => o <= observations

(* Nothing is written, nor the flag cleared, before the load is merged.     *)
LoadFirst ==
    /\ main = "start" => /\ Pending /\ load = "none" /\ ~history_dirty
                         /\ ~coordinator
    /\ Pending => /\ ~Saving /\ latest_written = 0
                  /\ \A w \in Writers : ~Busy(w)
                  /\ ~history_dirty =>
                         table = {} /\ history_mutation_generation = 0
    /\ main = "idle" => (history_load_pending <=> Pending)
    /\ load # "none" => Pending
    /\ load = "failed" => loaded = {}
    /\ load = "done" =>
           /\ loaded \in SUBSET file
           /\ \A o \in file : \/ o \in loaded \/ o \in damaged
                              \/ Evicted(o, loaded)
    /\ main = "save" => ~history_load_pending

(* Which writer is at work, and with what.                                  *)
WritersOwned ==
    /\ Busy("main") <=> Saving
    /\ Saving => /\ history_dirty
                 /\ request["main"].generation = history_mutation_generation
                 /\ request["main"].entries = table
    /\ main = "save" => ~coordinator
    /\ ~coordinator => /\ ~Busy("task") /\ latest_written = 0
                       /\ ~history_save_pending
                       /\ \A w \in Writers : writer[w] # "lock"
    /\ main = "idle" => (history_save_pending <=> Busy("task"))
    /\ \A w \in Writers : Busy(w) =>
           request[w].generation \in 1 .. history_mutation_generation
    /\ Busy("task") =>
           /\ \A o \in request["task"].entries :
                  o \in table \/ o \in cleared \/ Evicted(o, table)
           /\ request["task"].generation = history_mutation_generation =>
                  request["task"].entries = table
    /\ main = "idle" /\ Busy("task") =>
           latest_scheduled = request["task"].generation
    /\ history_dirty => history_mutation_generation >= 1

(* What a writer under the lock, or one that has returned, can tell.        *)
LockProtects ==
    /\ latest_written <= history_mutation_generation
    /\ \A w \in Writers :
         /\ coordinator /\ writer[w] = "write" =>
                write_mutex = w /\ request[w].generation > latest_written
         /\ writer[w] = "done" => outcome[w] # "none"
         /\ writer[w] = "done" /\ outcome[w] = "written" =>
                IF coordinator THEN latest_written >= request[w].generation
                               ELSE file = request[w].entries
    /\ main = "idle" /\ writer["task"] = "done" /\ outcome["task"] = "skipped" =>
           request["task"].generation <= latest_written

(* The file holds the table of latest_written, and a clear flag says that   *)
(* this is the present one.                                                 *)
FileOfGeneration ==
    /\ start_up = "merged" /\ coordinator
         /\ latest_written = history_mutation_generation => file = table
    /\ ~history_dirty /\ coordinator =>
           latest_written = history_mutation_generation
    /\ start_up = "merged" /\ ~coordinator /\ ~history_dirty => file = table

(* An observation is in a table, or was dropped from it by design.          *)
Accounted(o, entries) ==
    \/ o \in entries \/ o \in cleared \/ o \in damaged
    \/ Evicted(o, entries)

(* The file is accounted for in the table, and in what may still replace    *)
(* it, and the table keeps to the limit.                                    *)
FileContained ==
    /\ start_up = "merged" =>
        \A o \in file :
            /\ Accounted(o, table)
            /\ \A w \in Writers :
                  (/\ writer[w] \in {"check", "lock", "write"}
                   /\ coordinator => request[w].generation > latest_written) =>
                       Accounted(o, request[w].entries)
    /\ Cardinality(Rows(table)) <= MaxEntries

(* The newest generation asked for is written, on its way or remembered.    *)
RequestsRemembered ==
    /\ asked <= history_mutation_generation
    /\ main \in {"idle", "save"} /\ history_save_again =>
           history_save_pending \/ history_load_pending
    /\ main = "idle" /\ coordinator /\ ~history_save_again =>
           \/ asked <= latest_written
           \/ history_save_pending /\ request["task"].generation >= asked
           \/ ~history_save_pending /\ outcome["task"] = "failed"

HistoryInv ==
    /\ TypeOK
    /\ ChangesCounted
    /\ LoadFirst
    /\ WritersOwned
    /\ LockProtects
    /\ FileOfGeneration
    /\ FileContained
    /\ RequestsRemembered
-----------------------------------------------------------------------------
(* A table has finitely many rows.                                          *)
LEMMA RowsFinite ==
    ASSUME NEW S \in SUBSET Observed
    PROVE  /\ IsFiniteSet(Rows(S))
           /\ Cardinality(Rows(S)) \in Nat
<1>1. IsFiniteSet(S)
  <2>1. IsFiniteSet(Observed)
    BY HistoryAssumption, FS_Interval DEF Observed
  <2> QED
    BY <2>1, FS_Subset
<1> DEFINE f == [o \in S |-> Application(o)]
<1>2. f \in Surjection(S, Rows(S))
    BY DEF Surjection, Rows
<1> QED
    BY <1>1, <1>2, FS_Surjection, FS_CardinalityType

(* An empty table is within the limit.                                      *)
LEMMA NoRows == Cardinality(Rows({})) <= MaxEntries
<1>1. Rows({}) = {}
    BY DEF Rows
<1> QED
    BY <1>1, FS_EmptySet, HistoryAssumption

(* history_trim_to_limit keeps what it does not evict, and keeps the limit. *)
LEMMA TrimEvicts ==
    ASSUME NEW S \in SUBSET Observed, NEW kept \in Trimmed(S)
    PROVE  /\ \A o \in S : o \in kept \/ Evicted(o, kept)
           /\ Cardinality(Rows(kept)) <= MaxEntries
<1>1. CASE Cardinality(Rows(S)) <= MaxEntries
    BY <1>1 DEF Trimmed
<1>2. CASE ~(Cardinality(Rows(S)) <= MaxEntries)
  <2>1. /\ \A o \in S : o \in kept <=> Application(o) \in Rows(kept)
        /\ Cardinality(Rows(kept)) = MaxEntries
        /\ \A a \in Rows(S) \ Rows(kept), b \in Rows(kept) :
               SeenBefore(a, b, S)
    BY <1>2 DEF Trimmed
  <2>2. ASSUME NEW o \in S, o \notin kept, NEW b \in Rows(kept)
        PROVE  \E p \in kept : Application(p) = b /\ p > o
    <3>1. Application(o) \in Rows(S) \ Rows(kept)
      BY <2>1, <2>2 DEF Rows
    <3>2. PICK p \in S : /\ Application(p) = b
                         /\ \A q \in S : Application(q) = Application(o) => q < p
      BY <2>1, <2>2, <3>1 DEF SeenBefore
    <3>3. p \in kept /\ o < p
      BY <2>1, <2>2, <3>2
    <3> QED
      BY <3>2, <3>3, HistoryAssumption DEF Observed
  <2> QED
    BY <2>1, <2>2, HistoryAssumption DEF Evicted
<1> QED
    BY <1>1, <1>2

(* An observation evicted from a table stays evicted when the table grows   *)
(* and is trimmed again.                                                    *)
LEMMA EvictionFinal ==
    ASSUME NEW S \in SUBSET Observed, NEW T \in SUBSET S,
           NEW kept \in Trimmed(S),
           NEW o \in Observed, Evicted(o, T)
    PROVE  Evicted(o, kept)
<1>0. /\ IsFiniteSet(Rows(S)) /\ IsFiniteSet(Rows(T))
      /\ IsFiniteSet(Rows(kept))
      /\ Cardinality(Rows(S)) \in Nat
    BY RowsFinite DEF Trimmed
<1>1. /\ Rows(T) \in SUBSET Rows(S)
      /\ Cardinality(Rows(T)) = MaxEntries
      /\ \A a \in Rows(T) : \E p \in T : Application(p) = a /\ p > o
    BY DEF Evicted, Rows
<1>2. CASE Cardinality(Rows(S)) <= MaxEntries
  <2>1. kept = S
    BY <1>2 DEF Trimmed
  <2>2. Cardinality(Rows(S)) = Cardinality(Rows(T)) /\ Rows(S) = Rows(T)
    BY <1>0, <1>1, <1>2, FS_Subset, HistoryAssumption
  <2> QED
    BY <1>1, <2>1, <2>2 DEF Evicted
<1>3. CASE ~(Cardinality(Rows(S)) <= MaxEntries)
  <2>1. /\ \A q \in S : q \in kept <=> Application(q) \in Rows(kept)
        /\ Cardinality(Rows(kept)) = MaxEntries
        /\ \A a \in Rows(S) \ Rows(kept), b \in Rows(kept) :
               SeenBefore(a, b, S)
    BY <1>3 DEF Trimmed
  <2>2. ASSUME NEW b \in Rows(kept)
        PROVE  \E p \in kept : Application(p) = b /\ p > o
    <3>1. CASE b \in Rows(T)
      <4>1. PICK p \in T : Application(p) = b /\ p > o
        BY <1>1, <3>1
      <4>2. p \in kept
        BY <2>1, <2>2, <4>1
      <4> QED
        BY <4>1, <4>2
    <3>2. CASE b \notin Rows(T)
      <4>1. Rows(T) # Rows(kept)
        BY <2>2, <3>2
      <4>2. ~(Rows(T) \subseteq Rows(kept))
        BY <1>0, <1>1, <2>1, <4>1, FS_Subset
      <4>3. PICK a \in Rows(T) : a \notin Rows(kept)
        BY <4>2
      <4>4. PICK q \in T : Application(q) = a /\ q > o
        BY <1>1
      <4>5. PICK p \in S : /\ Application(p) = b
                           /\ \A r \in S : Application(r) = a => r < p
        BY <1>1, <2>1, <2>2, <4>3 DEF SeenBefore
      <4>6. q < p /\ p \in kept
        BY <2>1, <2>2, <4>4, <4>5
      <4>7. p > o
        BY <4>4, <4>6, HistoryAssumption DEF Observed
      <4> QED
        BY <4>5, <4>6, <4>7
    <3> QED
      BY <3>1, <3>2
  <2> QED
    BY <2>1, <2>2 DEF Evicted
<1> QED
    BY <1>2, <1>3

(* lsm_history_save and the requests it creates keep to their types.        *)
LEMMA WritingTyped ==
    ASSUME TypeOK, NEW w \in Writers, NEW m, StartWriting(w, m),
           m.writers \in [Writers -> WriterStates],
           m.generation \in 0 .. GenerationLimit,
           m.entries \in SUBSET Observed
    PROVE  /\ writer' \in [Writers -> WriterStates]
           /\ request' \in [Writers -> Requests]
           /\ outcome' \in [Writers -> Outcomes]
<1>1. "check" \in WriterStates /\ "none" \in Outcomes
    BY DEF WriterStates, Outcomes
<1>2. [generation |-> m.generation, entries |-> m.entries] \in Requests
    BY DEF Requests
<1> QED
    BY <1>1, <1>2 DEF StartWriting, TypeOK

(* A save, whether it starts a writer or only remembers its request.        *)
LEMMA SavingTyped ==
    ASSUME TypeOK, NEW m, lsm_history_save(m),
           m.writers \in [Writers -> WriterStates],
           m.generation \in 0 .. GenerationLimit,
           m.entries \in SUBSET Observed,
           m.again \in BOOLEAN, m.saving \in BOOLEAN
    PROVE  /\ writer' \in [Writers -> WriterStates]
           /\ request' \in [Writers -> Requests]
           /\ outcome' \in [Writers -> Outcomes]
           /\ history_save_again' \in BOOLEAN
           /\ history_save_pending' \in BOOLEAN
           /\ latest_scheduled' \in 0 .. GenerationLimit
           /\ asked' \in 0 .. GenerationLimit
           /\ main' \in MainStates
<1>1. CASE SaveNotNeeded(m)
    BY <1>1 DEF SaveNotNeeded, TypeOK
<1>2. CASE SaveDeferred(m)
    BY <1>2 DEF SaveDeferred, MarkSaveAgain, TypeOK
<1>3. CASE SaveSynchronously(m)
    BY <1>3, WritingTyped DEF SaveSynchronously, TypeOK, Writers, MainStates
<1>4. CASE SaveStarted(m)
    BY <1>4, WritingTyped DEF SaveStarted, TypeOK, Writers
<1>5. CASE SaveUnallocated(m)
    BY <1>5 DEF SaveUnallocated, TypeOK, Writers, Outcomes
<1> QED
    BY <1>1, <1>2, <1>3, <1>4, <1>5 DEF lsm_history_save

(* Every step of either thread, and every crash, keeps the invariant.       *)
LEMMA HistoryStep == HistoryInv /\ [Next]_vars => HistoryInv'
<1> SUFFICES ASSUME HistoryInv, [Next]_vars
             PROVE  HistoryInv'
    OBVIOUS
<1> USE HistoryAssumption DEF HistoryInv, TypeOK, ChangesCounted, LoadFirst,
       WritersOwned, LockProtects, FileOfGeneration, FileContained,
       RequestsRemembered, Accounted, Pending, Saving, Busy, Writers,
       WriterStates,
       Outcomes, LoadStates, MainStates, Observed, Requests, fileVars,
       modelVars, loadVars, writeVars, userVars, saveVars
<1>1. ASSUME NEW created \in BOOLEAN, history_model_initialise(created)
      PROVE  HistoryInv'
  <2>1. TypeOK'
    BY <1>1 DEF history_model_initialise
  <2>2. ChangesCounted'
    BY <1>1 DEF history_model_initialise
  <2>3. LoadFirst'
    BY <1>1 DEF history_model_initialise
  <2>4. WritersOwned'
    BY <1>1 DEF history_model_initialise
  <2>5. LockProtects'
    BY <1>1 DEF history_model_initialise
  <2>6. FileOfGeneration'
    BY <1>1 DEF history_model_initialise
  <2>7. FileContained'
    BY <1>1 DEF history_model_initialise
  <2>8. RequestsRemembered'
    BY <1>1 DEF history_model_initialise
  <2> QED
    BY <2>1, <2>2, <2>3, <2>4, <2>5, <2>6, <2>7, <2>8
<1>2. ASSUME NEW fails \in BOOLEAN, NEW unparsed \in SUBSET Rows(file),
             history_load_worker(fails, unparsed)
      PROVE  HistoryInv'
  <2>b. loaded' \in SUBSET file /\ damaged' \in SUBSET file
    BY <1>2 DEF history_load_worker, Trimmed
  <2>1. TypeOK'
    BY <1>2, <2>b DEF history_load_worker
  <2>2. ChangesCounted'
    BY <1>2, <2>b DEF history_load_worker
  <2>a. ASSUME ~fails
        PROVE  /\ loaded' \in SUBSET file
               /\ \A o \in file : \/ o \in loaded' \/ o \in damaged'
                                  \/ Evicted(o, loaded')
    <3>1. damaged' \in SUBSET file
      BY <1>2 DEF history_load_worker
    <3>2. loaded' \in Trimmed(file \ damaged')
      BY <1>2, <2>a DEF history_load_worker
    <3>3. \A o \in file \ damaged' : o \in loaded' \/ Evicted(o, loaded')
      BY <3>1, <3>2, TrimEvicts
    <3> QED
      BY <3>2, <3>3 DEF Trimmed
  <2>3. LoadFirst'
    BY <1>2, <2>a DEF history_load_worker
  <2>4. WritersOwned'
    BY <1>2 DEF history_load_worker
  <2>5. LockProtects'
    BY <1>2 DEF history_load_worker
  <2>6. FileOfGeneration'
    BY <1>2 DEF history_load_worker
  <2>7. FileContained'
    BY <1>2 DEF history_load_worker
  <2>8. RequestsRemembered'
    BY <1>2 DEF history_load_worker
  <2> QED
    BY <2>1, <2>2, <2>3, <2>4, <2>5, <2>6, <2>7, <2>8
<1>3. ASSUME NEW truncated \in BOOLEAN, history_load_complete(truncated)
      PROVE  HistoryInv'
  <2> DEFINE m == Model(table', history_mutation_generation', history_dirty',
                        FALSE, history_save_pending, FALSE, writer)
             r == [generation |-> history_mutation_generation',
                   entries |-> table']
  <2>1. /\ main = "idle" /\ Pending /\ history_load_pending
        /\ ~history_save_pending
        /\ \A w \in Writers : writer[w] = "idle"
        /\ latest_written = 0
    BY <1>3 DEF history_load_complete
  <2>2. /\ load' = "none" /\ start_up' \in {"merged", "unread"}
        /\ start_up' = "merged" =>
               \A o \in file : \/ o \in loaded \/ o \in damaged
                               \/ Evicted(o, loaded)
        /\ start_up' = "merged" /\ ~history_dirty' =>
               loaded = file /\ table' = table \cup loaded
        /\ history_load_pending' = FALSE
        /\ UNCHANGED <<fileVars, coordinator, latest_written, write_mutex,
                       loaded, damaged, userVars, session>>
    BY <1>3 DEF history_load_complete
  <2>b. /\ table' \in SUBSET (table \cup loaded)
        /\ \A o \in table \cup loaded : o \in table' \/ Evicted(o, table')
        /\ \A o \in file : Evicted(o, loaded) => Evicted(o, table')
        /\ Cardinality(Rows(table')) <= MaxEntries
    <3>1. table' \in Trimmed(table \cup loaded)
      BY <1>3 DEF history_load_complete
    <3>2. /\ table \cup loaded \in SUBSET Observed
          /\ loaded \in SUBSET (table \cup loaded)
          /\ file \in SUBSET Observed
      OBVIOUS
    <3>3. \A o \in file : Evicted(o, loaded) => Evicted(o, table')
      BY <3>1, <3>2, EvictionFinal
    <3>4. /\ \A o \in table \cup loaded : o \in table' \/ Evicted(o, table')
          /\ Cardinality(Rows(table')) <= MaxEntries
      BY <3>1, <3>2, TrimEvicts
    <3> QED
      BY <3>1, <3>3, <3>4 DEF Trimmed
  <2>3. /\ history_mutation_generation' \in 0 .. GenerationLimit
        /\ history_mutation_generation' <= observations + resets + 1
        /\ \/ /\ history_mutation_generation' = history_mutation_generation
              /\ history_dirty' = history_dirty
           \/ /\ history_mutation_generation' =
                     history_mutation_generation + 1
              /\ history_dirty' = TRUE
    BY <1>3, <2>1 DEF history_load_complete, Bumped
  <2>4. table' \in SUBSET Observed /\ history_dirty' \in BOOLEAN
    BY <2>2, <2>3, <2>b
  <2>a. /\ history_dirty \in BOOLEAN
        /\ history_mutation_generation \in Nat /\ asked \in Nat
        /\ ~history_dirty =>
               table = {} /\ history_mutation_generation = 0
        /\ history_dirty => history_mutation_generation >= 1
        /\ asked <= history_mutation_generation
        /\ ~coordinator => ~history_save_pending
        /\ coordinator /\ ~history_save_again =>
               asked = 0 \/ outcome["task"] = "failed"
    BY <2>1
  <2>0. /\ ~history_dirty => table = {} /\ history_mutation_generation = 0
        /\ ~history_dirty' => ~history_dirty
                               /\ history_mutation_generation' = 0
        /\ history_dirty' => history_mutation_generation' >= 1
        /\ history_mutation_generation <= history_mutation_generation'
    <3> HIDE DEF HistoryInv
    <3> QED
      BY <2>2, <2>3, <2>4, <2>a
  <2>5. CASE ~history_save_again /\ UNCHANGED saveVars
    <3>1. TypeOK'
      BY <2>a, <2>0, <2>1, <2>2, <2>3, <2>4, <2>b, <2>5
    <3>2. ChangesCounted'
      BY <2>a, <2>0, <2>1, <2>2, <2>3, <2>4, <2>b, <2>5
    <3>3. LoadFirst'
      BY <2>a, <2>0, <2>1, <2>2, <2>3, <2>4, <2>b, <2>5
    <3>4. WritersOwned'
      BY <2>a, <2>0, <2>1, <2>2, <2>3, <2>4, <2>b, <2>5
    <3>5. LockProtects'
      BY <2>a, <2>0, <2>1, <2>2, <2>3, <2>4, <2>b, <2>5
    <3>6. FileOfGeneration'
      <4>1. start_up' = "merged" /\ ~history_dirty' => table' = file'
        BY <2>a, <2>0, <2>2
      <4> QED
        BY <2>a, <2>0, <2>1, <2>2, <2>3, <2>4, <2>5, <4>1
    <3>7. FileContained'
      BY <2>a, <2>0, <2>1, <2>2, <2>3, <2>4, <2>b, <2>5
    <3>8. RequestsRemembered'
      <4> HIDE DEF HistoryInv
      <4> QED
        BY <2>a, <2>0, <2>1, <2>2, <2>3, <2>4, <2>b, <2>5
    <3> QED
      BY <3>1, <3>2, <3>3, <3>4, <3>5, <3>6, <3>7, <3>8
  <2>6. CASE lsm_history_save(m)
    <3>0. m.writers = writer /\ m.entries = table' /\ m.saving = FALSE
          /\ m.generation = history_mutation_generation'
          /\ m.again = FALSE /\ m.dirty = history_dirty' /\ m.loading = FALSE
      BY <2>1, Zenon DEF Model
    <3>1. TypeOK'
      <4>1. /\ writer' \in [Writers -> WriterStates]
            /\ request' \in [Writers -> Requests]
            /\ outcome' \in [Writers -> Outcomes]
            /\ history_save_again' \in BOOLEAN
            /\ history_save_pending' \in BOOLEAN
            /\ latest_scheduled' \in 0 .. GenerationLimit
            /\ asked' \in 0 .. GenerationLimit
            /\ main' \in MainStates
        <5> HIDE DEF TypeOK, m
        <5> QED
          BY <2>3, <2>4, <2>6, <3>0, SavingTyped, TypeOK DEF TypeOK
      <4> QED
        BY <2>a, <2>0, <2>1, <2>2, <2>3, <2>4, <4>1
    <3>2. CASE SaveNotNeeded(m)
      <4>a. /\ ~history_dirty' /\ writer' = writer
            /\ history_save_again' = FALSE /\ history_save_pending' = FALSE
            /\ UNCHANGED <<request, outcome, latest_scheduled, asked, main>>
        BY <3>0, <3>2 DEF SaveNotNeeded
      <4>1. ChangesCounted'
        BY <2>a, <2>0, <2>1, <2>2, <2>3, <2>4, <2>b, <3>1, <4>a
      <4>2. LoadFirst'
        BY <2>a, <2>0, <2>1, <2>2, <2>3, <2>4, <2>b, <3>1, <4>a
      <4>3. WritersOwned'
        BY <2>a, <2>0, <2>1, <2>2, <2>3, <2>4, <2>b, <3>1, <4>a
      <4>4. LockProtects'
        BY <2>a, <2>0, <2>1, <2>2, <2>3, <2>4, <2>b, <3>1, <4>a
      <4>5. FileOfGeneration'
        BY <2>a, <2>0, <2>1, <2>2, <2>3, <2>4, <2>b, <3>1, <4>a
      <4>6. FileContained'
        BY <2>a, <2>0, <2>1, <2>2, <2>3, <2>4, <2>b, <3>1, <4>a
      <4>7. RequestsRemembered'
        BY <2>a, <2>0, <2>1, <2>2, <2>3, <2>4, <2>b, <3>1, <4>a
      <4> QED
        BY <3>1, <4>1, <4>2, <4>3, <4>4, <4>5, <4>6, <4>7
    <3>3. CASE SaveSynchronously(m)
      <4>a. /\ history_dirty' /\ ~coordinator
            /\ history_save_again' = FALSE
            /\ history_save_pending' = FALSE
            /\ asked' = history_mutation_generation'
            /\ main' = "save"
            /\ latest_scheduled' = latest_scheduled
        BY <2>2, <3>0, <3>3 DEF SaveSynchronously
      <4>b. /\ writer'["main"] = "check" /\ writer'["task"] = "idle"
            /\ request'["main"].generation = history_mutation_generation'
            /\ request'["main"].entries = table'
            /\ request'["task"] = request["task"]
            /\ outcome'["task"] = outcome["task"]
        BY <2>1, <3>0, <3>3 DEF SaveSynchronously, StartWriting
      <4>1. ChangesCounted'
        BY <2>a, <2>0, <2>1, <2>2, <2>3, <2>4, <2>b, <3>1, <4>a, <4>b
      <4>2. LoadFirst'
        BY <2>a, <2>0, <2>1, <2>2, <2>3, <2>4, <2>b, <3>1, <4>a, <4>b
      <4>3. WritersOwned'
        BY <2>a, <2>0, <2>1, <2>2, <2>3, <2>4, <2>b, <3>1, <4>a, <4>b
      <4>4. LockProtects'
        BY <2>a, <2>0, <2>1, <2>2, <2>3, <2>4, <2>b, <3>1, <4>a, <4>b
      <4>5. FileOfGeneration'
        BY <2>a, <2>0, <2>1, <2>2, <2>3, <2>4, <2>b, <3>1, <4>a, <4>b
      <4>6. FileContained'
        BY <2>a, <2>0, <2>1, <2>2, <2>3, <2>4, <2>b, <3>1, <4>a, <4>b
      <4>7. RequestsRemembered'
        BY <2>a, <2>0, <2>1, <2>2, <2>3, <2>4, <2>b, <3>1, <4>a, <4>b
      <4> QED
        BY <3>1, <4>1, <4>2, <4>3, <4>4, <4>5, <4>6, <4>7
    <3>4. CASE SaveStarted(m)
      <4>a. /\ history_dirty' /\ coordinator
            /\ history_save_again' = FALSE
            /\ history_save_pending' = TRUE
            /\ asked' = history_mutation_generation'
            /\ main' = main
            /\ latest_scheduled' = history_mutation_generation'
        BY <2>2, <3>0, <3>4 DEF SaveStarted
      <4>b. /\ writer'["task"] = "check" /\ writer'["main"] = "idle"
            /\ request'["task"].generation = history_mutation_generation'
            /\ request'["task"].entries = table'
            /\ request'["main"] = request["main"]
            /\ outcome'["main"] = outcome["main"]
        BY <2>1, <3>0, <3>4 DEF SaveStarted, StartWriting
      <4>1. ChangesCounted'
        BY <2>a, <2>0, <2>1, <2>2, <2>3, <2>4, <2>b, <3>1, <4>a, <4>b
      <4>2. LoadFirst'
        BY <2>a, <2>0, <2>1, <2>2, <2>3, <2>4, <2>b, <3>1, <4>a, <4>b
      <4>3. WritersOwned'
        BY <2>a, <2>0, <2>1, <2>2, <2>3, <2>4, <2>b, <3>1, <4>a, <4>b
      <4>4. LockProtects'
        BY <2>a, <2>0, <2>1, <2>2, <2>3, <2>4, <2>b, <3>1, <4>a, <4>b
      <4>5. FileOfGeneration'
        BY <2>a, <2>0, <2>1, <2>2, <2>3, <2>4, <2>b, <3>1, <4>a, <4>b
      <4>6. FileContained'
        BY <2>a, <2>0, <2>1, <2>2, <2>3, <2>4, <2>b, <3>1, <4>a, <4>b
      <4>7. RequestsRemembered'
        BY <2>a, <2>0, <2>1, <2>2, <2>3, <2>4, <2>b, <3>1, <4>a, <4>b
      <4> QED
        BY <3>1, <4>1, <4>2, <4>3, <4>4, <4>5, <4>6, <4>7
    <3>5. CASE SaveUnallocated(m)
      <4>a. /\ history_dirty' /\ writer' = writer
            /\ outcome'["task"] = "failed"
            /\ history_save_again' = FALSE /\ history_save_pending' = FALSE
            /\ asked' = history_mutation_generation'
            /\ UNCHANGED <<request, latest_scheduled, main>>
        BY <2>2, <3>0, <3>5 DEF SaveUnallocated
      <4>1. ChangesCounted'
        BY <2>a, <2>0, <2>1, <2>2, <2>3, <2>4, <2>b, <3>1, <4>a
      <4>2. LoadFirst'
        BY <2>a, <2>0, <2>1, <2>2, <2>3, <2>4, <2>b, <3>1, <4>a
      <4>3. WritersOwned'
        BY <2>a, <2>0, <2>1, <2>2, <2>3, <2>4, <2>b, <3>1, <4>a
      <4>4. LockProtects'
        BY <2>a, <2>0, <2>1, <2>2, <2>3, <2>4, <2>b, <3>1, <4>a
      <4>5. FileOfGeneration'
        BY <2>a, <2>0, <2>1, <2>2, <2>3, <2>4, <2>b, <3>1, <4>a
      <4>6. FileContained'
        BY <2>a, <2>0, <2>1, <2>2, <2>3, <2>4, <2>b, <3>1, <4>a
      <4>7. RequestsRemembered'
        BY <2>a, <2>0, <2>1, <2>2, <2>3, <2>4, <2>b, <3>1, <4>a
      <4> QED
        BY <3>1, <4>1, <4>2, <4>3, <4>4, <4>5, <4>6, <4>7
    <3> QED
      BY <2>6, <3>0, <3>2, <3>3, <3>4, <3>5
      DEF lsm_history_save, SaveDeferred, HeldBackByLoad
  <2> QED
    BY <1>3, <2>5, <2>6 DEF history_load_complete
<1>4. CASE lsm_app_history_ingest
  <2>a. /\ table' \in SUBSET (table \cup {observations'})
        /\ \A o \in table : o \in table' \/ Evicted(o, table')
        /\ \A o \in Observed : Evicted(o, table) => Evicted(o, table')
        /\ Cardinality(Rows(table')) <= MaxEntries
    <3> DEFINE seen == table \cup {observations'}
    <3>1. table' \in Trimmed(seen)
      BY <1>4 DEF lsm_app_history_ingest
    <3>2. seen \in SUBSET Observed /\ table \in SUBSET seen
      BY <1>4 DEF lsm_app_history_ingest
    <3> HIDE DEF seen
    <3>3. \A o \in Observed : Evicted(o, table) => Evicted(o, table')
      BY <3>1, <3>2, EvictionFinal
    <3>4. /\ \A o \in seen : o \in table' \/ Evicted(o, table')
          /\ Cardinality(Rows(table')) <= MaxEntries
      BY <3>1, <3>2, TrimEvicts
    <3> QED
      BY <3>1, <3>2, <3>3, <3>4 DEF seen, Trimmed
  <2>1. TypeOK'
    BY <1>4, <2>a DEF lsm_app_history_ingest, Bumped
  <2>2. ChangesCounted'
    BY <1>4, <2>a DEF lsm_app_history_ingest, Bumped
  <2>3. LoadFirst'
    BY <1>4, <2>a DEF lsm_app_history_ingest, Bumped
  <2>4. WritersOwned'
    BY <1>4, <2>a DEF lsm_app_history_ingest, Bumped
  <2>5. LockProtects'
    BY <1>4, <2>a DEF lsm_app_history_ingest, Bumped
  <2>6. FileOfGeneration'
    BY <1>4, <2>a DEF lsm_app_history_ingest, Bumped
  <2>7. FileContained'
    BY <1>4, <2>a DEF lsm_app_history_ingest, Bumped
  <2>8. RequestsRemembered'
    BY <1>4, <2>a DEF lsm_app_history_ingest, Bumped
  <2> QED
    BY <2>1, <2>2, <2>3, <2>4, <2>5, <2>6, <2>7, <2>8
<1>5. CASE history_save_timer
  <2>1. TypeOK'
    <3> DEFINE m == CurrentModel
    <3>1. /\ m.writers = writer /\ m.entries = table
          /\ m.saving = history_save_pending /\ m.again = history_save_again
          /\ m.generation = history_mutation_generation
      BY Zenon DEF CurrentModel, Model
    <3>2. /\ writer' \in [Writers -> WriterStates]
          /\ request' \in [Writers -> Requests]
          /\ outcome' \in [Writers -> Outcomes]
          /\ history_save_again' \in BOOLEAN
          /\ history_save_pending' \in BOOLEAN
          /\ latest_scheduled' \in 0 .. GenerationLimit
          /\ asked' \in 0 .. GenerationLimit
          /\ main' \in MainStates
      <4> HIDE DEF TypeOK, m
      <4> QED
        BY <1>5, <3>1, SavingTyped, TypeOK DEF TypeOK, history_save_timer, m
    <3>3. write_mutex \in Writers => writer'[write_mutex] = "write"
      BY <1>5 DEF history_save_timer, CurrentModel, lsm_history_save,
        SaveNotNeeded, SaveDeferred, SaveSynchronously, SaveStarted, SaveUnallocated,
        StartWriting, Model
    <3> QED
      BY <1>5, <3>2, <3>3 DEF history_save_timer
  <2>2. ChangesCounted'
    BY <1>5
    DEF history_save_timer, CurrentModel, lsm_history_save, SaveNotNeeded,
        SaveDeferred, SaveSynchronously, SaveUnallocated,
           SaveStarted, StartWriting, HeldBackByLoad, MarkSaveAgain, Model
  <2>3. LoadFirst'
    BY <1>5
    DEF history_save_timer, CurrentModel, lsm_history_save, SaveNotNeeded,
        SaveDeferred, SaveSynchronously, SaveUnallocated,
           SaveStarted, StartWriting, HeldBackByLoad, MarkSaveAgain, Model
  <2>4. WritersOwned'
    BY <1>5
    DEF history_save_timer, CurrentModel, lsm_history_save, SaveNotNeeded,
        SaveDeferred, SaveSynchronously, SaveUnallocated,
           SaveStarted, StartWriting, HeldBackByLoad, MarkSaveAgain, Model
  <2>5. LockProtects'
    BY <1>5
    DEF history_save_timer, CurrentModel, lsm_history_save, SaveNotNeeded,
        SaveDeferred, SaveSynchronously, SaveUnallocated,
           SaveStarted, StartWriting, HeldBackByLoad, MarkSaveAgain, Model
  <2>6. FileOfGeneration'
    BY <1>5
    DEF history_save_timer, CurrentModel, lsm_history_save, SaveNotNeeded,
        SaveDeferred, SaveSynchronously, SaveUnallocated,
           SaveStarted, StartWriting, HeldBackByLoad, MarkSaveAgain, Model
  <2>7. FileContained'
    BY <1>5
    DEF history_save_timer, CurrentModel, lsm_history_save, SaveNotNeeded,
        SaveDeferred, SaveSynchronously, SaveUnallocated,
           SaveStarted, StartWriting, HeldBackByLoad, MarkSaveAgain, Model
  <2>8. RequestsRemembered'
    BY <1>5
    DEF history_save_timer, CurrentModel, lsm_history_save, SaveNotNeeded,
        SaveDeferred, SaveSynchronously, SaveUnallocated,
           SaveStarted, StartWriting, HeldBackByLoad, MarkSaveAgain, Model
  <2> QED
    BY <2>1, <2>2, <2>3, <2>4, <2>5, <2>6, <2>7, <2>8
<1>6. CASE history_reset
  <2>1. TypeOK'
    <3> DEFINE m == Model({}, history_mutation_generation', TRUE,
                          history_load_pending, history_save_pending,
                          history_save_again, writer)
    <3>1. /\ m.writers = writer /\ m.entries = {}
          /\ m.saving = history_save_pending /\ m.again = history_save_again
          /\ m.generation = history_mutation_generation'
      BY Zenon DEF Model
    <3>2. history_mutation_generation' \in 0 .. GenerationLimit
      BY <1>6 DEF history_reset, Bumped
    <3>3. cleared' \in SUBSET Observed /\ table' \in SUBSET Observed
      BY <1>6 DEF history_reset
    <3>4. /\ writer' \in [Writers -> WriterStates]
          /\ request' \in [Writers -> Requests]
          /\ outcome' \in [Writers -> Outcomes]
          /\ history_save_again' \in BOOLEAN
          /\ history_save_pending' \in BOOLEAN
          /\ latest_scheduled' \in 0 .. GenerationLimit
          /\ asked' \in 0 .. GenerationLimit
          /\ main' \in MainStates
      <4>1. lsm_history_save(m)
        BY <1>6 DEF history_reset
      <4> HIDE DEF TypeOK, m
      <4> QED
        BY <3>1, <3>2, <4>1, SavingTyped, TypeOK DEF TypeOK
    <3>5. write_mutex \in Writers => writer'[write_mutex] = "write"
      BY <1>6 DEF history_reset, lsm_history_save,
        SaveNotNeeded, SaveDeferred, SaveSynchronously, SaveStarted, SaveUnallocated,
        StartWriting, Model
    <3> QED
      BY <1>6, <3>2, <3>3, <3>4, <3>5, SMTT(30) DEF history_reset
  <2>2. ChangesCounted'
    BY <1>6
    DEF history_reset, Bumped, lsm_history_save, SaveNotNeeded, SaveDeferred,
        SaveSynchronously, SaveUnallocated,
           SaveStarted, StartWriting, HeldBackByLoad, MarkSaveAgain, Model
  <2>3. LoadFirst'
    BY <1>6
    DEF history_reset, Bumped, lsm_history_save, SaveNotNeeded, SaveDeferred,
        SaveSynchronously, SaveUnallocated,
           SaveStarted, StartWriting, HeldBackByLoad, MarkSaveAgain, Model
  <2>4. WritersOwned'
    BY <1>6
    DEF history_reset, Bumped, lsm_history_save, SaveNotNeeded, SaveDeferred,
        SaveSynchronously, SaveUnallocated,
           SaveStarted, StartWriting, HeldBackByLoad, MarkSaveAgain, Model
  <2>5. LockProtects'
    BY <1>6
    DEF history_reset, Bumped, lsm_history_save, SaveNotNeeded, SaveDeferred,
        SaveSynchronously, SaveUnallocated,
           SaveStarted, StartWriting, HeldBackByLoad, MarkSaveAgain, Model
  <2>6. FileOfGeneration'
    BY <1>6
    DEF history_reset, Bumped, lsm_history_save, SaveNotNeeded, SaveDeferred,
        SaveSynchronously, SaveUnallocated,
           SaveStarted, StartWriting, HeldBackByLoad, MarkSaveAgain, Model
  <2>7. FileContained'
    BY <1>6, NoRows
    DEF history_reset, Bumped, lsm_history_save, SaveNotNeeded, SaveDeferred,
        SaveSynchronously, SaveUnallocated,
           SaveStarted, StartWriting, HeldBackByLoad, MarkSaveAgain, Model
  <2>8. RequestsRemembered'
    BY <1>6
    DEF history_reset, Bumped, lsm_history_save, SaveNotNeeded, SaveDeferred,
        SaveSynchronously, SaveUnallocated,
           SaveStarted, StartWriting, HeldBackByLoad, MarkSaveAgain, Model
  <2> QED
    BY <2>1, <2>2, <2>3, <2>4, <2>5, <2>6, <2>7, <2>8
<1>7. CASE history_save_complete
  <2> DEFINE returned == [writer EXCEPT !["task"] = "idle"]
             m == Model(table, history_mutation_generation, history_dirty',
                        history_load_pending, StillSaving, FALSE, returned)
  <2>1. /\ main = "idle" /\ ~Pending /\ ~history_load_pending
        /\ coordinator /\ history_save_pending
        /\ writer["task"] = "done" /\ writer["main"] = "idle"
    BY <1>7 DEF history_save_complete
  <2>2. /\ history_dirty' =
              (history_dirty
                 /\ ~(/\ outcome["task"] = "written"
                      /\ request["task"].generation =
                             history_mutation_generation))
        /\ UNCHANGED <<fileVars, table, history_mutation_generation,
                       history_load_pending, coordinator, latest_written,
                       write_mutex, loadVars, userVars, session>>
    BY <1>7 DEF history_save_complete, SavedCurrentModel
  <2>3. returned \in [Writers -> WriterStates]
        /\ returned["task"] = "idle" /\ returned["main"] = "idle"
    BY <2>1
  <2>a. /\ history_dirty \in BOOLEAN /\ latest_written \in Nat
        /\ history_mutation_generation \in Nat /\ asked \in Nat
        /\ history_dirty => history_mutation_generation >= 1
        /\ ~history_dirty => latest_written = history_mutation_generation
        /\ asked <= history_mutation_generation
        /\ outcome["task"] = "written" =>
               latest_written >= request["task"].generation
    BY <2>1
  <2>4. CASE /\ ~history_save_again
             /\ writer' = returned /\ history_save_pending' = FALSE
             /\ UNCHANGED <<history_save_again, request, outcome,
                            latest_scheduled, asked, main>>
    <3>1. TypeOK'
      BY <2>1, <2>2, <2>3, <2>4
    <3>2. ChangesCounted'
      BY <2>1, <2>2, <2>3, <2>4
    <3>3. LoadFirst'
      BY <2>1, <2>2, <2>3, <2>4
    <3>4. WritersOwned'
      BY <2>1, <2>2, <2>3, <2>4
    <3>5. LockProtects'
      BY <2>1, <2>2, <2>3, <2>4
    <3>6. FileOfGeneration'
      BY <2>1, <2>2, <2>3, <2>4
    <3>7. FileContained'
      BY <2>1, <2>2, <2>3, <2>4
    <3>8. RequestsRemembered'
      BY <2>1, <2>2, <2>3, <2>4
    <3> QED
      BY <3>1, <3>2, <3>3, <3>4, <3>5, <3>6, <3>7, <3>8
  <2>5. CASE lsm_history_save(m)
    <3>0. m.writers = returned /\ m.entries = table /\ m.saving = FALSE
          /\ m.generation = history_mutation_generation
          /\ m.again = FALSE /\ m.dirty = history_dirty'
          /\ m.loading = history_load_pending
      BY <2>1, Zenon DEF Model, StillSaving
    <3>1. TypeOK'
      <4>1. /\ writer' \in [Writers -> WriterStates]
            /\ request' \in [Writers -> Requests]
            /\ outcome' \in [Writers -> Outcomes]
            /\ history_save_again' \in BOOLEAN
            /\ history_save_pending' \in BOOLEAN
            /\ latest_scheduled' \in 0 .. GenerationLimit
            /\ asked' \in 0 .. GenerationLimit
            /\ main' \in MainStates
        <5> HIDE DEF TypeOK, m, returned
        <5> QED
          BY <2>3, <2>5, <3>0, SavingTyped, TypeOK DEF TypeOK
      <4> QED
        BY <2>1, <2>2, <4>1
    <3>2. CASE SaveNotNeeded(m)
      <4>a. /\ ~history_dirty' /\ writer' = returned
            /\ history_save_again' = FALSE /\ history_save_pending' = FALSE
            /\ UNCHANGED <<request, outcome, latest_scheduled, asked, main>>
        BY <3>0, <3>2 DEF SaveNotNeeded
      <4>1. ChangesCounted'
        BY <2>a, <2>1, <2>2, <2>3, <3>1, <4>a
      <4>2. LoadFirst'
        BY <2>a, <2>1, <2>2, <2>3, <3>1, <4>a
      <4>3. WritersOwned'
        BY <2>a, <2>1, <2>2, <2>3, <3>1, <4>a
      <4>4. LockProtects'
        BY <2>a, <2>1, <2>2, <2>3, <3>1, <4>a
      <4>5. FileOfGeneration'
        BY <2>a, <2>1, <2>2, <2>3, <3>1, <4>a
      <4>6. FileContained'
        BY <2>a, <2>1, <2>2, <2>3, <3>1, <4>a
      <4>7. RequestsRemembered'
        BY <2>a, <2>1, <2>2, <2>3, <3>1, <4>a
      <4> QED
        BY <3>1, <4>1, <4>2, <4>3, <4>4, <4>5, <4>6, <4>7
    <3>3. CASE SaveStarted(m)
      <4>a. /\ history_dirty' /\ coordinator
            /\ history_save_again' = FALSE
            /\ history_save_pending' = TRUE
            /\ asked' = history_mutation_generation'
            /\ main' = main
            /\ latest_scheduled' = history_mutation_generation'
        BY <2>2, <3>0, <3>3 DEF SaveStarted
      <4>b. /\ writer'["task"] = "check" /\ writer'["main"] = "idle"
            /\ request'["task"].generation = history_mutation_generation'
            /\ request'["task"].entries = table'
            /\ request'["main"] = request["main"]
            /\ outcome'["main"] = outcome["main"]
        BY <2>1, <2>2, <2>3, <3>0, <3>3 DEF SaveStarted, StartWriting
      <4>1. ChangesCounted'
        BY <2>a, <2>1, <2>2, <2>3, <3>1, <4>a, <4>b
      <4>2. LoadFirst'
        BY <2>a, <2>1, <2>2, <2>3, <3>1, <4>a, <4>b
      <4>3. WritersOwned'
        BY <2>a, <2>1, <2>2, <2>3, <3>1, <4>a, <4>b
      <4>4. LockProtects'
        BY <2>a, <2>1, <2>2, <2>3, <3>1, <4>a, <4>b
      <4>5. FileOfGeneration'
        BY <2>a, <2>1, <2>2, <2>3, <3>1, <4>a, <4>b
      <4>6. FileContained'
        BY <2>a, <2>1, <2>2, <2>3, <3>1, <4>a, <4>b
      <4>7. RequestsRemembered'
        BY <2>a, <2>1, <2>2, <2>3, <3>1, <4>a, <4>b
      <4> QED
        BY <3>1, <4>1, <4>2, <4>3, <4>4, <4>5, <4>6, <4>7
    <3>4. CASE SaveUnallocated(m)
      <4>a. /\ history_dirty' /\ writer' = returned
            /\ outcome'["task"] = "failed"
            /\ history_save_again' = FALSE /\ history_save_pending' = FALSE
            /\ asked' = history_mutation_generation'
            /\ UNCHANGED <<request, latest_scheduled, main>>
        BY <2>2, <3>0, <3>4 DEF SaveUnallocated
      <4>1. ChangesCounted'
        BY <2>a, <2>1, <2>2, <2>3, <3>1, <4>a
      <4>2. LoadFirst'
        BY <2>a, <2>1, <2>2, <2>3, <3>1, <4>a
      <4>3. WritersOwned'
        BY <2>a, <2>1, <2>2, <2>3, <3>1, <4>a
      <4>4. LockProtects'
        BY <2>a, <2>1, <2>2, <2>3, <3>1, <4>a
      <4>5. FileOfGeneration'
        BY <2>a, <2>1, <2>2, <2>3, <3>1, <4>a
      <4>6. FileContained'
        BY <2>a, <2>1, <2>2, <2>3, <3>1, <4>a
      <4>7. RequestsRemembered'
        BY <2>a, <2>1, <2>2, <2>3, <3>1, <4>a
      <4> QED
        BY <3>1, <4>1, <4>2, <4>3, <4>4, <4>5, <4>6, <4>7
    <3> QED
      BY <2>1, <2>5, <3>0, <3>2, <3>3, <3>4
      DEF lsm_history_save, SaveDeferred, SaveSynchronously, HeldBackByLoad
  <2> QED
    BY <1>7, <2>4, <2>5 DEF history_save_complete, StillSaving
<1>8. ASSUME NEW allocated \in BOOLEAN, lsm_history_destroy(allocated)
      PROVE  HistoryInv'
  <2>1. TypeOK'
    <3>1. CASE history_dirty /\ ~history_load_pending /\ allocated
      <4>1. /\ writer' \in [Writers -> WriterStates]
            /\ request' \in [Writers -> Requests]
            /\ outcome' \in [Writers -> Outcomes]
        <5>1. StartWriting("main", CurrentModel)
          BY <1>8, <3>1 DEF lsm_history_destroy
        <5>2. /\ CurrentModel.writers = writer
              /\ CurrentModel.entries = table
              /\ CurrentModel.generation = history_mutation_generation
          BY Zenon DEF CurrentModel, Model
        <5> HIDE DEF TypeOK
        <5> QED
          BY <5>1, <5>2, WritingTyped, TypeOK DEF TypeOK, Writers
      <4>2. write_mutex \in Writers => writer'[write_mutex] = "write"
        BY <1>8, <3>1 DEF lsm_history_destroy, StartWriting, CurrentModel,
          Model
      <4> QED
        BY <1>8, <3>1, <4>1, <4>2 DEF lsm_history_destroy
    <3>2. CASE ~(history_dirty /\ ~history_load_pending /\ allocated)
      BY <1>8, <3>2 DEF lsm_history_destroy
    <3> QED
      BY <3>1, <3>2
  <2>2. ChangesCounted'
    BY <1>8 DEF lsm_history_destroy, StartWriting, CurrentModel, Model
  <2>3. LoadFirst'
    BY <1>8 DEF lsm_history_destroy, StartWriting, CurrentModel, Model
  <2>4. WritersOwned'
    BY <1>8 DEF lsm_history_destroy, StartWriting, CurrentModel, Model
  <2>5. LockProtects'
    BY <1>8 DEF lsm_history_destroy, StartWriting, CurrentModel, Model
  <2>6. FileOfGeneration'
    BY <1>8 DEF lsm_history_destroy, StartWriting, CurrentModel, Model
  <2>7. FileContained'
    BY <1>8 DEF lsm_history_destroy, StartWriting, CurrentModel, Model
  <2>8. RequestsRemembered'
    BY <1>8 DEF lsm_history_destroy, StartWriting, CurrentModel, Model
  <2> QED
    BY <2>1, <2>2, <2>3, <2>4, <2>5, <2>6, <2>7, <2>8
<1>9. CASE SyncSaveReturns
  <2>1. TypeOK'
    BY <1>9 DEF SyncSaveReturns
  <2>2. ChangesCounted'
    BY <1>9 DEF SyncSaveReturns
  <2>3. LoadFirst'
    BY <1>9 DEF SyncSaveReturns
  <2>4. WritersOwned'
    BY <1>9 DEF SyncSaveReturns
  <2>5. LockProtects'
    BY <1>9 DEF SyncSaveReturns
  <2>6. FileOfGeneration'
    BY <1>9 DEF SyncSaveReturns
  <2>7. FileContained'
    BY <1>9 DEF SyncSaveReturns
  <2>8. RequestsRemembered'
    BY <1>9 DEF SyncSaveReturns
  <2> QED
    BY <2>1, <2>2, <2>3, <2>4, <2>5, <2>6, <2>7, <2>8
<1>10. ASSUME NEW w \in Writers, WritePrepared(w)
      PROVE  HistoryInv'
  <2>1. TypeOK'
    BY <1>10 DEF WritePrepared, Superseded, WriteReturns, Unlocked, writerFrame
  <2>2. ChangesCounted'
    BY <1>10 DEF WritePrepared, Superseded, WriteReturns, Unlocked, writerFrame
  <2>3. LoadFirst'
    BY <1>10 DEF WritePrepared, Superseded, WriteReturns, Unlocked, writerFrame
  <2>4. WritersOwned'
    BY <1>10 DEF WritePrepared, Superseded, WriteReturns, Unlocked, writerFrame
  <2>5. LockProtects'
    BY <1>10 DEF WritePrepared, Superseded, WriteReturns, Unlocked, writerFrame
  <2>6. FileOfGeneration'
    BY <1>10 DEF WritePrepared, Superseded, WriteReturns, Unlocked, writerFrame
  <2>7. FileContained'
    BY <1>10 DEF WritePrepared, Superseded, WriteReturns, Unlocked, writerFrame
  <2>8. RequestsRemembered'
    BY <1>10 DEF WritePrepared, Superseded, WriteReturns, Unlocked, writerFrame
  <2> QED
    BY <2>1, <2>2, <2>3, <2>4, <2>5, <2>6, <2>7, <2>8
<1>11. ASSUME NEW w \in Writers, WriteSkipped(w)
      PROVE  HistoryInv'
  <2>1. TypeOK'
    BY <1>11 DEF WriteSkipped, Superseded, WriteReturns, Unlocked, writerFrame
  <2>2. ChangesCounted'
    BY <1>11 DEF WriteSkipped, Superseded, WriteReturns, Unlocked, writerFrame
  <2>3. LoadFirst'
    BY <1>11 DEF WriteSkipped, Superseded, WriteReturns, Unlocked, writerFrame
  <2>4. WritersOwned'
    BY <1>11 DEF WriteSkipped, Superseded, WriteReturns, Unlocked, writerFrame
  <2>5. LockProtects'
    BY <1>11 DEF WriteSkipped, Superseded, WriteReturns, Unlocked, writerFrame
  <2>6. FileOfGeneration'
    BY <1>11 DEF WriteSkipped, Superseded, WriteReturns, Unlocked, writerFrame
  <2>7. FileContained'
    BY <1>11 DEF WriteSkipped, Superseded, WriteReturns, Unlocked, writerFrame
  <2>8. RequestsRemembered'
    BY <1>11 DEF WriteSkipped, Superseded, WriteReturns, Unlocked, writerFrame
  <2> QED
    BY <2>1, <2>2, <2>3, <2>4, <2>5, <2>6, <2>7, <2>8
<1>12. ASSUME NEW w \in Writers, WriteLocked(w)
      PROVE  HistoryInv'
  <2>1. TypeOK'
    BY <1>12
    DEF WriteLocked, SupersededUnderLock, Superseded, WriteReturns, Unlocked,
        writerFrame
  <2>2. ChangesCounted'
    BY <1>12
    DEF WriteLocked, SupersededUnderLock, Superseded, WriteReturns, Unlocked,
        writerFrame
  <2>3. LoadFirst'
    BY <1>12
    DEF WriteLocked, SupersededUnderLock, Superseded, WriteReturns, Unlocked,
        writerFrame
  <2>4. WritersOwned'
    BY <1>12
    DEF WriteLocked, SupersededUnderLock, Superseded, WriteReturns, Unlocked,
        writerFrame
  <2>5. LockProtects'
    BY <1>12
    DEF WriteLocked, SupersededUnderLock, Superseded, WriteReturns, Unlocked,
        writerFrame
  <2>6. FileOfGeneration'
    BY <1>12
    DEF WriteLocked, SupersededUnderLock, Superseded, WriteReturns, Unlocked,
        writerFrame
  <2>7. FileContained'
    BY <1>12
    DEF WriteLocked, SupersededUnderLock, Superseded, WriteReturns, Unlocked,
        writerFrame
  <2>8. RequestsRemembered'
    BY <1>12
    DEF WriteLocked, SupersededUnderLock, Superseded, WriteReturns, Unlocked,
        writerFrame
  <2> QED
    BY <2>1, <2>2, <2>3, <2>4, <2>5, <2>6, <2>7, <2>8
<1>13. ASSUME NEW w \in Writers, FileReplaced(w)
      PROVE  HistoryInv'
  <2>1. TypeOK'
    BY <1>13 DEF FileReplaced, WriteReturns, Unlocked, writerFrame
  <2>2. ChangesCounted'
    BY <1>13 DEF FileReplaced, WriteReturns, Unlocked, writerFrame
  <2>3. LoadFirst'
    BY <1>13 DEF FileReplaced, WriteReturns, Unlocked, writerFrame
  <2>4. WritersOwned'
    BY <1>13 DEF FileReplaced, WriteReturns, Unlocked, writerFrame
  <2>5. LockProtects'
    BY <1>13 DEF FileReplaced, WriteReturns, Unlocked, writerFrame
  <2>6. FileOfGeneration'
    BY <1>13 DEF FileReplaced, WriteReturns, Unlocked, writerFrame
  <2>7. FileContained'
    BY <1>13 DEF FileReplaced, WriteReturns, Unlocked, writerFrame
  <2>8. RequestsRemembered'
    BY <1>13 DEF FileReplaced, WriteReturns, Unlocked, writerFrame
  <2> QED
    BY <2>1, <2>2, <2>3, <2>4, <2>5, <2>6, <2>7, <2>8
<1>14. ASSUME NEW w \in Writers, WriteFails(w)
      PROVE  HistoryInv'
  <2>1. TypeOK'
    BY <1>14 DEF WriteFails, Superseded, WriteReturns, Unlocked, writerFrame
  <2>2. ChangesCounted'
    BY <1>14 DEF WriteFails, Superseded, WriteReturns, Unlocked, writerFrame
  <2>3. LoadFirst'
    BY <1>14 DEF WriteFails, Superseded, WriteReturns, Unlocked, writerFrame
  <2>4. WritersOwned'
    BY <1>14 DEF WriteFails, Superseded, WriteReturns, Unlocked, writerFrame
  <2>5. LockProtects'
    BY <1>14 DEF WriteFails, Superseded, WriteReturns, Unlocked, writerFrame
  <2>6. FileOfGeneration'
    BY <1>14 DEF WriteFails, Superseded, WriteReturns, Unlocked, writerFrame
  <2>7. FileContained'
    BY <1>14 DEF WriteFails, Superseded, WriteReturns, Unlocked, writerFrame
  <2>8. RequestsRemembered'
    BY <1>14 DEF WriteFails, Superseded, WriteReturns, Unlocked, writerFrame
  <2> QED
    BY <2>1, <2>2, <2>3, <2>4, <2>5, <2>6, <2>7, <2>8
<1>15. CASE ProcessRestarts
  <2>1. TypeOK'
    <3>1. NoRequest \in Requests
      BY DEF NoRequest
    <3>2. /\ writer' \in [Writers -> WriterStates]
          /\ outcome' \in [Writers -> Outcomes]
      BY <1>15 DEF ProcessRestarts, MemoryLost
    <3>3. request' \in [Writers -> Requests]
      <4> HIDE DEF Requests
      <4> QED
        BY <1>15, <3>1 DEF ProcessRestarts, MemoryLost
    <3>4. /\ table' = {} /\ loaded' = {} /\ file' = file
          /\ cleared' \in SUBSET Observed
          /\ observations' = observations /\ resets' = resets
          /\ session' \in 1 .. MaxSessions
      BY <1>15 DEF ProcessRestarts, MemoryLost
    <3>5. /\ write_mutex' = "free" /\ load' = "none" /\ main' = "start"
          /\ start_up' = "pending" /\ damaged' = {}
          /\ history_dirty' = FALSE /\ history_load_pending' = FALSE
          /\ history_save_pending' = FALSE /\ history_save_again' = FALSE
          /\ coordinator' = FALSE
          /\ history_mutation_generation' = 0 /\ latest_scheduled' = 0
          /\ latest_written' = 0 /\ asked' = 0
      BY <1>15 DEF ProcessRestarts, MemoryLost
    <3>6. write_mutex' \notin Writers
      BY <3>5
    <3>7. /\ file' \in SUBSET Observed /\ table' \in SUBSET Observed
          /\ loaded' \in SUBSET Observed
          /\ observations' \in 0 .. MaxObservations
          /\ resets' \in 0 .. MaxResets
      BY <3>4
    <3>8. /\ history_mutation_generation' \in 0 .. GenerationLimit
          /\ latest_scheduled' \in 0 .. GenerationLimit
          /\ latest_written' \in 0 .. GenerationLimit
          /\ asked' \in 0 .. GenerationLimit
      BY <3>5
    <3> HIDE DEF Requests, HistoryInv
    <3> QED
      BY <3>2, <3>3, <3>4, <3>5, <3>6, <3>7, <3>8
  <2>2. ChangesCounted'
    BY <1>15 DEF ProcessRestarts, MemoryLost, NoRequest
  <2>3. LoadFirst'
    BY <1>15 DEF ProcessRestarts, MemoryLost, NoRequest
  <2>4. WritersOwned'
    BY <1>15 DEF ProcessRestarts, MemoryLost, NoRequest
  <2>5. LockProtects'
    BY <1>15 DEF ProcessRestarts, MemoryLost, NoRequest
  <2>6. FileOfGeneration'
    BY <1>15 DEF ProcessRestarts, MemoryLost, NoRequest
  <2>7. FileContained'
    BY <1>15, NoRows DEF ProcessRestarts, MemoryLost, NoRequest
  <2>8. RequestsRemembered'
    BY <1>15 DEF ProcessRestarts, MemoryLost, NoRequest
  <2> QED
    BY <2>1, <2>2, <2>3, <2>4, <2>5, <2>6, <2>7, <2>8
<1>16. CASE UNCHANGED vars
  <2>1. TypeOK'
    BY <1>16 DEF vars
  <2>2. ChangesCounted'
    BY <1>16 DEF vars
  <2>3. LoadFirst'
    BY <1>16 DEF vars
  <2>4. WritersOwned'
    BY <1>16 DEF vars
  <2>5. LockProtects'
    BY <1>16 DEF vars
  <2>6. FileOfGeneration'
    BY <1>16 DEF vars
  <2>7. FileContained'
    BY <1>16 DEF vars
  <2>8. RequestsRemembered'
    BY <1>16 DEF vars
  <2> QED
    BY <2>1, <2>2, <2>3, <2>4, <2>5, <2>6, <2>7, <2>8
<1> QED
    BY <1>1, <1>2, <1>3, <1>4, <1>5, <1>6, <1>7, <1>8, <1>9, <1>10, <1>11,
       <1>12, <1>13, <1>14, <1>15, <1>16
    DEF Next, MainStep, Write, Ended

(* A first start on no file satisfies the invariant.                        *)
LEMMA HistoryInitially == Init => HistoryInv
<1> SUFFICES ASSUME Init
             PROVE  HistoryInv
    OBVIOUS
<1> USE HistoryAssumption DEF Init, Volatile, Writers
<1>1. NoRequest \in Requests
    BY DEF NoRequest, Requests
<1>2. /\ request \in [Writers -> Requests]
      /\ writer \in [Writers -> WriterStates]
      /\ outcome \in [Writers -> Outcomes]
    BY <1>1 DEF WriterStates, Outcomes
<1>3. TypeOK
  <2>1. /\ history_mutation_generation \in 0 .. GenerationLimit
        /\ latest_scheduled \in 0 .. GenerationLimit
        /\ latest_written \in 0 .. GenerationLimit
        /\ asked \in 0 .. GenerationLimit
        /\ session \in 1 .. MaxSessions
        /\ observations \in 0 .. MaxObservations
        /\ resets \in 0 .. MaxResets
        /\ file \in SUBSET Observed
    BY DEF Observed
  <2>2. write_mutex \in (Writers \cup {"free"}) \ Writers
    OBVIOUS
  <2> QED
    BY <1>2, <2>1, <2>2 DEF TypeOK, LoadStates, MainStates
<1>4. \A w \in Writers : request[w].entries = {} /\ writer[w] = "idle"
    BY DEF NoRequest
<1>5. ChangesCounted /\ LoadFirst
    BY <1>4 DEF ChangesCounted, LoadFirst, Pending, Saving, Busy
<1>6. WritersOwned /\ LockProtects
    BY <1>4 DEF WritersOwned, LockProtects, Saving, Busy
<1>7. FileOfGeneration /\ FileContained /\ RequestsRemembered
    BY <1>4, NoRows DEF FileOfGeneration, FileContained, RequestsRemembered
<1> QED
    BY <1>3, <1>5, <1>6, <1>7 DEF HistoryInv

(* A step that replaces the file, or forgets the resets, loses nothing.     *)
LEMMA FileKept == HistoryInv /\ [Next]_vars => KeptStep \/ UNCHANGED vars
<1> SUFFICES ASSUME HistoryInv, Next
             PROVE  KeptStep
    OBVIOUS
<1>1. ASSUME NEW w \in Writers, FileReplaced(w)
      PROVE  KeptStep
  <2>1. /\ file' = request[w].entries
        /\ UNCHANGED <<cleared, damaged, table>>
        /\ coordinator => latest_written' = request[w].generation
        /\ writer[w] = "write"
    BY <1>1 DEF FileReplaced, writerFrame, userVars, loadVars, modelVars
  <2>2. coordinator => request[w].generation > latest_written
    BY <2>1 DEF HistoryInv, LockProtects
  <2>3. start_up # "pending"
    BY <2>1 DEF HistoryInv, LoadFirst, Pending, Busy
  <2>4. start_up = "merged" =>
            \A o \in file : Accounted(o, request[w].entries)
    BY <2>1, <2>2 DEF HistoryInv, FileContained
  <2> QED
    BY <2>1, <2>2, <2>3, <2>4
    DEF KeptStep, Accounted, HistoryInv, TypeOK, FileContained
<1>2. CASE file' = file
  <2>1. HistoryInv'
    BY HistoryStep
  <2> QED
    BY <1>2, <2>1 DEF KeptStep, HistoryInv, FileContained
<1>3. (\E w \in Writers : FileReplaced(w)) \/ file' = file
    BY DEF Next, MainStep, Write, Ended, fileVars, vars,
           history_model_initialise, history_load_worker,
           history_load_complete, lsm_app_history_ingest, history_save_timer,
           history_reset, history_save_complete, lsm_history_destroy,
           SyncSaveReturns, WritePrepared, WriteSkipped, WriteLocked,
           WriteFails, ProcessRestarts
<1> QED
    BY <1>1, <1>2, <1>3
-----------------------------------------------------------------------------
(* The inductive invariant: generations identify tables, writers under the  *)
(* lock are newer than the file, nothing is written before the load, and    *)
(* what the file holds is in the table but for what was reset, could not be *)
(* parsed, or was evicted at the retention limit.                           *)
THEOREM HistoryInvariant == Spec => []HistoryInv
<1> QED
    BY HistoryInitially, HistoryStep, PTL DEF Spec

(* history_dirty, history_save_pending and history_save_again are honest    *)
(* however the load, the asynchronous save and the synchronous save of the  *)
(* shutdown interleave, fail or are cut off by a crash.                     *)
THEOREM FlagsAreHonest == Spec => []FlagsHonest
<1>1. HistoryInv => FlagsHonest
  <2> SUFFICES ASSUME HistoryInv
               PROVE  FlagsHonest
      OBVIOUS
  <2>1. CleanMeansPersisted
    BY DEF HistoryInv, TypeOK, FileOfGeneration, CleanMeansPersisted
  <2>2. SaveRequestKept
    BY HistoryAssumption
    DEF HistoryInv, TypeOK, RequestsRemembered, SaveRequestKept
  <2> QED
    BY <2>1, <2>2 DEF HistoryInv, FlagsHonest
<1> QED
    BY <1>1, HistoryInvariant, PTL

(* No save, crash or late writer takes from the file what it has            *)
(* accumulated: a row leaves it only when the user reset it, the loader     *)
(* could not parse it, the file could not be read at start-up, or           *)
(* MaxEntries rows seen later took its place, for every limit and every     *)
(* assignment of observations to applications.  Within a session the file   *)
(* only moves to newer tables.                                              *)
THEOREM AccumulationKept == Spec => AccumulatedKept
<1>1. HistoryInv /\ [Next]_vars => [KeptStep]_vars
    BY FileKept
<1> QED
    BY <1>1, HistoryInvariant, PTL DEF Spec, AccumulatedKept
=============================================================================
