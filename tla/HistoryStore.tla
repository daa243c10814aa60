----------------------------- MODULE HistoryStore -----------------------------
(***************************************************************************)
(* Application history: the table the main thread accumulates, its         *)
(* asynchronous load at start-up, its coalesced asynchronous saves, the    *)
(* synchronous save at shutdown (src/history.c), and the generation-       *)
(* ordered atomic publication of the file (src/history_persistence.c).     *)
(*                                                                         *)
(* Data.  One ingested process snapshot is one observation of one          *)
(* application, a number; the table and the file are the sets of           *)
(* observations their totals contain, one row per application observed.    *)
(* A merge of loaded and live entries, which adds the totals, is the       *)
(* union.  A row was last seen at its newest observation (the code leaves  *)
(* last_seen alone when the snapshot shows no activity).  Both the table   *)
(* and the loader keep at most MaxEntries rows, the ones seen last.        *)
(*                                                                         *)
(* Threads.  "task" is the GTask worker that serves the one asynchronous   *)
(* save allowed at a time; "main" writes only when it saves synchronously, *)
(* possibly while a task of the same session is still writing.  A process  *)
(* may end or crash at any point and start again on the file it left.      *)
(***************************************************************************)
EXTENDS Naturals, FiniteSets

CONSTANTS
    MaxObservations,    \* Bound: snapshots ingested over all sessions.
    MaxSessions,        \* Bound: process starts.
    MaxResets,          \* Bound: confirmed resets.
    GenerationLimit,    \* UINT_MAX, where the mutation generation saturates.
    MaxEntries,         \* LSM_HISTORY_MAX_ENTRIES, rows that are retained.
    Inherited,          \* Bound: observations in the file first found, which
                        \* may have more rows than this version retains.
    Application(_)      \* The application an observation belongs to.

ASSUME HistoryAssumption ==
    /\ MaxObservations \in Nat
    /\ MaxSessions \in Nat \ {0}
    /\ MaxResets \in Nat
    /\ GenerationLimit \in Nat
    \* One session makes fewer changes than the generation can count.
    /\ GenerationLimit > MaxObservations + MaxResets
    /\ MaxEntries \in Nat \ {0}
    /\ Inherited \in 0 .. MaxObservations

VARIABLES
    \* The durable file.
    file,
    \* app->history, owned by the main thread.
    table, history_mutation_generation, history_dirty,
    history_load_pending, history_save_pending, history_save_again,
    \* The coordinator shared with the save task; FALSE when it could not
    \* be created.
    coordinator, latest_scheduled, latest_written, write_mutex,
    \* Background work: the load result and, per writer, its progress, its
    \* immutable request and what became of it.
    load, loaded, writer, request, outcome,
    \* The main thread: "start", "idle", "save" or "destroy" (saving
    \* synchronously), "exit".
    main, session,
    \* History variables.
    observations,       \* Observations ever ingested.
    cleared,            \* Observations the user has reset.
    start_up,           \* What became of the file found: "unread" if it
                        \* could not be read, "merged" if the table has it.
    damaged,            \* Observations in rows the loader could not parse.
    asked,              \* Newest generation a save was asked for.
    resets

fileVars  == <<file>>
modelVars == <<table, history_mutation_generation, history_dirty>>
loadVars  == <<load, loaded, start_up, damaged>>
writeVars == <<writer, request, outcome>>
userVars  == <<observations, cleared, resets>>
saveVars  == <<history_save_pending, history_save_again, writeVars,
               latest_scheduled, asked, main>>

vars == <<fileVars, modelVars, history_load_pending, saveVars, coordinator,
          latest_written, write_mutex, loadVars, userVars, session>>

Writers == {"task", "main"}

(* "check": about to compare generations without the lock; "lock": waiting  *)
(* for write_mutex; "write": replacing the file under it; "done": returned. *)
WriterStates == {"idle", "check", "lock", "write", "done"}
Outcomes == {"none", "written", "skipped", "failed"}
LoadStates == {"none", "read", "failed", "done"}
MainStates == {"start", "idle", "save", "destroy", "exit"}

Observed == 1 .. MaxObservations
InTurn(o) == o % 3      \* For model checking: three applications in turn.
Requests == [generation : 0 .. GenerationLimit, entries : SUBSET Observed]
NoRequest == [generation |-> 0, entries |-> {}]

TypeOK ==
    /\ file \in SUBSET Observed
    /\ table \in SUBSET Observed
    /\ history_mutation_generation \in 0 .. GenerationLimit
    /\ history_dirty \in BOOLEAN
    /\ history_load_pending \in BOOLEAN
    /\ history_save_pending \in BOOLEAN
    /\ history_save_again \in BOOLEAN
    /\ coordinator \in BOOLEAN
    /\ latest_scheduled \in 0 .. GenerationLimit
    /\ latest_written \in 0 .. GenerationLimit
    /\ write_mutex \in Writers \cup {"free"}
    /\ load \in LoadStates
    /\ loaded \in SUBSET Observed
    /\ start_up \in {"pending", "merged", "unread"}
    /\ damaged \in SUBSET Observed
    /\ asked \in 0 .. GenerationLimit
    /\ writer \in [Writers -> WriterStates]
    /\ request \in [Writers -> Requests]
    /\ outcome \in [Writers -> Outcomes]
    /\ main \in MainStates
    /\ session \in 1 .. MaxSessions
    /\ observations \in 0 .. MaxObservations
    /\ cleared \in SUBSET Observed
    /\ resets \in 0 .. MaxResets
    /\ write_mutex \in Writers => writer[write_mutex] = "write"

(* What a process has in memory before history_model_initialise.            *)
Volatile ==
    /\ table = {}
    /\ history_mutation_generation = 0
    /\ history_dirty = FALSE
    /\ history_load_pending = FALSE
    /\ history_save_pending = FALSE
    /\ history_save_again = FALSE
    /\ coordinator = FALSE
    /\ latest_scheduled = 0
    /\ latest_written = 0
    /\ write_mutex = "free"
    /\ load = "none"
    /\ loaded = {}
    /\ start_up = "pending"
    /\ damaged = {}
    /\ asked = 0
    /\ writer = [w \in Writers |-> "idle"]
    /\ request = [w \in Writers |-> NoRequest]
    /\ outcome = [w \in Writers |-> "none"]
    /\ main = "start"

Init ==
    /\ Volatile
    /\ observations \in 0 .. Inherited
    /\ file = 1 .. observations
    /\ session = 1
    /\ cleared = {}
    /\ resets = 0

-----------------------------------------------------------------------------
(* The rows of a table or a file.                                           *)
Rows(entries) == {Application(o) : o \in entries}

(* history_entry_recency_compare: row a was seen before row b.              *)
SeenBefore(a, b, entries) ==
    \E p \in entries :
        /\ Application(p) = b
        /\ \A q \in entries : Application(q) = a => q < p

(* history_trim_to_limit: what is kept of a table that may have grown past  *)
(* the limit.  The rows seen first are evicted; the rows of the current     *)
(* snapshot, which the code protects, were seen last.                       *)
Trimmed(entries) ==
    {kept \in SUBSET entries :
        IF Cardinality(Rows(entries)) <= MaxEntries
        THEN kept = entries
        ELSE /\ \A o \in entries :
                    o \in kept <=> Application(o) \in Rows(kept)
             /\ Cardinality(Rows(kept)) = MaxEntries
             /\ \A a \in Rows(entries) \ Rows(kept), b \in Rows(kept) :
                    SeenBefore(a, b, entries)}

(* history_mark_dirty: the generation saturates, it never wraps.            *)
Bumped(generation) ==
    IF generation < GenerationLimit THEN generation + 1 ELSE generation

(* What lsm_history_save looks at, at the point of a handler that calls it. *)
Model(entries, generation, dirty, loading, saving, again, writers) ==
    [entries |-> entries, generation |-> generation, dirty |-> dirty,
     loading |-> loading, saving |-> saving, again |-> again,
     writers |-> writers]

CurrentModel ==
    Model(table, history_mutation_generation, history_dirty,
          history_load_pending, history_save_pending, history_save_again,
          writer)

(* history_save_request_create: an immutable copy of the table.             *)
StartWriting(w, m) ==
    /\ writer' = [m.writers EXCEPT ![w] = "check"]
    /\ request' = [request EXCEPT ![w] = [generation |-> m.generation,
                                          entries |-> m.entries]]
    /\ outcome' = [outcome EXCEPT ![w] = "none"]

SaveNotNeeded(m) ==
    /\ ~m.dirty
    /\ writer' = m.writers
    /\ history_save_again' = m.again
    /\ history_save_pending' = m.saving
    /\ UNCHANGED <<request, outcome, latest_scheduled, asked, main>>

(* Mutant: a save does not wait for the load.                               *)
Mut_HeldBackByLoad(m) == FALSE

HeldBackByLoad(m) == m.loading

MarkSaveAgain == history_save_again' = TRUE

(* A load or another save is under way: the request is remembered.          *)
SaveDeferred(m) ==
    /\ m.dirty
    /\ HeldBackByLoad(m) \/ (coordinator /\ m.saving)
    /\ MarkSaveAgain
    /\ writer' = m.writers
    /\ history_save_pending' = m.saving
    /\ asked' = m.generation
    /\ UNCHANGED <<request, outcome, latest_scheduled, main>>

(* Without a coordinator the main thread writes the file itself.            *)
SaveSynchronously(m) ==
    /\ m.dirty
    /\ ~HeldBackByLoad(m)
    /\ ~coordinator
    /\ StartWriting("main", m)
    /\ main' = "save"
    /\ history_save_again' = m.again
    /\ history_save_pending' = m.saving
    /\ asked' = m.generation
    /\ UNCHANGED latest_scheduled

SaveStarted(m) ==
    /\ m.dirty
    /\ ~HeldBackByLoad(m)
    /\ coordinator
    /\ ~m.saving
    /\ StartWriting("task", m)
    /\ latest_scheduled' = m.generation
    /\ history_save_again' = m.again
    /\ history_save_pending' = TRUE
    /\ asked' = m.generation
    /\ UNCHANGED main

(* The request cannot be allocated: the failure is reported, the table      *)
(* stays dirty and nothing is remembered.                                   *)
SaveUnallocated(m) ==
    /\ m.dirty
    /\ ~HeldBackByLoad(m)
    /\ ~(coordinator /\ m.saving)
    /\ writer' = m.writers
    /\ outcome' = [outcome EXCEPT !["task"] = "failed"]
    /\ history_save_again' = m.again
    /\ history_save_pending' = m.saving
    /\ asked' = m.generation
    /\ UNCHANGED <<request, latest_scheduled, main>>

lsm_history_save(m) ==
    SaveNotNeeded(m) \/ SaveDeferred(m) \/ SaveSynchronously(m)
        \/ SaveStarted(m) \/ SaveUnallocated(m)

-----------------------------------------------------------------------------
(* The main thread.                                                         *)

(* history_model_initialise, from the start-up idle source, from the first  *)
(* ingested snapshot or from opening the page, whichever comes first.       *)
history_model_initialise(created) ==
    /\ main = "start"
    /\ main' = "idle"
    /\ coordinator' = created
    /\ history_load_pending' = TRUE
    /\ load' = "read"
    /\ UNCHANGED <<fileVars, modelVars, history_save_pending,
                   history_save_again, writeVars, latest_scheduled, asked,
                   latest_written, write_mutex, loaded, start_up, damaged,
                   userVars, session>>

(* The task reads the file into isolated state.  A file that cannot be read *)
(* yields a failure and no entries; of a file that can, the rows that do    *)
(* not parse or are too long are dropped, and the oldest past the limit.    *)
history_load_worker(fails, unparsed) ==
    /\ load = "read"
    /\ fails => file # {} /\ unparsed = {}
    /\ load' = IF fails THEN "failed" ELSE "done"
    /\ damaged' = {o \in file : Application(o) \in unparsed}
    /\ loaded' \in IF fails THEN {{}} ELSE Trimmed(file \ damaged')
    /\ UNCHANGED <<fileVars, modelVars, history_load_pending, saveVars,
                   coordinator, latest_written, write_mutex, start_up,
                   userVars, session>>

(* history_load_complete with history_merge_loaded: a row the loader or the *)
(* trim had to drop makes the table dirty, and so does one that held no     *)
(* observation ("truncated"); a save that was held back by the load is      *)
(* issued now.                                                              *)
history_load_complete(truncated) ==
    /\ main = "idle"
    /\ load \in {"failed", "done"}
    /\ load' = "none"
    /\ start_up' = IF load = "done" THEN "merged" ELSE "unread"
    /\ history_load_pending' = FALSE
    /\ table' \in Trimmed(table \cup loaded)
    /\ load = "done" /\ (loaded # file \/ table' # table \cup loaded) =>
           truncated
    /\ IF truncated /\ load = "done"
       THEN /\ history_mutation_generation' =
                   Bumped(history_mutation_generation)
            /\ history_dirty' = TRUE
       ELSE UNCHANGED <<history_mutation_generation, history_dirty>>
    /\ IF history_save_again
       THEN lsm_history_save(Model(table', history_mutation_generation',
                                   history_dirty', FALSE,
                                   history_save_pending, FALSE, writer))
       ELSE UNCHANGED saveVars
    /\ UNCHANGED <<fileVars, coordinator, latest_written, write_mutex, loaded,
                   damaged, userVars, session>>

(* The snapshot is accumulated and the table trimmed to the limit.          *)
lsm_app_history_ingest ==
    /\ main = "idle"
    /\ observations < MaxObservations
    /\ observations' = observations + 1
    /\ table' \in Trimmed(table \cup {observations'})
    /\ history_mutation_generation' = Bumped(history_mutation_generation)
    /\ history_dirty' = TRUE
    /\ UNCHANGED <<fileVars, history_load_pending, saveVars, coordinator,
                   latest_written, write_mutex, loadVars, cleared, resets,
                   session>>

history_save_timer ==
    /\ main = "idle"
    /\ lsm_history_save(CurrentModel)
    /\ UNCHANGED <<fileVars, modelVars, history_load_pending, coordinator,
                   latest_written, write_mutex, loadVars, userVars, session>>

(* The confirmed reset clears the table and saves at once.                  *)
history_reset ==
    /\ main = "idle"
    /\ resets < MaxResets
    /\ resets' = resets + 1
    /\ cleared' = 1 .. observations
    /\ table' = {}
    /\ history_mutation_generation' = Bumped(history_mutation_generation)
    /\ history_dirty' = TRUE
    /\ lsm_history_save(Model({}, history_mutation_generation', TRUE,
                              history_load_pending, history_save_pending,
                              history_save_again, writer))
    /\ UNCHANGED <<fileVars, history_load_pending, coordinator, latest_written,
                   write_mutex, loadVars, observations, session>>

(* Mutant: any successful save clears the dirty flag.                       *)
Mut_SavedCurrentModel == outcome["task"] = "written"

(* The finished save wrote the generation the table still has.              *)
SavedCurrentModel ==
    /\ outcome["task"] = "written"
    /\ request["task"].generation = history_mutation_generation

(* Mutant: a failed save keeps blocking the next one.                       *)
Mut_StillSaving == outcome["task"] = "failed"

StillSaving == FALSE

history_save_complete ==
    /\ main = "idle"
    /\ writer["task"] = "done"
    /\ history_dirty' = (history_dirty /\ ~SavedCurrentModel)
    /\ LET returned == [writer EXCEPT !["task"] = "idle"]
       IN  IF history_save_again
           THEN lsm_history_save(Model(table, history_mutation_generation,
                                       history_dirty', history_load_pending,
                                       StillSaving, FALSE, returned))
           ELSE /\ writer' = returned
                /\ history_save_pending' = StillSaving
                /\ UNCHANGED <<history_save_again, request, outcome,
                               latest_scheduled, asked, main>>
    /\ UNCHANGED <<fileVars, table, history_mutation_generation,
                   history_load_pending, coordinator, latest_written,
                   write_mutex, loadVars, userVars, session>>

(* lsm_history_destroy: completions find no application any more.  A dirty  *)
(* table is saved synchronously, unless the load has not been merged yet or *)
(* the request cannot be allocated.                                         *)
(* The table itself is freed; the model keeps its last content so that it   *)
(* can be compared with the file.                                           *)
lsm_history_destroy(allocated) ==
    /\ main \in {"start", "idle"}
    /\ IF history_dirty /\ ~history_load_pending /\ allocated
       THEN /\ StartWriting("main", CurrentModel)
            /\ latest_scheduled' = IF coordinator
                                   THEN history_mutation_generation
                                   ELSE latest_scheduled
            /\ main' = "destroy"
       ELSE /\ main' = "exit"
            /\ UNCHANGED <<writeVars, latest_scheduled>>
    /\ history_load_pending' = FALSE
    /\ history_save_pending' = FALSE
    /\ history_save_again' = FALSE
    /\ UNCHANGED <<fileVars, modelVars, asked, coordinator, latest_written,
                   write_mutex, loadVars, userVars, session>>

(* The rest of history_save_checked_sync, on the main thread.               *)
SyncSaveReturns ==
    /\ main \in {"save", "destroy"}
    /\ writer["main"] = "done"
    /\ writer' = [writer EXCEPT !["main"] = "idle"]
    /\ main' = IF main = "save" THEN "idle" ELSE "exit"
    /\ history_dirty' =
           (history_dirty
              /\ ~(\/ outcome["main"] = "written"
                   \/ /\ outcome["main"] = "skipped"
                      /\ latest_written >= request["main"].generation))
    /\ UNCHANGED <<fileVars, table, history_mutation_generation,
                   history_load_pending, history_save_pending,
                   history_save_again, request, outcome, latest_scheduled,
                   asked, coordinator, latest_written, write_mutex, loadVars,
                   userVars, session>>

-----------------------------------------------------------------------------
(* lsm_history_persistence_request_write, on the task or the main thread.   *)

(* The request has been superseded or its generation is already on disk.    *)
Superseded(w) ==
    /\ coordinator
    /\ \/ request[w].generation < latest_scheduled
       \/ request[w].generation <= latest_written

writerFrame == <<modelVars, history_load_pending, history_save_pending,
                 history_save_again, request, latest_scheduled, asked, main,
                 coordinator, loadVars, userVars, session>>

Unlocked(w) == IF write_mutex = w THEN "free" ELSE write_mutex

(* The writer returns, giving up the lock if it holds it.                   *)
WriteReturns(w, result) ==
    /\ writer' = [writer EXCEPT ![w] = "done"]
    /\ outcome' = [outcome EXCEPT ![w] = result]
    /\ write_mutex' = Unlocked(w)

(* The early test, the directory and the serialisation, without the lock.   *)
WritePrepared(w) ==
    /\ writer[w] = "check"
    /\ ~Superseded(w)
    /\ writer' = [writer EXCEPT ![w] = IF coordinator THEN "lock" ELSE "write"]
    /\ UNCHANGED <<writerFrame, fileVars, outcome, latest_written, write_mutex>>

WriteSkipped(w) ==
    /\ writer[w] = "check"
    /\ Superseded(w)
    /\ WriteReturns(w, "skipped")
    /\ UNCHANGED <<writerFrame, fileVars, latest_written>>

SupersededUnderLock(w) == Superseded(w)

WriteLocked(w) ==
    /\ writer[w] = "lock"
    /\ write_mutex = "free"
    /\ IF SupersededUnderLock(w)
       THEN WriteReturns(w, "skipped")
       ELSE /\ write_mutex' = w
            /\ writer' = [writer EXCEPT ![w] = "write"]
            /\ UNCHANGED outcome
    /\ UNCHANGED <<writerFrame, fileVars, latest_written>>

(* lsm_atomic_file_write_bytes replaces the file as a whole.                *)
FileReplaced(w) ==
    /\ writer[w] = "write"
    /\ file' = request[w].entries
    /\ latest_written' = IF coordinator THEN request[w].generation
                                        ELSE latest_written
    /\ WriteReturns(w, "written")
    /\ UNCHANGED writerFrame

(* The directory, the conversion or the replacement fails.                  *)
WriteFails(w) ==
    /\ writer[w] \in {"check", "write"}
    /\ writer[w] = "check" => ~Superseded(w)
    /\ WriteReturns(w, "failed")
    /\ UNCHANGED <<writerFrame, fileVars, latest_written>>

-----------------------------------------------------------------------------
MemoryLost ==
    /\ table' = {}
    /\ history_mutation_generation' = 0
    /\ history_dirty' = FALSE
    /\ history_load_pending' = FALSE
    /\ history_save_pending' = FALSE
    /\ history_save_again' = FALSE
    /\ coordinator' = FALSE
    /\ latest_scheduled' = 0
    /\ latest_written' = 0
    /\ write_mutex' = "free"
    /\ load' = "none"
    /\ loaded' = {}
    /\ start_up' = "pending"
    /\ damaged' = {}
    /\ asked' = 0
    /\ writer' = [w \in Writers |-> "idle"]
    /\ request' = [w \in Writers |-> NoRequest]
    /\ outcome' = [w \in Writers |-> "none"]
    /\ main' = "start"

(* The process ends: a crash at any point, or the exit after shutdown,      *)
(* which also ends a task that is still running.  A reset that never        *)
(* reached the file is forgotten with the rest of the memory.               *)
ProcessRestarts ==
    /\ session < MaxSessions
    /\ session' = session + 1
    /\ MemoryLost
    /\ cleared' = cleared \ file
    /\ UNCHANGED <<fileVars, observations, resets>>

(* The last session has ended.                                              *)
Ended ==
    /\ main = "exit"
    /\ UNCHANGED vars

Write(w) ==
    \/ WritePrepared(w) \/ WriteSkipped(w) \/ WriteLocked(w)
    \/ FileReplaced(w) \/ WriteFails(w)

MainStep ==
    \/ \E created \in BOOLEAN : history_model_initialise(created)
    \/ \E truncated \in BOOLEAN : history_load_complete(truncated)
    \/ history_save_complete
    \/ SyncSaveReturns

Next ==
    \/ MainStep
    \/ \E fails \in BOOLEAN, unparsed \in SUBSET Rows(file) :
          history_load_worker(fails, unparsed)
    \/ \E w \in Writers : Write(w)
    \/ history_save_timer
    \/ lsm_app_history_ingest
    \/ history_reset
    \/ \E allocated \in BOOLEAN : lsm_history_destroy(allocated)
    \/ ProcessRestarts
    \/ Ended

Spec == Init /\ [][Next]_vars

RequestMade == \E w \in Writers : writer[w] = "idle" /\ writer'[w] = "check"

(* The main loop dispatches its sources, the 30-second timer keeps firing,  *)
(* background threads run, and a request or a write that is tried again and *)
(* again is allocated or succeeds some time.                                *)
FairSpec ==
    /\ Spec
    /\ WF_vars(MainStep)
    /\ WF_vars(\E unparsed \in SUBSET Rows(file) :
                  history_load_worker(FALSE, unparsed))
    /\ SF_vars(history_save_timer /\ RequestMade)
    /\ \A w \in Writers : WF_vars(Write(w)) /\ SF_vars(FileReplaced(w))
                          /\ SF_vars(WritePrepared(w))

-----------------------------------------------------------------------------
(* Properties.                                                              *)

(* The dirty flag is honest: when it is clear the file holds exactly the    *)
(* table, on the running application and after shutdown, even while an      *)
(* older save of the same session is still in flight.                       *)
CleanMeansPersisted ==
    (start_up = "merged" /\ ~history_dirty /\ main \in {"idle", "exit"}) => file = table

(* The retention limit has pushed an observation out of a table: it is full *)
(* and every row of it was seen after the observation.                      *)
Evicted(o, entries) ==
    /\ Cardinality(Rows(entries)) = MaxEntries
    /\ \A a \in Rows(entries) :
           \E p \in entries : Application(p) = a /\ p > o

(* Nothing the file has accumulated is lost unless the user reset it, the   *)
(* loader could not parse its row, or MaxEntries rows seen later took its   *)
(* place: not by a save before the load has been merged, not by a crash,    *)
(* not by a late writer of an older table.  Within a session the file only  *)
(* moves to newer generations, whichever thread gets to write first, and    *)
(* the table never has more rows than the limit.  The exceptions are the    *)
(* rows that are dropped by design, named above (history_trim_to_limit,     *)
(* history_load_record and the overlong lines of history_load_path), and a  *)
(* file that could not be read at start-up: history_load_complete forgets   *)
(* the failure, and the next save replaces it.                              *)
KeptStep ==
    /\ start_up # "unread" =>
           \A o \in file : \/ o \in file' \/ o \in cleared' \/ o \in damaged'
                          \/ Evicted(o, file')
    /\ (file' # file /\ coordinator) => latest_written' > latest_written
    /\ Cardinality(Rows(table')) <= MaxEntries

AccumulatedKept == [][KeptStep]_vars

(* Coalescing loses no request: the newest generation a save was asked for  *)
(* is on disk, being saved, or remembered for when the current task exits.  *)
SaveRequestKept ==
    (main = "idle" /\ coordinator /\ asked > latest_written
       /\ outcome["task"] # "failed") =>
        \/ history_save_again /\ (history_save_pending \/ history_load_pending)
        \/ history_save_pending /\ request["task"].generation >= asked

(* The flags of history.c mean what they say: a clear dirty flag that the   *)
(* file holds the table, and the pending and again flags that the newest    *)
(* generation a save was asked for is on its way to the file.               *)
FlagsHonest == TypeOK /\ CleanMeansPersisted /\ SaveRequestKept

(* A reset is final: observations the user cleared do not come back into    *)
(* the table.                                                               *)
ResetSticks == table \cap cleared = {}

(* While the application keeps running, every observation in the table      *)
(* reaches the file in the end, also after failed attempts, unless the user *)
(* resets it or the retention limit evicts its row first, which no file     *)
(* then shows.                                                              *)
EventuallyDurable ==
    \A o \in Observed :
        (o \in table /\ main = "idle") ~>
            \/ o \in file \/ o \in cleared \/ Evicted(o, table)
            \/ main \in {"destroy", "exit", "start"}

=============================================================================
