----------------------------- MODULE SampleRings -----------------------------
(***************************************************************************)
(* The two rings completed samples are kept in.                            *)
(*                                                                         *)
(* Behind every graph series is a fixed-length history                     *)
(* (src/sample_history.c), of which the graph draws a part (src/graph.c).  *)
(* It is filled with unavailable slots from the start, so it is always     *)
(* full; which end is overwritten depends on the direction the user has    *)
(* chosen.                                                                 *)
(*                                                                         *)
(* The Overview page (src/overview_history.c) keeps a ring of samples in   *)
(* which a gap record stands for samples that were never seen.  The        *)
(* monitor it records from may repeat a generation, skip some, wrap its    *)
(* counter or report a clock that did not advance.  Instants are even, so  *)
(* that the midpoint of two is a whole number.                             *)
(***************************************************************************)
EXTENDS Naturals, Sequences

CONSTANTS
    Length,          \* LSM_HISTORY_LENGTH, 600.
    MaxPushes,       \* Bound: samples pushed since the last reset.
    MayFlip          \* Whether the user changes the direction.

(* What the constants stand for.                                            *)
GraphAssumption ==
    /\ Length \in Nat /\ Length >= 2
    /\ MaxPushes \in Nat
    /\ MayFlip \in BOOLEAN

VARIABLES
    \* LsmSampleHistory: one slot holds a sample, known by its position in
    \* pushed, or 0 for an unavailable one (valid[] and values[] together).
    slots, head,
    \* LsmGraph: visible_points and the direction of the latest push.
    visible_points, newer_on_right,
    \* app->runtime.newer_on_right.
    direction,
    \* History variable: what has been pushed since the last reset.
    pushed

graphVars == <<slots, head, visible_points, newer_on_right, direction, pushed>>

Index == 0 .. Length - 1
Unavailable == 0

GraphTypeOK ==
    /\ slots \in [Index -> 0 .. MaxPushes]
    /\ head \in Index
    /\ visible_points \in 2 .. Length
    /\ newer_on_right \in BOOLEAN
    /\ direction \in BOOLEAN
    /\ pushed \in Seq(0 .. MaxPushes) /\ Len(pushed) <= MaxPushes

GraphInit ==
    /\ slots = [i \in Index |-> Unavailable]
    /\ head = 0
    /\ visible_points = Length
    /\ direction \in BOOLEAN
    /\ newer_on_right = direction
    /\ pushed = <<>>

-----------------------------------------------------------------------------
Previous(i) == (i + Length - 1) % Length

(* Mutant: the slot after the oldest one is overwritten.                    *)
Mut_PushSlot == IF direction THEN (head + 1) % Length ELSE Previous(head)

(* The history is full: the slot at the old end of the window is reused.    *)
PushSlot == IF direction THEN head ELSE Previous(head)

PushedHead(value) ==
    IF direction THEN (head + 1) % Length ELSE Previous(head)

(* lsm_graph_push.  A value that is not finite takes a slot but makes it    *)
(* unavailable.                                                             *)
Push ==
    /\ Len(pushed) < MaxPushes
    /\ \E value \in {Len(pushed) + 1, Unavailable} :
         /\ slots' = [slots EXCEPT ![PushSlot] = value]
         /\ head' = PushedHead(value)
         /\ pushed' = Append(pushed, value)
    /\ newer_on_right' = direction
    /\ UNCHANGED <<visible_points, direction>>

(* lsm_sample_history_init, when a graph is given another metric.           *)
Reset ==
    /\ slots' = [i \in Index |-> Unavailable]
    /\ head' = 0
    /\ pushed' = <<>>
    /\ UNCHANGED <<visible_points, newer_on_right, direction>>

(* lsm_graph_set_visible_points, which clamps what it is given.             *)
SetVisiblePoints ==
    /\ \E points \in 0 .. Length + 1 :
         visible_points' = IF points < 2 THEN 2
                           ELSE IF points > Length THEN Length ELSE points
    /\ UNCHANGED <<slots, head, newer_on_right, direction, pushed>>

(* on_direction_selected and the preferences dialog.                        *)
SelectDirection ==
    /\ MayFlip
    /\ direction' = ~direction
    /\ UNCHANGED <<slots, head, visible_points, newer_on_right, pushed>>

GraphNext == Push \/ Reset \/ SetVisiblePoints \/ SelectDirection


-----------------------------------------------------------------------------
lsm_sample_history_get(i) == slots[(head + i) % Length]

VisibleStart == IF newer_on_right THEN Length - visible_points ELSE 0
VisibleEnd   == IF newer_on_right THEN Length ELSE visible_points

EmptyGeometry == [points |-> <<>>, offsets |-> <<>>, lengths |-> <<>>,
                  active_offset |-> 0, active_length |-> 0]

CloseSegment(g) ==
    IF g.active_length = 0 THEN g
    ELSE [g EXCEPT !.offsets = Append(@, g.active_offset),
                   !.lengths = Append(@, g.active_length),
                   !.active_length = 0]

(* One round of the loop of build_series_geometry.                          *)
AddSlot(g, logical) ==
    IF lsm_sample_history_get(logical) = Unavailable THEN CloseSegment(g)
    ELSE [g EXCEPT !.points = Append(@, logical),
                   !.active_offset = IF g.active_length = 0 THEN Len(g.points)
                                     ELSE @,
                   !.active_length = @ + 1]

(* The points to draw, by logical index, and the segments they are joined   *)
(* into: offsets and lengths count points.                                  *)
build_series_geometry ==
    LET upto[n \in 0 .. VisibleEnd - VisibleStart] ==
            IF n = 0 THEN EmptyGeometry
            ELSE AddSlot(upto[n - 1], VisibleStart + n - 1)
    IN  CloseSegment(upto[VisibleEnd - VisibleStart])

-----------------------------------------------------------------------------
(* The n newest pushes, oldest first; slots never written are unavailable.  *)
Newest(n) ==
    [i \in 1 .. n |-> IF Len(pushed) + i > n THEN pushed[Len(pushed) + i - n]
                      ELSE Unavailable]

Oriented(s) ==
    IF newer_on_right THEN s
    ELSE [i \in DOMAIN s |-> s[Len(s) + 1 - i]]

(* Read through its logical indices the ring is the window of the newest    *)
(* samples in display order, across wraparound, gaps and resets: "the       *)
(* oldest logical sample is overwritten" (sample_history.h) and no other.   *)
WindowIsNewest ==
    [i \in 1 .. Length |-> lsm_sample_history_get(i - 1)]
        = Oriented(Newest(Length))

(* The latest push is at the edge its direction names, also after the       *)
(* direction was changed under a full history (lsm_sample_history_push).    *)
NewestAtEdge ==
    pushed # <<>> => lsm_sample_history_get(IF newer_on_right THEN Length - 1 ELSE 0)
                    = pushed[Len(pushed)]

(* A graph that shows only part of the window shows its newest part.        *)
VisibleIsNewest ==
    LET drawn == build_series_geometry
    IN  [k \in 1 .. Len(drawn.points) |->
            lsm_sample_history_get(drawn.points[k])]
        = SelectSeq(Oriented(Newest(visible_points)), LAMBDA v : v # Unavailable)

(* The drawn line is broken exactly at unavailable slots: consecutive       *)
(* points are joined if and only if no slot lies between them, and the      *)
(* segments together use every point once (build_series_geometry).          *)
SegmentsFaithful ==
    LET drawn == build_series_geometry
        n == Len(drawn.points)
        Segment(s) == drawn.offsets[s] + 1 .. drawn.offsets[s] + drawn.lengths[s]
        joined(k) == \E s \in DOMAIN drawn.offsets :
                        {k, k + 1} \subseteq Segment(s)
    IN  /\ \A k \in 1 .. n :
             \E s \in DOMAIN drawn.offsets :
                /\ k \in Segment(s)
                /\ \A t \in DOMAIN drawn.offsets \ {s} : k \notin Segment(t)
        /\ \A k \in 1 .. n - 1 :
             joined(k) <=> drawn.points[k + 1] = drawn.points[k] + 1

-----------------------------------------------------------------------------
(* The ring of the Overview page.                                           *)

CONSTANTS
    Capacity,        \* LSM_OVERVIEW_HISTORY_CAPACITY, 120.
    MaxGeneration,   \* UINT64_MAX in the code.
    MaxTime          \* Bound: the last instant.

(* What the constants stand for.                                            *)
OverviewAssumption ==
    /\ Capacity \in Nat \ {0}
    /\ MaxGeneration \in Nat \ {0}
    /\ MaxTime \in Nat

VARIABLES
    \* LsmOverviewHistory.
    samples, count, next, last_generation, last_timestamp, have_last,
    \* LsmMonitor: sample_generation and sample_monotonic_seconds.
    monitor,
    \* History variable: everything pushed.
    record_log

historyVars == <<samples, count, next, last_generation, last_timestamp,
                 have_last, record_log>>
overviewVars == <<historyVars, monitor>>

(* generation is 0 in a gap.                                                *)
Entries == [generation : 0 .. MaxGeneration, seconds : 0 .. 2 * MaxTime,
            gap : BOOLEAN]
NoEntry == [generation |-> 0, seconds |-> 0, gap |-> FALSE]

Slots == 0 .. Capacity - 1

OverviewTypeOK ==
    /\ samples \in [Slots -> Entries]
    /\ count \in 0 .. Capacity
    /\ next \in Slots
    /\ last_generation \in 0 .. MaxGeneration
    /\ last_timestamp \in 0 .. 2 * MaxTime
    /\ have_last \in BOOLEAN
    /\ monitor \in [generation : 0 .. MaxGeneration, seconds : 0 .. 2 * MaxTime]
    /\ record_log \in Seq(Entries)

OverviewInit ==
    /\ samples = [i \in Slots |-> NoEntry]
    /\ count = 0 /\ next = 0
    /\ last_generation = 0 /\ last_timestamp = 0 /\ have_last = FALSE
    /\ monitor = [generation |-> 0, seconds |-> 0]
    /\ record_log = <<>>

(* 0 means "never sampled" and is skipped by the wrap.                      *)
Successor(g) == IF g = MaxGeneration THEN 1 ELSE g + 1

(* The sampler completes one or more samples before the main thread looks.  *)
(* Its clock may have stood still.                                          *)
SampleCompletes ==
    /\ \E skipped \in {0, 1}, elapsed \in {0, 1, 2} :
         /\ monitor.seconds + 2 * elapsed <= 2 * MaxTime
         /\ elapsed = 0 => monitor.seconds > 0
         /\ monitor' = [generation |->
                            IF skipped = 0 THEN Successor(monitor.generation)
                            ELSE Successor(Successor(monitor.generation)),
                        seconds |-> monitor.seconds + 2 * elapsed]
    /\ UNCHANGED historyVars

-----------------------------------------------------------------------------
(* history_push for each entry of es in turn.                               *)
history_push(es) ==
    /\ samples' = [i \in Slots |->
         LET hits == {k \in DOMAIN es : (next + k - 1) % Capacity = i}
         IN  IF hits = {} THEN samples[i]
             ELSE es[CHOOSE k \in hits : \A m \in hits : m <= k]]
    /\ next' = (next + Len(es)) % Capacity
    /\ count' = IF count + Len(es) < Capacity THEN count + Len(es)
                ELSE Capacity

history_slot(index) ==
    LET oldest == (next + Capacity - count) % Capacity
    IN  (oldest + index) % Capacity

lsm_overview_history_get(index) == samples[history_slot(index)]

Accepted ==
    /\ monitor.generation # 0
    /\ monitor.seconds > 0
    /\ have_last => /\ monitor.generation # last_generation
                    /\ monitor.seconds > last_timestamp

GapNeeded == have_last /\ monitor.generation # Successor(last_generation)

GapEntry == [generation |-> 0, gap |-> TRUE,
             seconds |-> last_timestamp
                           + ((monitor.seconds - last_timestamp) \div 2)]

Recorded ==
    (IF GapNeeded THEN <<GapEntry>> ELSE <<>>) \o
    <<[generation |-> monitor.generation, seconds |-> monitor.seconds,
       gap |-> FALSE]>>

lsm_overview_history_record ==
    /\ Accepted
    /\ history_push(Recorded)
    /\ record_log' = record_log \o Recorded
    /\ last_generation' = monitor.generation
    /\ last_timestamp' = monitor.seconds
    /\ have_last' = TRUE
    /\ UNCHANGED monitor

OverviewNext == SampleCompletes \/ lsm_overview_history_record


-----------------------------------------------------------------------------
Retained == [i \in 1 .. count |-> lsm_overview_history_get(i - 1)]

(* Read by index the ring is the newest part of everything recorded, as     *)
(* much of it as fits, through any number of wraparounds.                   *)
RingIsNewest ==
    /\ count = IF Len(record_log) < Capacity THEN Len(record_log) ELSE Capacity
    /\ Retained = SubSeq(record_log, Len(record_log) - count + 1, Len(record_log))

(* Time runs strictly forward through the retained entries, gaps included:  *)
(* a clock that stood still produces no entry, and a gap lies strictly      *)
(* between the samples around it.                                           *)
Chronological ==
    \A i \in 1 .. count - 1 : Retained[i].seconds < Retained[i + 1].seconds

(* A gap record stands between two samples exactly when samples between     *)
(* them were lost, be it that the main thread was late or that one was      *)
(* rejected; a wrap of the generation counter is not a loss.  No two gaps   *)
(* follow one another.                                                      *)
GapsWhereLost ==
    \A i \in 1 .. count - 1 :
        /\ (~Retained[i].gap /\ ~Retained[i + 1].gap)
              => Retained[i + 1].generation = Successor(Retained[i].generation)
        /\ Retained[i].gap => ~Retained[i + 1].gap
        /\ (i > 1 /\ Retained[i].gap)
              => Retained[i + 1].generation # Successor(Retained[i - 1].generation)

(* The newest entry is a sample, never a gap: the Overview labels, which    *)
(* ignore a gap, always have the newest sample to show.                     *)
LatestIsSample == count > 0 => ~Retained[count].gap

-----------------------------------------------------------------------------
(* The rings share nothing.                                                 *)
Init == GraphInit /\ OverviewInit

Next ==
    \/ GraphNext /\ UNCHANGED overviewVars
    \/ OverviewNext /\ UNCHANGED graphVars

vars == <<graphVars, overviewVars>>

Spec == Init /\ [][Next]_vars

=============================================================================
