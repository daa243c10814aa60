------------------------- MODULE ProcessScannerProofs -------------------------
(***************************************************************************)
(* Proofs about the process scanner, for every set of scan flags and every *)
(* number of requests.                                                     *)
(*                                                                         *)
(* Freeing the structure is decided by a counter, so nothing about its     *)
(* lifetime is inductive until the counter is tied to what it counts: one  *)
(* reference for the live worker, one for the application (or for the      *)
(* constructor and destructor acting for it), one for every announcement   *)
(* on its way and one for the announcement being delivered.                *)
(***************************************************************************)
EXTENDS ProcessScanner, TLAPS

Count(condition) == IF condition THEN 1 ELSE 0

(* Announcements queued, or about to be queued, on the main context.        *)
Announcements == idle + Count(worker = "queue") + Count(main = "queue")

WorkerHolds == Count(worker \notin {"none", "done"})

OwnerHolds ==
    Count(held \/ main \in {"detach", "join", "unref_join", "unref_app"})

DeliveryHolds == Count(main \in {"callback", "unref_dispatch"})

(* The counter of scanner_retain and scanner_release counts its holders.    *)
ReferencesCounted ==
    (~freed /\ main # "create") =>
        references = WorkerHolds + OwnerHolds + Announcements + DeliveryHolds

(* ready_dispatch_pending is set exactly while one announcement travels.    *)
DispatchMarked == Announcements = Count(ready_dispatch_pending)

(* What the constructor can rely on before it has returned the handle.      *)
Construction ==
    /\ main = "create" =>
           worker = "none" /\ references = 0 /\ requested_flags = wanted
    /\ main \in {"create", "detach"} => ~stop_requested
    /\ main \in {"create", "detach", "join", "unref_join"} =>
           ~held /\ ~freed /\ ~ready_callback /\ Announcements = 0
    /\ main = "unref_join" => worker = "done"
    /\ (~freed /\ main # "create") => worker # "none"

(* The stop flag: who has seen it and what it rules out.                    *)
StopProtocol ==
    /\ worker \in {"unref", "done"} => stop_requested
    /\ main \in {"join", "unref_join", "unref_app"} => stop_requested
    /\ main = "unref_app" => ~held
    /\ held => ~stop_requested
    /\ stop_requested => ~ready_callback

(* The scan in progress and the numbering of its snapshot.                  *)
ScanProtocol ==
    /\ scan_in_progress <=> worker = "scan"
    /\ posted <= scans
    /\ worker = "scan" => posted < scans
    /\ (freed /\ ~stop_requested) => completed = 0
    /\ worker = "none" => completed = 0

RequestKept ==
    ~stop_requested =>
        \/ request_pending /\ requested_flags = wanted
        \/ ~request_pending /\ scan_in_progress /\ active_flags = wanted
        \/ ~request_pending /\ ~scan_in_progress /\ settled = wanted

ResultAnnounced ==
    (completed # 0 /\ ready_callback /\ ~announced) => ready_dispatch_pending

ScannerInv ==
    /\ TypeOK
    /\ ReferencesCounted
    /\ DispatchMarked
    /\ Construction
    /\ StopProtocol
    /\ NoUseAfterFree
    /\ NoLostWakeup
    /\ ScanProtocol
    /\ RequestKept
    /\ ResultAnnounced

(* The lemma that carries the induction: every step of either thread keeps  *)
(* the invariant.                                                           *)
LEMMA ScannerStep == ScannerInv /\ [Next]_vars => ScannerInv'
<1> SUFFICES ASSUME ScannerInv, [Next]_vars
             PROVE  ScannerInv'
    OBVIOUS
<1> USE ScannerAssumption DEF ScannerInv, TypeOK, ReferencesCounted,
       DispatchMarked, Construction, StopProtocol, NoUseAfterFree,
       NoLostWakeup, ScanProtocol, RequestKept, ResultAnnounced,
       Announcements, WorkerHolds, OwnerHolds, DeliveryHolds, Count,
       WorkerStates, MainStates, requestVars, resultVars, readyVars, lifeVars
<1>1. CASE CreateThread
    BY <1>1 DEF CreateThread, InitialReferences
<1>2. CASE CreateFails
    BY <1>2 DEF CreateFails
<1>3. CASE DetachSucceeds
    BY <1>3 DEF DetachSucceeds
<1>4. CASE DetachFails
    BY <1>4 DEF DetachFails, Signal
<1>5. CASE JoinWorker
    BY <1>5 DEF JoinWorker
<1>6. CASE ReleaseJoined
    BY <1>6 DEF ReleaseJoined
<1>7. CASE WorkerWaits
    BY <1>7 DEF WorkerWaits
<1>8. CASE WorkerSeesStop
    BY <1>8 DEF WorkerSeesStop
<1>9. CASE ScanBegins
  <2>1. TypeOK'
    <3>1. scans' \in Nat
      BY <1>9 DEF ScanBegins
    <3>2. active_flags' \in Flags
      BY <1>9 DEF ScanBegins
    <3>3. worker' \in WorkerStates
      BY <1>9 DEF ScanBegins
    <3>4. request_pending' \in BOOLEAN
      BY <1>9 DEF ScanBegins
    <3>5. scan_in_progress' \in BOOLEAN
      BY <1>9 DEF ScanBegins
    <3> QED
      BY <1>9, <3>1, <3>2, <3>3, <3>4, <3>5 DEF ScanBegins
  <2>2. ReferencesCounted' /\ DispatchMarked' /\ NoUseAfterFree'
    BY <1>9 DEF ScanBegins
  <2>3. Construction' /\ StopProtocol' /\ NoLostWakeup'
    BY <1>9 DEF ScanBegins
  <2>4. ScanProtocol' /\ RequestKept' /\ ResultAnnounced'
    BY <1>9 DEF ScanBegins
  <2> QED
    BY <2>1, <2>2, <2>3, <2>4
<1>10. CASE ScanDiscarded
    BY <1>10 DEF ScanDiscarded
<1>11. CASE ScanSucceeds
  <2>1. TypeOK'
    <3>1. settled' \in Flags
      BY <1>11 DEF ScanSucceeds, MayPublish, scanner_retain
    <3>2. completed' \in Nat
      BY <1>11 DEF ScanSucceeds, MayPublish, scanner_retain
    <3>3. posted' \in Nat
      BY <1>11 DEF ScanSucceeds, MayPublish, scanner_retain
    <3>4. references' \in Nat
      BY <1>11 DEF ScanSucceeds, MayPublish, scanner_retain
    <3>5. worker' \in WorkerStates
      BY <1>11 DEF ScanSucceeds, MayPublish, scanner_retain
    <3>6. scan_in_progress' \in BOOLEAN
      BY <1>11 DEF ScanSucceeds, MayPublish, scanner_retain
    <3>7. announced' \in BOOLEAN
      BY <1>11 DEF ScanSucceeds, MayPublish, scanner_retain
    <3>8. ready_dispatch_pending' \in BOOLEAN
      BY <1>11 DEF ScanSucceeds, MayPublish, scanner_retain
    <3>9. freed' \in BOOLEAN
      BY <1>11 DEF ScanSucceeds, MayPublish, scanner_retain
    <3> QED
      BY <1>11, <3>1, <3>2, <3>3, <3>4, <3>5, <3>6, <3>7, <3>8, <3>9 DEF
         ScanSucceeds, MayPublish, scanner_retain
  <2>2. ReferencesCounted' /\ DispatchMarked' /\ NoUseAfterFree'
    BY <1>11 DEF ScanSucceeds, MayPublish, scanner_retain
  <2>3. Construction' /\ StopProtocol' /\ NoLostWakeup'
    BY <1>11 DEF ScanSucceeds, MayPublish, scanner_retain
  <2>4. ScanProtocol' /\ RequestKept' /\ ResultAnnounced'
    BY <1>11 DEF ScanSucceeds, MayPublish, scanner_retain
  <2> QED
    BY <2>1, <2>2, <2>3, <2>4
<1>12. CASE ScanFails
    BY <1>12 DEF ScanFails, MayPublish
<1>13. CASE WorkerQueuesDispatch
    BY <1>13 DEF WorkerQueuesDispatch
<1>14. CASE WorkerExits
    BY <1>14 DEF WorkerExits, scanner_release
<1>15. CASE SpuriousWakeup
    BY <1>15 DEF SpuriousWakeup
<1>16. CASE MainQueuesDispatch
    BY <1>16 DEF MainQueuesDispatch
<1>17. CASE ReleaseApp
    BY <1>17 DEF ReleaseApp, scanner_release
<1>18. CASE scanner_ready_dispatch
  <2>1. TypeOK'
    <3>1. idle' \in Nat
      BY <1>18 DEF scanner_ready_dispatch, ClearDispatchMark
    <3>2. main' \in MainStates
      BY <1>18 DEF scanner_ready_dispatch, ClearDispatchMark
    <3>3. ready_dispatch_pending' \in BOOLEAN
      BY <1>18 DEF scanner_ready_dispatch, ClearDispatchMark
    <3>4. announced' \in BOOLEAN
      BY <1>18 DEF scanner_ready_dispatch, ClearDispatchMark
    <3> QED
      BY <1>18, <3>1, <3>2, <3>3, <3>4 DEF scanner_ready_dispatch,
         ClearDispatchMark
  <2>2. ReferencesCounted' /\ DispatchMarked' /\ NoUseAfterFree'
    BY <1>18 DEF scanner_ready_dispatch, ClearDispatchMark
  <2>3. Construction' /\ StopProtocol' /\ NoLostWakeup'
    BY <1>18 DEF scanner_ready_dispatch, ClearDispatchMark
  <2>4. ScanProtocol' /\ RequestKept' /\ ResultAnnounced'
    BY <1>18 DEF scanner_ready_dispatch, ClearDispatchMark
  <2> QED
    BY <2>1, <2>2, <2>3, <2>4
<1>19. CASE CallbackReturns
    BY <1>19 DEF CallbackReturns
<1>20. CASE scanner_ready_dispatch_destroy
    BY <1>20 DEF scanner_ready_dispatch_destroy, scanner_release
<1>21. ASSUME NEW flags \in Flags, lsm_process_scanner_request(flags)
       PROVE  ScannerInv'
  <2>1. TypeOK'
    <3>1. requests' \in Nat
      BY <1>21 DEF lsm_process_scanner_request, MayCall, CancelFollowUp,
         WakeForRequest, Signal
    <3>2. wanted' \in Flags
      BY <1>21 DEF lsm_process_scanner_request, MayCall, CancelFollowUp,
         WakeForRequest, Signal
    <3>3. requested_flags' \in Flags
      BY <1>21 DEF lsm_process_scanner_request, MayCall, CancelFollowUp,
         WakeForRequest, Signal
    <3>4. worker' \in WorkerStates
      BY <1>21 DEF lsm_process_scanner_request, MayCall, CancelFollowUp,
         WakeForRequest, Signal
    <3>5. request_pending' \in BOOLEAN
      BY <1>21 DEF lsm_process_scanner_request, MayCall, CancelFollowUp,
         WakeForRequest, Signal
    <3> QED
      BY <1>21, <3>1, <3>2, <3>3, <3>4, <3>5 DEF lsm_process_scanner_request,
         MayCall, CancelFollowUp, WakeForRequest, Signal
  <2>2. ReferencesCounted' /\ DispatchMarked' /\ NoUseAfterFree'
    BY <1>21 DEF lsm_process_scanner_request, MayCall, CancelFollowUp,
       WakeForRequest, Signal
  <2>3. Construction' /\ StopProtocol' /\ NoLostWakeup'
    BY <1>21 DEF lsm_process_scanner_request, MayCall, CancelFollowUp,
       WakeForRequest, Signal
  <2>4. ScanProtocol' /\ RequestKept' /\ ResultAnnounced'
    BY <1>21 DEF lsm_process_scanner_request, MayCall, CancelFollowUp,
       WakeForRequest, Signal
  <2> QED
    BY <2>1, <2>2, <2>3, <2>4
<1>22. ASSUME NEW callback \in BOOLEAN,
              lsm_process_scanner_set_ready_callback(callback)
       PROVE  ScannerInv'
  <2>1. TypeOK'
    <3>1. references' \in Nat
      BY <1>22 DEF lsm_process_scanner_set_ready_callback,
         AnnounceEarlierResult, scanner_retain
    <3>2. main' \in MainStates
      BY <1>22 DEF lsm_process_scanner_set_ready_callback,
         AnnounceEarlierResult, scanner_retain
    <3>3. ready_callback' \in BOOLEAN
      BY <1>22 DEF lsm_process_scanner_set_ready_callback,
         AnnounceEarlierResult, scanner_retain
    <3>4. ready_dispatch_pending' \in BOOLEAN
      BY <1>22 DEF lsm_process_scanner_set_ready_callback,
         AnnounceEarlierResult, scanner_retain
    <3>5. freed' \in BOOLEAN
      BY <1>22 DEF lsm_process_scanner_set_ready_callback,
         AnnounceEarlierResult, scanner_retain
    <3> QED
      BY <1>22, <3>1, <3>2, <3>3, <3>4, <3>5 DEF
         lsm_process_scanner_set_ready_callback, AnnounceEarlierResult,
         scanner_retain
  <2>2. ReferencesCounted' /\ NoUseAfterFree'
    BY <1>22 DEF lsm_process_scanner_set_ready_callback,
                 AnnounceEarlierResult, scanner_retain
  <2>3. Construction' /\ StopProtocol' /\ NoLostWakeup'
    BY <1>22 DEF lsm_process_scanner_set_ready_callback,
       AnnounceEarlierResult, scanner_retain
  <2>4. DispatchMarked'
    BY <1>22 DEF lsm_process_scanner_set_ready_callback,
                 AnnounceEarlierResult, scanner_retain
  <2>5. ScanProtocol' /\ RequestKept' /\ ResultAnnounced'
    BY <1>22 DEF lsm_process_scanner_set_ready_callback,
       AnnounceEarlierResult, scanner_retain
  <2> QED
    BY <2>1, <2>2, <2>3, <2>4, <2>5
<1>23. CASE lsm_process_scanner_take
    BY <1>23 DEF lsm_process_scanner_take, MayCall
<1>24. CASE lsm_process_scanner_destroy
    BY <1>24 DEF lsm_process_scanner_destroy, WakeForStop, Signal
<1>25. CASE UNCHANGED vars
    BY <1>25 DEF vars
<1> QED
    BY <1>1, <1>2, <1>3, <1>4, <1>5, <1>6, <1>7, <1>8, <1>9, <1>10, <1>11,
       <1>12, <1>13, <1>14, <1>15, <1>16, <1>17, <1>18, <1>19, <1>20, <1>21,
       <1>22, <1>23, <1>24, <1>25
    DEF Next, CreateStep, WorkerStep, MainLoopStep, ClientStep, Stopped

(* The invariant holds in every reachable state.                            *)
THEOREM ScannerInvariant == Spec => []ScannerInv
<1>1. Init => ScannerInv
  <2> SUFFICES ASSUME Init PROVE ScannerInv
    OBVIOUS
  <2>1. TypeOK
    BY ScannerAssumption, Zenon DEF Init, TypeOK, WorkerStates, MainStates
  <2>2. Announcements = 0 /\ main = "create"
    BY DEF Init, Announcements, Count
  <2>3. /\ ReferencesCounted
        /\ DispatchMarked
        /\ Construction
    BY <2>2 DEF Init, ReferencesCounted, DispatchMarked, Construction, Count
  <2>4. /\ StopProtocol
        /\ NoUseAfterFree
        /\ NoLostWakeup
        /\ ScanProtocol
        /\ RequestKept
        /\ ResultAnnounced
    BY DEF Init, StopProtocol, NoUseAfterFree, NoLostWakeup, ScanProtocol,
           RequestKept, ResultAnnounced
  <2> QED
    BY <2>1, <2>3, <2>4 DEF ScannerInv
<1> QED
    BY <1>1, ScannerStep, PTL DEF Spec

(* Every variable keeps its type; in particular the reference counter never *)
(* goes below zero, whoever releases last.                                  *)
THEOREM TypeCorrect == Spec => []TypeOK
<1>1. ScannerInv => TypeOK
    BY DEF ScannerInv
<1> QED
    BY <1>1, ScannerInvariant, PTL

(* scanner_release frees the structure only when the worker has ended, the  *)
(* application has given up the handle and no announcement is outstanding.  *)
THEOREM MemorySafe == Spec => []NoUseAfterFree
<1>1. ScannerInv => NoUseAfterFree
    BY DEF ScannerInv
<1> QED
    BY <1>1, ScannerInvariant, PTL

(* The worker never sleeps on a request or on a stop, although most calls   *)
(* change the predicate without signalling the condition variable.          *)
THEOREM WakeupSafe == Spec => []NoLostWakeup
<1>1. ScannerInv => NoLostWakeup
    BY DEF ScannerInv
<1> QED
    BY <1>1, ScannerInvariant, PTL

(* Coalescing and cancelling follow-ups in lsm_process_scanner_request      *)
(* never lose the newest request.                                           *)
THEOREM RequestSafe == Spec => []NewestRequestKept
<1>1. ScannerInv => NewestRequestKept
    BY DEF ScannerInv, RequestKept, NewestRequestKept
<1> QED
    BY <1>1, ScannerInvariant, PTL

(* A registered callback is told about a published list by exactly one      *)
(* announcement, whichever of publication and registration came first.      *)
THEOREM AnnouncementSafe == Spec => []ReadyNotMissed
<1>1. ScannerInv => ReadyNotMissed
    BY DEF ScannerInv, TypeOK, ResultAnnounced, DispatchMarked,
           Announcements, Count, ReadyNotMissed
<1> QED
    BY <1>1, ScannerInvariant, PTL

(* The scanner implements the one-slot mailbox: snapshots reach the         *)
(* application at most once and in scan order, and nothing is published     *)
(* after lsm_process_scanner_destroy.                                       *)
THEOREM MailboxImplemented == Spec => ImplementsMailbox
<1>1. Init => Mailbox!MailboxInit
    BY DEF Init, Mailbox!MailboxInit
<1>2. ScannerInv /\ [Next]_vars =>
          [Mailbox!MailboxNext]_(Mailbox!mailboxVars)
  <2> SUFFICES ASSUME ScannerInv, [Next]_vars
               PROVE  Mailbox!MailboxNext \/ UNCHANGED Mailbox!mailboxVars
    OBVIOUS
  <2> USE DEF ScannerInv, TypeOK, Mailbox!mailboxVars, requestVars,
              resultVars, readyVars, lifeVars
  <2>1. CASE ScanSucceeds
    <3>1. ~freed /\ ~freed' /\ ~stop_requested /\ scans > posted
      BY <2>1 DEF ScanSucceeds, MayPublish, scanner_retain, NoUseAfterFree,
                  ScanProtocol
    <3>2. Mailbox!Post
      BY <2>1, <3>1 DEF ScanSucceeds, Mailbox!Post
    <3> QED
      BY <3>2 DEF Mailbox!MailboxNext
  <2>2. CASE lsm_process_scanner_take
    <3>1. Mailbox!Take
      BY <2>2 DEF lsm_process_scanner_take, MayCall, NoUseAfterFree,
                  Mailbox!Take
    <3> QED
      BY <3>1 DEF Mailbox!MailboxNext
  <2>3. CASE lsm_process_scanner_destroy \/ DetachFails
    <3>1. stop_requested' = TRUE /\ UNCHANGED <<freed, resultVars>>
      BY <2>3 DEF lsm_process_scanner_destroy, DetachFails
    <3>2. Mailbox!Close
      BY <3>1 DEF Mailbox!Close
    <3> QED
      BY <3>2 DEF Mailbox!MailboxNext
  <2>4. CASE \/ WorkerExits \/ ReleaseApp \/ ReleaseJoined
             \/ scanner_ready_dispatch_destroy
    \* The step that frees the structure drops an unread snapshot.
    <3>1. stop_requested \/ ~freed'
      BY <2>4 DEF WorkerExits, ReleaseApp, ReleaseJoined, scanner_release,
                  scanner_ready_dispatch_destroy, StopProtocol, Construction,
                  ReferencesCounted, WorkerHolds, OwnerHolds, DeliveryHolds,
                  Announcements, Count, NoUseAfterFree, WorkerStates
    <3>2. Mailbox!Discard \/ UNCHANGED Mailbox!mailboxVars
      BY <2>4, <3>1 DEF WorkerExits, ReleaseApp, ReleaseJoined,
                  scanner_release, scanner_ready_dispatch_destroy,
                  NoUseAfterFree, Mailbox!Discard
    <3> QED
      BY <3>2 DEF Mailbox!MailboxNext
  <2>5. CASE CreateFails
    BY <2>5 DEF CreateFails, Construction, ScanProtocol
  <2>6. CASE \/ CreateThread \/ DetachSucceeds \/ JoinWorker
             \/ WorkerWaits \/ WorkerSeesStop \/ ScanBegins \/ ScanDiscarded
             \/ ScanFails \/ WorkerQueuesDispatch \/ SpuriousWakeup
    <3>1. UNCHANGED <<freed, stop_requested, resultVars>>
      BY <2>6 DEF CreateThread, DetachSucceeds, JoinWorker, WorkerWaits,
                  WorkerSeesStop, ScanBegins, ScanDiscarded, ScanFails,
                  WorkerQueuesDispatch, SpuriousWakeup
    <3> QED
      BY <3>1
  <2>7. CASE \/ MainQueuesDispatch \/ scanner_ready_dispatch
             \/ CallbackReturns \/ UNCHANGED vars
             \/ \E flags \in Flags : lsm_process_scanner_request(flags)
    <3>1. UNCHANGED <<freed, stop_requested, resultVars>>
      BY <2>7 DEF MainQueuesDispatch, scanner_ready_dispatch,
                  CallbackReturns, lsm_process_scanner_request, vars
    <3> QED
      BY <3>1
  <2>8. ASSUME NEW callback \in BOOLEAN,
               lsm_process_scanner_set_ready_callback(callback)
        PROVE  UNCHANGED Mailbox!mailboxVars
    BY <2>8 DEF lsm_process_scanner_set_ready_callback, scanner_retain
  <2> QED
    BY <2>1, <2>2, <2>3, <2>4, <2>5, <2>6, <2>7, <2>8
    DEF Next, CreateStep, WorkerStep, MainLoopStep, ClientStep, Stopped
<1> QED
    BY <1>1, <1>2, ScannerInvariant, PTL
    DEF Spec, ImplementsMailbox, Mailbox!MailboxSpec

=============================================================================
