---------------------------- MODULE LatestMailbox ----------------------------
(***************************************************************************)
(* What every background worker of the program promises to its consumer on *)
(* the user-interface thread: a one-slot mailbox that holds the newest     *)
(* complete result.  The worker may replace an unread result by a newer    *)
(* one, the consumer takes a result at most once, results are delivered in *)
(* the order in which they were produced, and once the mailbox has been    *)
(* closed nothing is posted to it any more.                                *)
(*                                                                         *)
(* A result is named by the number of the collection cycle that produced   *)
(* it; 0 stands for "no result".                                           *)
(***************************************************************************)
EXTENDS Naturals

VARIABLES
    slot,        \* The unread result, 0 when there is none.
    posted,      \* The newest result ever posted.
    delivered,   \* The newest result handed to the consumer.
    closed       \* The owner has asked the worker to stop.

mailboxVars == <<slot, posted, delivered, closed>>

MailboxInit ==
    /\ slot = 0
    /\ posted = 0
    /\ delivered = 0
    /\ closed = FALSE

(* A newer result replaces whatever the slot holds. *)
Post ==
    /\ ~closed
    /\ posted' > posted
    /\ slot' = posted'
    /\ UNCHANGED <<delivered, closed>>

Take ==
    /\ slot # 0
    /\ delivered' = slot
    /\ slot' = 0
    /\ UNCHANGED <<posted, closed>>

(* An unread result may be dropped when its owner is torn down. *)
Discard ==
    /\ closed
    /\ slot' = 0
    /\ UNCHANGED <<posted, delivered, closed>>

Close ==
    /\ closed' = TRUE
    /\ UNCHANGED <<slot, posted, delivered>>

MailboxNext == Post \/ Take \/ Discard \/ Close

MailboxSpec == MailboxInit /\ [][MailboxNext]_mailboxVars

=============================================================================
