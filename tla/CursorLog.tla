----------------------------- MODULE CursorLog -----------------------------
(***************************************************************************)
(* What an indexed log with a resume cursor promises, whatever reads the   *)
(* chain and however often it is restarted: events are recorded once and   *)
(* for all, and the cursor moves forward, only over events that have been  *)
(* recorded or given up on.                                                *)
(***************************************************************************)
EXTENDS Naturals

CONSTANTS
    Event,     \* the events to record
    LedgerOf,  \* the ledger of each
    Ledger     \* the ledgers of the chain

VARIABLES
    log,    \* events recorded
    gone,   \* events given up on
    mark    \* the resume cursor

Init == log = {} /\ gone = {} /\ mark = 0

Record(e) ==
    /\ log' = log \cup {e}
    /\ UNCHANGED <<gone, mark>>

GiveUp(e) ==
    /\ gone' = gone \cup {e}
    /\ UNCHANGED <<log, mark>>

Advance(l) ==
    /\ mark < l
    /\ {e \in Event : LedgerOf[e] < l} \subseteq log \cup gone
    /\ mark' = l
    /\ UNCHANGED <<log, gone>>

Next ==
    \/ \E e \in Event : Record(e) \/ GiveUp(e)
    \/ \E l \in Ledger : Advance(l)

Spec == Init /\ [][Next]_<<log, gone, mark>>

=============================================================================
