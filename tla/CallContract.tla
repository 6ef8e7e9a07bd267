---------------------------- MODULE CallContract ----------------------------
(***************************************************************************)
(* What a retried provider call promises its caller, whatever the time its *)
(* attempts take and whichever way it delivers its result: the attempts it *)
(* may dispatch, when it may still retry, and what its one result says     *)
(* about attempts and money. generate and stream both implement it.        *)
(***************************************************************************)
EXTENDS Naturals

CONSTANT MaxAttempts

VARIABLES
    open,        \* the call has not ended
    cancelled,   \* the caller's signal is set
    dispatched,  \* engine attempts started
    shown,       \* the caller has seen output of an attempt
    exposed,     \* the provider may charge for some attempt
    result       \* what the call told the caller at its end: at most one

contract == <<open, cancelled, dispatched, shown, exposed, result>>

ContractInit ==
    /\ open = TRUE /\ cancelled \in BOOLEAN /\ dispatched = 0
    /\ shown = FALSE /\ exposed = FALSE /\ result = {}

\* The signal belongs to the caller, who may set it whenever he likes.
Cancel ==
    /\ cancelled' = TRUE
    /\ UNCHANGED <<open, dispatched, shown, exposed, result>>

\* Never after the signal, nor once output has been shown.
Dispatch ==
    /\ open /\ ~ cancelled /\ ~ shown /\ dispatched < MaxAttempts
    /\ dispatched' = dispatched + 1
    /\ UNCHANGED <<open, cancelled, shown, exposed, result>>

Expose ==
    /\ open /\ dispatched > 0
    /\ exposed' \in BOOLEAN
    /\ UNCHANGED <<open, cancelled, dispatched, shown, result>>

Show ==
    /\ open /\ dispatched > 0
    /\ shown' = TRUE
    /\ UNCHANGED <<open, cancelled, dispatched, exposed, result>>

\* The result accounts for every attempt: one record each, and one more for a
\* cancellation noticed before the next attempt. It never hides a charge.
Answer ==
    /\ open /\ open' = FALSE
    /\ \E records \in {dispatched, dispatched + 1}, cancellation, billable \in BOOLEAN :
        /\ result' = {[records |-> records, cancellation |-> cancellation,
                       billable |-> billable]}
        /\ exposed => billable
        /\ cancellation => cancelled
        /\ (records # dispatched \/ dispatched = 0) => cancellation
    /\ UNCHANGED <<cancelled, dispatched, shown, exposed>>

\* A defect, or the end of the caller's own task.
GiveUp ==
    /\ open /\ open' = FALSE
    /\ UNCHANGED <<cancelled, dispatched, shown, exposed, result>>

ContractNext == Cancel \/ Dispatch \/ Expose \/ Show \/ Answer \/ GiveUp

Contract == ContractInit /\ [][ContractNext]_contract
=============================================================================
