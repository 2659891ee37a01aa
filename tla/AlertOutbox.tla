----------------------------- MODULE AlertOutbox -----------------------------
(***************************************************************************)
(* What the Telegram retry queue promises to the tasks that hand it a      *)
(* failed broadcast, with no queue, lock or flush in it: an alert stays    *)
(* pending until Telegram has accepted it, unless it grew too old or       *)
(* Capacity newer alerts have been submitted since.                        *)
(***************************************************************************)
EXTENDS Naturals

CONSTANT Capacity   \* newer alerts it takes to displace a pending one

VARIABLES
    issued,     \* how many alerts were submitted; alert i is the i-th of them
    pending,    \* the alerts still to be delivered
    accepted,   \* the alerts Telegram has accepted
    tooOld      \* the alerts past the age at which they are still useful

outboxVars == <<issued, pending, accepted, tooOld>>

OutboxInit ==
    /\ issued = 0
    /\ pending = {}
    /\ accepted = {}
    /\ tooOld = {}

\* The alerts that Capacity newer ones follow once n alerts are submitted.
Displaceable(n) == {i \in 1..n : n - i >= Capacity}

\* A new alert; Telegram may have accepted it although its sender saw a failure.
Submit ==
    /\ issued' = issued + 1
    /\ \E displaced \in SUBSET (pending \cap Displaceable(issued')) :
          pending' = (pending \ displaced) \cup {issued'}
    /\ accepted' \in {accepted, accepted \cup {issued'}}
    /\ UNCHANGED tooOld

\* Telegram accepts an alert, which may have been displaced while in flight.
Accept(i) ==
    /\ accepted' = accepted \cup {i}
    /\ UNCHANGED <<issued, pending, tooOld>>

\* An alert leaves the outbox for one of the two reasons that allow it.
Retire(i) ==
    /\ i \in pending
    /\ i \in accepted \cup tooOld
    /\ pending' = pending \ {i}
    /\ UNCHANGED <<issued, accepted, tooOld>>

GrowOld ==
    /\ tooOld \subseteq tooOld'
    /\ tooOld' \subseteq 1..issued
    /\ UNCHANGED <<issued, pending, accepted>>

OutboxNext ==
    \/ Submit
    \/ \E i \in 1..issued : Accept(i) \/ Retire(i)
    \/ GrowOld

OutboxSpec == OutboxInit /\ [][OutboxNext]_outboxVars

=============================================================================
