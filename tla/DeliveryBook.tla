---------------------------- MODULE DeliveryBook ----------------------------
(***************************************************************************)
(* What webhooks promise of a sale: a delivery is opened for every         *)
(* subscription that is active when the sale is announced, and for no      *)
(* other.  Every try at it is one entry in the book, which says what has   *)
(* become of the delivery: it is delivered only if its receiver has        *)
(* confirmed it, given up only when the tries are used up, and open until  *)
(* then.  A late try may still change what is said of a delivery that is   *)
(* closed, but opens none whose tries are used up.                         *)
(***************************************************************************)
EXTENDS Integers

CONSTANTS Subscriptions, Sales, MaxAttempts

Deliveries == Subscriptions \X Sales

VARIABLES
    subscribed,  \* the subscriptions active now
    announced,   \* the sales so far
    mark,        \* of each delivery: none, pending, delivered, failed
    tries,       \* entries about it
    confirmed    \* the deliveries whose receivers have confirmed
vars == <<subscribed, announced, mark, tries, confirmed>>

Init ==
    /\ subscribed = {} /\ announced = {} /\ confirmed = {}
    /\ mark = [d \in Deliveries |-> "none"] /\ tries = [d \in Deliveries |-> 0]

ChangeSubscriptions ==
    /\ subscribed' \in SUBSET Subscriptions
    /\ UNCHANGED <<announced, mark, tries, confirmed>>

Announce(e) ==
    /\ e \notin announced /\ announced' = announced \cup {e}
    /\ mark' = [d \in Deliveries |->
                   IF d[1] \in subscribed /\ d[2] = e THEN "pending" ELSE mark[d]]
    /\ UNCHANGED <<subscribed, tries, confirmed>>

Confirm(d) ==
    /\ mark[d] # "none" /\ confirmed' = confirmed \cup {d}
    /\ UNCHANGED <<subscribed, announced, mark, tries>>

\* What may be said of a delivery after some number of tries.
Told(d, number) ==
    {m \in {"pending", "delivered", "failed"} :
        /\ m = "delivered" => d \in confirmed
        /\ m = "failed" => number >= MaxAttempts
        /\ m = "pending" => number < MaxAttempts}

Try(d) ==
    /\ mark[d] # "none" /\ tries' = [tries EXCEPT ![d] = @ + 1]
    /\ \E m \in Told(d, tries[d] + 1) : mark' = [mark EXCEPT ![d] = m]
    /\ UNCHANGED <<subscribed, announced, confirmed>>

Next ==
    \/ ChangeSubscriptions
    \/ \E e \in Sales : Announce(e)
    \/ \E d \in Deliveries : Confirm(d) \/ Try(d)
Spec == Init /\ [][Next]_vars
=============================================================================
