---------------------------- MODULE RoyaltySplit ----------------------------
(***************************************************************************)
(* computeLineItems and assertValidSplit (src/services/royaltySplit.ts):   *)
(* a payment is split by basis points with the largest-remainder method.   *)
(* One behaviour is one call; a step of HandOut is one turn of the loop    *)
(* over byRemainderDesc.  Amounts are BigInts, so they have no width.      *)
(***************************************************************************)
EXTENDS Integers, Sequences, Functions

CONSTANTS
    TotalBps,  \* TOTAL_BASIS_POINTS
    Splits,    \* the recipient lists the function is called with, legal or not
    Amounts    \* the amounts it is called with

ASSUME BpsAssumption == TotalBps \in Nat \ {0}
ASSUME InputsAssumption ==
    /\ Amounts \subseteq Int
    /\ \A rs \in Splits :
        /\ DOMAIN rs = 1..Len(rs) /\ Len(rs) \in Nat
        /\ \A i \in DOMAIN rs : rs[i].basisPoints \in Int

VARIABLES
    totalAmount, recipients,  \* the arguments
    pc,
    floor, remainder,         \* shares
    shortfall, amounts,
    queue                     \* the indexes byRemainderDesc has still to come to

vars == <<totalAmount, recipients, pc, floor, remainder, shortfall, amounts, queue>>

Indexes == DOMAIN recipients

Init ==
    /\ totalAmount \in Amounts /\ recipients \in Splits
    /\ pc = "start" /\ shortfall = 0 /\ queue = {}
    /\ floor = [i \in Indexes |-> 0] /\ remainder = floor /\ amounts = floor

\* At least one recipient, none twice, each in (0, 10000], together exactly 10000.
assertValidSplit(rs) ==
    /\ rs # <<>>
    /\ \A i, j \in DOMAIN rs : rs[i].recipient = rs[j].recipient => i = j
    /\ \A i \in DOMAIN rs : rs[i].basisPoints \in 1..TotalBps
    /\ SumFunction([i \in DOMAIN rs |-> rs[i].basisPoints]) = TotalBps

\* A SplitValidationError is thrown before anything is computed.
Reject ==
    /\ pc = "start" /\ (totalAmount <= 0 \/ ~assertValidSplit(recipients))
    /\ pc' = "rejected"
    /\ UNCHANGED <<totalAmount, recipients, floor, remainder, shortfall, amounts, queue>>

Scaled(i) == totalAmount * recipients[i].basisPoints

\* The rounded-down shares, and what the rounding leaves over.
Share ==
    /\ pc = "start" /\ totalAmount > 0 /\ assertValidSplit(recipients)
    /\ floor' = [i \in Indexes |-> Scaled(i) \div TotalBps]
    /\ remainder' = [i \in Indexes |-> Scaled(i) % TotalBps]
    /\ shortfall' = totalAmount - SumFunction(floor')
    /\ amounts' = floor'
    /\ queue' = Indexes
    /\ pc' = "leftover"
    /\ UNCHANGED <<totalAmount, recipients>>

\* Mutant of Before.
BeforeAscending(i, j) == remainder[i] < remainder[j] \/ (remainder[i] = remainder[j] /\ i < j)

\* The order of byRemainderDesc: the larger remainder first, then the earlier recipient.
Before(i, j) == remainder[i] > remainder[j] \/ (remainder[i] = remainder[j] /\ i < j)

\* Mutant of LeftOver.
NeverBreaks == queue # {}

\* The loop goes on while there are recipients in the list and stroops to give.
LeftOver == queue # {} /\ shortfall > 0

HandOut ==
    /\ pc = "leftover" /\ LeftOver
    /\ \E i \in queue :
        /\ \A j \in queue \ {i} : Before(i, j)
        /\ amounts' = [amounts EXCEPT ![i] = @ + 1]
        /\ queue' = queue \ {i}
    /\ shortfall' = shortfall - 1
    /\ UNCHANGED <<totalAmount, recipients, pc, floor, remainder>>

Return ==
    /\ pc = "leftover" /\ ~LeftOver
    /\ pc' = "done"
    /\ UNCHANGED <<totalAmount, recipients, floor, remainder, shortfall, amounts, queue>>

Next == Reject \/ Share \/ HandOut \/ Return
Spec == Init /\ [][Next]_vars
----------------------------------------------------------------------------
\* "The line items always sum to exactly totalAmount - no stroop is lost or minted": what
\* has been given out and what is left are the payment at every turn of the loop, never
\* more than it, and the list of recipients never runs out before the leftover does.
NoStroopLost ==
    /\ amounts \in [Indexes -> Nat] /\ shortfall \in Nat
    /\ pc \in {"leftover", "done"} => SumFunction(amounts) + shortfall = totalAmount
    /\ pc = "done" => shortfall = 0

\* "The leftover from rounding is spread across whichever recipients' shares rounded down
\* the hardest": a recipient gets its share rounded down or one stroop more, and nobody who
\* got the extra stroop lost less to rounding than somebody who did not.
HardestRoundedFirst ==
    pc \in {"leftover", "done"} =>
        /\ \A i \in Indexes : amounts[i] \in {floor[i], floor[i] + 1}
        /\ \A i, j \in Indexes :
            amounts[i] > floor[i] /\ amounts[j] = floor[j] => remainder[i] >= remainder[j]

\* The order of the list and the rounding never pay a smaller share more than a larger one.
LargerShareNeverLess ==
    pc \in {"leftover", "done"} =>
        \A i, j \in Indexes :
            recipients[i].basisPoints > recipients[j].basisPoints => amounts[i] >= amounts[j]
=============================================================================
