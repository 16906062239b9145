----------------------------- MODULE LossyFifo -----------------------------
(***************************************************************************)
(* What one subscription promises its consumer, without channels, slow     *)
(* sends or an actor: messages arrive in order; while the subscription is  *)
(* open a message is lost only by being counted; after it is closed no     *)
(* message is added, and what is still pending may be delivered or lost.   *)
(***************************************************************************)
EXTENDS Naturals, Sequences

CONSTANT Message  \* broker positions, a set of naturals

VARIABLES status,     \* "new", "open" or "closed"
          pending,    \* accepted, neither delivered nor lost yet
          delivered,  \* returned by recv()
          missed      \* losses counted so far

vars == <<status, pending, delivered, missed>>

Range(q) == {q[i] : i \in 1..Len(q)}

\* r is q without some of its messages.  (Accept keeps pending increasing, so
\* that a sequence of messages of q in increasing order is a subsequence of q.)
Thinned(r, q) ==
    /\ Range(r) \subseteq Range(q)
    /\ \A i, j \in 1..Len(r) : i < j => r[i] < r[j]

Init == status = "new" /\ pending = <<>> /\ delivered = <<>> /\ missed = 0

Open ==
    /\ status = "new"
    /\ status' = "open"
    /\ UNCHANGED <<pending, delivered, missed>>

\* A later message than any before it is accepted ...
Accept(m) ==
    /\ status = "open"
    /\ \A n \in Range(pending) \cup Range(delivered) : n < m
    /\ pending' = Append(pending, m)
    /\ UNCHANGED <<status, delivered, missed>>

\* ... or refused.
Refuse ==
    /\ status = "open"
    /\ missed' = missed + 1
    /\ UNCHANGED <<status, pending, delivered>>

\* A pending message is given up.
Expire(m) ==
    /\ status = "open"
    /\ Thinned(pending', pending)
    /\ Range(pending') = Range(pending) \ {m}
    /\ missed' = missed + 1
    /\ UNCHANGED <<status, delivered>>

Deliver ==
    /\ pending # <<>>
    /\ delivered' = Append(delivered, Head(pending))
    /\ pending' = Tail(pending)
    /\ UNCHANGED <<status, missed>>

\* The subscription is closed, or is closed already: pending messages may go
\* without being counted.
Close ==
    /\ status' = "closed"
    /\ Thinned(pending', pending)
    /\ missed' \in Nat /\ missed' >= missed
    /\ UNCHANGED delivered

Next ==
    \/ Open \/ Refuse \/ Deliver \/ Close
    \/ \E m \in Message : Accept(m)
    \/ \E m \in Range(pending) : Expire(m)

Spec == Init /\ [][Next]_vars
=============================================================================
