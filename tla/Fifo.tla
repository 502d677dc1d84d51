-------------------------------- MODULE Fifo --------------------------------
(***************************************************************************)
(* What a KCP connection promises its two users: a reliable, ordered       *)
(* message stream in each direction.  A message is handed over whole,      *)
(* exactly once, and in the order in which it was accepted.  Nothing is    *)
(* said about segments, acknowledgements, windows or the datagrams that    *)
(* carry them.                                                             *)
(***************************************************************************)
EXTENDS Naturals, Sequences

CONSTANTS
    Message,    \* the messages a user may hand to its endpoint
    End,        \* the two endpoints of the connection
    Other(_)    \* the endpoint at the far side

VARIABLES
    accepted,   \* accepted[e]: the messages taken from the user of e, in order
    delivered   \* delivered[e]: the messages handed to the user of e, in order

fifoVars == <<accepted, delivered>>

Init ==
    /\ accepted = [e \in End |-> <<>>]
    /\ delivered = [e \in End |-> <<>>]

\* The user of e hands over a message.
Accept(e) ==
    /\ \E m \in Message : accepted' = [accepted EXCEPT ![e] = Append(@, m)]
    /\ UNCHANGED delivered

\* The user of e is given the oldest message it has not seen yet.
Deliver(e) ==
    /\ Len(delivered[e]) < Len(accepted[Other(e)])
    /\ delivered' = [delivered EXCEPT
            ![e] = Append(@, accepted[Other(e)][Len(@) + 1])]
    /\ UNCHANGED accepted

Next == \E e \in End : Accept(e) \/ Deliver(e)

Spec == Init /\ [][Next]_fifoVars
=============================================================================
