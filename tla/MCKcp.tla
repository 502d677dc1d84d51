------------------------------- MODULE MCKcp --------------------------------
(***************************************************************************)
(* Instances of Kcp for TLC.  The .cfg files choose among these values for *)
(* the bounds that are functions of the endpoint.                          *)
(***************************************************************************)
EXTENDS Kcp

\* MaxMsgs: how many messages each user sends.
ThreeFromB == [e \in Endpoint |-> IF e = "B" THEN 3 ELSE 0]
TwoFromB == [e \in Endpoint |-> IF e = "B" THEN 2 ELSE 0]
OneEach == [e \in Endpoint |-> 1]

\* MaxInFlight: how many datagrams travel to each endpoint.  With two of them
\* on the way to C, data is reordered; with one, it can only be lost.
TwoToC == [e \in Endpoint |-> IF e = "C" THEN 2 ELSE 1]
OneToEach == [e \in Endpoint |-> 1]
=============================================================================
