------------------------------ MODULE Channels ------------------------------
(***************************************************************************)
(* What runs between the proxy B and the server C, as their handlers see   *)
(* it: the control conversation (conv 0) and one data conversation for     *)
(* each session id.                                                        *)
(*                                                                         *)
(* A data conversation is the reliable FIFO that module Kcp is shown to    *)
(* implement.  The control conversation is taken to be what the comment at *)
(* KcpServer/main.cpp:16 says of it, reliable signalling both ways; module *)
(* ControlSession models what kcp/ControlSession.cpp makes of it.  Nothing *)
(* orders one conversation against another.                                *)
(***************************************************************************)
EXTENDS Integers, Sequences, FiniteSets

CONSTANTS
    Conn,       \* the TCP connections that clients A open to the proxy
    IdSpace,    \* the number of values of a uint32_t session id
    FirstId,    \* KcpServer::id_ at the start
    MaxUp,      \* bound: messages a client sends on its connection
    MaxDown,    \* bound: messages D sends on one connection
    MaxStray,   \* bound: datagrams that reach B for an id it does not know
    MaxHours    \* bound: how often an hour passes

\* The ids do not come round to one that was already given out.
ASSUME ChannelsAssumption ==
    /\ IdSpace \in Nat
    /\ FirstId \in 0..(IdSpace - 1)
    /\ IsFiniteSet(Conn)
    /\ Cardinality(Conn) < IdSpace
    /\ MaxUp \in Nat
    /\ MaxDown \in Nat
    /\ MaxStray \in Nat
    /\ MaxHours \in Nat

VARIABLES
    ctlUp,    \* control messages from B to C, in order
    ctlDown,  \* control messages from C to B, in order
    up,       \* up[id]: payloads in the data conversation, from B to C
    down,     \* down[id]: payloads from C to B
    spoken    \* the conversations in which C has sent a datagram

chanVars == <<ctlUp, ctlDown, up, down, spoken>>

Id == 0..(IdSpace - 1)

CreateSession == [cmd |-> "CREATE"]

DestroySession(id) == [cmd |-> "DESTROY", id |-> id]

CreateResponse(id) == [cmd |-> "RSP_CREATE", id |-> id]

\* A payload: the n-th message that the user s sent.
Payload(s, n) == [from |-> s, num |-> n]

\* The first n messages of s.
AllFrom(s, n) == [i \in 1..n |-> Payload(s, i)]

ChannelsInit ==
    /\ ctlUp = <<>>
    /\ ctlDown = <<>>
    /\ up = [id \in Id |-> <<>>]
    /\ down = [id \in Id |-> <<>>]
    /\ spoken = {}

ChannelsTypeOK ==
    /\ ctlUp \in Seq({CreateSession} \cup {DestroySession(id) : id \in Id})
    /\ ctlDown \in Seq({CreateResponse(id) : id \in Id})
    /\ up \in [Id -> Seq([from : Conn, num : Nat])]
    /\ down \in [Id -> Seq([from : Id, num : Nat])]
    /\ spoken \subseteq Id

=============================================================================
