------------------------------- MODULE Poller -------------------------------
(***************************************************************************)
(* muduo/net/poller/{PollPoller,EPollPoller}.cc and the registration half  *)
(* of Channel.cc.  newDefaultPoller takes one of the two pollers by the    *)
(* environment; here the same calls go to both, so that what they watch    *)
(* and report can be compared.  A channel is named by its descriptor: a    *)
(* removed channel and a new one on the descriptor look alike to a poller. *)
(***************************************************************************)
EXTENDS Integers, FiniteSets, Sequences, SequencesExt

CONSTANTS Fds,      \* descriptors, natural numbers
          InitEvents, \* kInitEventListSize
          MaxEvents \* bound: size that events_ may reach

ASSUME PollerAssumption ==
    /\ Fds \subseteq Nat /\ IsFiniteSet(Fds)
    /\ MaxEvents \in Nat /\ InitEvents \in 1 .. MaxEvents

VARIABLES chEvents,   \* Channel::events_, a subset of Interest
          chIndex,    \* Channel::index_ as PollPoller sets it
          chState,    \* Channel::index_ as EPollPoller sets it
          channels_,  \* Poller::channels_, the same for both
          pollfds_,   \* PollPoller: sequence of [fd, events]
          kernel,     \* the interest list of epollfd_: descriptor -> events
          eventsSize, \* EPollPoller::events_.size()
          pollActive, \* activeChannels_ as PollPoller fills it
          epollActive, \* and as EPollPoller does, in any order: a set
          current,    \* EventLoop::currentActiveChannel_, or -1
          silent      \* channels whose first update asked for no events, and
                      \* that were not updated since: history

pollerVars == <<chEvents, chIndex, chState, channels_, pollfds_, kernel,
                eventsSize, pollActive, epollActive, current, silent>>

Interest == {"read", "write"}
kNew == -1
kAdded == 1
kDeleted == 2

PollerInit ==
    /\ chEvents = [c \in Fds |-> {}]
    /\ chIndex = [c \in Fds |-> -1] /\ chState = [c \in Fds |-> kNew]
    /\ channels_ = {} /\ pollfds_ = <<>> /\ kernel = <<>>
    /\ eventsSize = InitEvents
    /\ pollActive = <<>> /\ epollActive = {} /\ current = -1
    /\ silent = {}

-----------------------------------------------------------------------------
(* PollPoller::updateChannel and removeChannel *)

\* Slip: descriptor 0 is not changed.
Negated_NoMinusOne(fd) == -fd

\* The descriptor of an ignored pollfd; it is its own inverse.
Negated(fd) == -fd - 1

\* The descriptor of a slot; without events it is ignored.
SlotFd(c, ev) == IF ev = {} THEN Negated(c) ELSE c

\* The descriptor of the channel that has a slot
SlotOwner(p) == IF p.fd < 0 THEN Negated(p.fd) ELSE p.fd

\* A new channel is appended as it is, a known one rewritten in its slot.
PollUpdate(c, ev) ==
    IF chIndex[c] < 0
    THEN /\ pollfds_' = Append(pollfds_, [fd |-> c, events |-> ev])
         /\ chIndex' = [chIndex EXCEPT ![c] = Len(pollfds_)]
    ELSE /\ pollfds_' = [pollfds_ EXCEPT ![chIndex[c] + 1] =
                [fd |-> SlotFd(c, ev), events |-> ev]]
         /\ UNCHANGED chIndex

\* The last slot moves into the one that gets free.
PollRemove(c) ==
    LET idx == chIndex[c] + 1
        last == Last(pollfds_)
        atEnd == SlotOwner(last)
    IN  /\ pollfds_' = Front([pollfds_ EXCEPT ![idx] = last])
        /\ chIndex' = [chIndex EXCEPT ![atEnd] = idx - 1, ![c] = -1]

-----------------------------------------------------------------------------
(* EPollPoller::updateChannel and removeChannel *)

Without(f, c) == [d \in DOMAIN f \ {c} |-> f[d]]

EpollUpdate(c, ev) ==
    IF chState[c] = kAdded /\ ev = {}
    THEN /\ kernel' = Without(kernel, c)
         /\ chState' = [chState EXCEPT ![c] = kDeleted]
    ELSE /\ kernel' = [d \in DOMAIN kernel \cup {c} |->
                           IF d = c THEN ev ELSE kernel[d]]
         /\ chState' = [chState EXCEPT ![c] = kAdded]

EpollRemove(c) ==
    /\ kernel' = IF chState[c] = kAdded THEN Without(kernel, c) ELSE kernel
    /\ chState' = [chState EXCEPT ![c] = kNew]

-----------------------------------------------------------------------------
(* Channel: every change of events_ goes through update() *)

SetEvents(c, ev) ==
    /\ chEvents' = [chEvents EXCEPT ![c] = ev]
    /\ channels_' = channels_ \cup {c}
    /\ PollUpdate(c, ev)
    /\ EpollUpdate(c, ev)
    /\ silent' = IF c \notin channels_ /\ ev = {} THEN silent \cup {c}
                 ELSE silent \ {c}
    /\ UNCHANGED <<eventsSize, pollActive, epollActive, current>>

enable(c, e) == SetEvents(c, chEvents[c] \cup {e})

\* Nothing asks whether the channel was ever enabled: the destructor of an
\* Acceptor that never listened registers its channel this way.
disable(c, e) == SetEvents(c, chEvents[c] \ {e})

channelDisableAll(c) == SetEvents(c, {})

\* No event of this round is still to come for the channel, but perhaps the
\* one that is being handled.
MayRemove(c) ==
    current = c \/ c \notin Range(pollActive) \cup epollActive

\* Channel::remove and EventLoop::removeChannel, with their assertions on the
\* caller: no events left, and not a channel whose event is still to come.
\* The assertion on the slot, PollPoller.cc:122, is RemovableSlots below; a
\* build without assertions goes on.
channelRemove(c) ==
    /\ c \in channels_
    /\ chEvents[c] = {}
    /\ MayRemove(c)
    /\ channels_' = channels_ \ {c}
    /\ PollRemove(c)
    /\ EpollRemove(c)
    /\ silent' = silent \ {c}
    /\ UNCHANGED <<chEvents, eventsSize, pollActive, epollActive, current>>

-----------------------------------------------------------------------------
(* poll() and fillActiveChannels; ready is what the descriptors would report *)

\* The sequence of the channels whose slots report, in the order of the slots.
\* A slot without events still reports POLLHUP and POLLERR if its descriptor
\* is not negated, as epoll does below; TcpConnection has these.
PollReports(ready) ==
    LET slots == {i \in DOMAIN pollfds_ : pollfds_[i].fd \in ready
                                          /\ pollfds_[i].events # {}} IN
    {[k \in DOMAIN s |-> pollfds_[s[k]].fd] :
        s \in {t \in SetToSeqs(slots) :
                 \A j, k \in DOMAIN t : j < k => t[j] < t[k]}}

\* Descriptors epoll would report; an empty interest still reports POLLHUP
\* and POLLERR, which TcpConnection has.
EpollReports(ready) ==
    {c \in DOMAIN kernel : c \in ready /\ kernel[c] # {}}

\* The size of events_ after n events; it doubles when it was filled.
Grown(n) == IF n = eventsSize /\ 2 * eventsSize <= MaxEvents
            THEN 2 * eventsSize ELSE eventsSize

pollOnce(ready) ==
    /\ current = -1 /\ pollActive = <<>> /\ epollActive = {}
    /\ pollActive' \in PollReports(ready)
    /\ \E reported \in SUBSET EpollReports(ready) :
         /\ Cardinality(reported) =
              IF Cardinality(EpollReports(ready)) < eventsSize
              THEN Cardinality(EpollReports(ready)) ELSE eventsSize
         /\ epollActive' = reported
         /\ eventsSize' = Grown(Cardinality(reported))
    /\ UNCHANGED <<chEvents, chIndex, chState, channels_, pollfds_, kernel,
                   current, silent>>

\* The loop over activeChannels_, following the list of the poll poller.
nextChannel ==
    /\ pollActive # <<>>
    /\ current' = Head(pollActive)
    /\ pollActive' = Tail(pollActive)
    /\ epollActive' = epollActive \ {Head(pollActive)}
    /\ UNCHANGED <<chEvents, chIndex, chState, channels_, pollfds_, kernel,
                   eventsSize, silent>>

lastChannel ==
    /\ pollActive = <<>> /\ current # -1
    /\ current' = -1 /\ epollActive' = {}
    /\ UNCHANGED <<chEvents, chIndex, chState, channels_, pollfds_, kernel,
                   eventsSize, pollActive, silent>>

PollerNext ==
    \/ \E c \in Fds : \/ \E e \in Interest : enable(c, e) \/ disable(c, e)
                      \/ channelDisableAll(c)
                      \/ channelRemove(c)
    \/ \E ready \in SUBSET Fds : pollOnce(ready)
    \/ nextChannel
    \/ lastChannel

PollerSpec == PollerInit /\ [][PollerNext]_pollerVars

-----------------------------------------------------------------------------
(* The registrations are well formed, and EPollPoller::poll, which resizes
   events_ to twice its size, never leaves it empty.                        *)
PollerTypeOK ==
    /\ chEvents \in [Fds -> SUBSET Interest]
    /\ \A c \in Fds : chIndex[c] \in -1 .. Cardinality(Fds) - 1
    /\ chState \in [Fds -> {kNew, kAdded, kDeleted}]
    /\ channels_ \subseteq Fds /\ DOMAIN kernel \subseteq Fds
    /\ eventsSize \in 1 .. MaxEvents
    /\ silent \subseteq channels_

(* Through every order of enabling, disabling and removing, the slot a
   channel remembers is its own, after slots have been swapped too: the
   assertions at PollPoller.cc:98-100 and 120-121 hold, and line 122 does for
   every channel but one that was disabled before it was ever enabled.      *)
SlotsAreRight ==
    /\ Len(pollfds_) = Cardinality(channels_)
    /\ \A c \in channels_ :
         LET p == pollfds_[chIndex[c] + 1] IN
         /\ p.fd \in {c, Negated(c)}
         /\ p.events = chEvents[c]
         /\ p.fd = c <=> chEvents[c] # {} \/ c \in silent
    /\ \A c \in Fds \ channels_ : chIndex[c] = -1 /\ chState[c] = kNew

(* The two pollers watch the same descriptors for the same events, so the
   program behaves alike under either.                                      *)
PollersAgree ==
    {<<p.fd, p.events>> :
        p \in {q \in Range(pollfds_) : q.fd >= 0 /\ q.events # {}}} =
    {<<c, kernel[c]>> : c \in {d \in DOMAIN kernel : kernel[d] # {}}}

(* An event is only ever dispatched to a channel that is registered, even
   when handlers of the same round remove channels.                         *)
ActiveAreRegistered ==
    Range(pollActive) \cup epollActive \subseteq channels_

(* The bookkeeping of both pollers is right after any order of updates and *)
(* removals, they agree, and they dispatch to registered channels only.    *)
PollerInv ==
    PollerTypeOK /\ SlotsAreRight /\ PollersAgree /\ ActiveAreRegistered

(* A registered channel without events, which may be removed at any time,
   has the slot that PollPoller::removeChannel asserts at line 122: ignored,
   with the negated descriptor.  It has not if its first update was a
   disableAll, as in ~Acceptor before listen() (Acceptor.cc:42-43).         *)
RemovableSlots ==
    \A c \in channels_ :
        chEvents[c] = {} => pollfds_[chIndex[c] + 1].fd = Negated(c)
=============================================================================
