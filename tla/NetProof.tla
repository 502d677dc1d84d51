------------------------------ MODULE NetProof ------------------------------
(***************************************************************************)
(* Machine-checked proofs about what is below the loop and the protocol:    *)
(* the comparisons of sequence numbers are exact for every width, window    *)
(* and datagram lifetime that SeqNum allows, the pollers stay in step with  *)
(* their channels for every set of descriptors, the buffer is a queue of    *)
(* bytes for every size and message, the timing of a kcp sender is right    *)
(* for every clock width, interval and timeout bound, dates and local times *)
(* are those of the calendar for every year from 1600 on, and a log line    *)
(* says what its statement inserted for every value, size and buffer.       *)
(***************************************************************************)
EXTENDS SeqNum, Poller, Buffer, KcpTimer, TimeZone, Logging, DataFacts

-----------------------------------------------------------------------------
(* Sequence numbers                                                          *)

\* _itimediff is the true difference of two counters that are less than half
\* of the number space apart.
LEMMA DiffIsExact ==
    ASSUME NEW x \in Nat, NEW y \in Nat,
           NEW x32 \in 0..(2 * Half - 1), NEW y32 \in 0..(2 * Half - 1),
           Congruent(x, x32, y, y32),
           x - y < Half,
           y - x <= Half
    PROVE  ITimeDiff(x32, y32) = x - y
  BY SeqNumAssumption DEF SeqNumAssumption, Congruent, ITimeDiff

\* SeqInv is inductive: whatever ikcp_flush and ikcp_shrink_buf do, the stored
\* 32-bit counters stay in step with the counters without bound.
THEOREM SeqInvariant == Spec => []SeqInv
<1>1. Init => SeqInv
  BY SeqNumAssumption DEF Init, SeqInv, TypeOK, Congruent, SeqNumAssumption
<1>2. SeqInv /\ [Next]_vars => SeqInv'
  <2> SUFFICES ASSUME SeqInv, [Next]_vars
               PROVE  SeqInv'
    OBVIOUS
  <2> USE SeqNumAssumption DEF SeqNumAssumption
  <2>1. CASE Flush
    <3>1. ITimeDiff(nxt32, Add(una32, Wnd)) = snd_nxt - (snd_una + Wnd)
      BY DEF SeqInv, TypeOK, Congruent, ITimeDiff, Add
    <3>2. snd_nxt + 1 - snd_una <= Wnd
      BY <2>1, <3>1 DEF Flush, SeqInv, TypeOK
    <3>3. QED
      BY <2>1, <3>2 DEF Flush, SeqInv, TypeOK, Congruent, Add
  <2>2. CASE Acknowledge
    BY <2>2 DEF Acknowledge, SeqInv, TypeOK, Congruent, Add
  <2>3. ASSUME NEW k \in 0..(Wnd - 1), Replace(k)
        PROVE  SeqInv'
    BY <2>3 DEF Replace, SeqInv, TypeOK, Congruent, Add
  <2>4. CASE UNCHANGED vars
    BY <2>4 DEF vars, SeqInv, TypeOK, Congruent
  <2>5. QED
    BY <2>1, <2>2, <2>3, <2>4 DEF Next
<1>3. QED
  BY <1>1, <1>2, PTL DEF Spec

\* Every comparison that ikcp.c makes of its sequence numbers is exact as long
\* as window and datagram lifetime together span at most half of the space.
THEOREM ComparisonsAreExact == Spec => []ComparisonsExact
<1>1. SeqInv => ComparisonsExact
  <2> SUFFICES ASSUME SeqInv
               PROVE  ComparisonsExact
    OBVIOUS
  <2> USE SeqNumAssumption DEF SeqNumAssumption
  <2>1. ITimeDiff(nxt32, una32) = snd_nxt - snd_una
    BY DiffIsExact DEF SeqInv, TypeOK
  <2>2. ITimeDiff(sn32, una32) = sn - snd_una
    BY DiffIsExact DEF SeqInv, TypeOK
  <2>3. ITimeDiff(sn32, nxt32) = sn - snd_nxt
    <3>1. Congruent(sn, sn32, snd_nxt, nxt32)
      BY DEF SeqInv, TypeOK, Congruent
    <3>2. QED
      BY <3>1, DiffIsExact DEF SeqInv, TypeOK
  <2>4. QED
    BY <2>1, <2>2, <2>3 DEF ComparisonsExact, SeqInv, TypeOK
<1>2. QED
  BY <1>1, SeqInvariant, PTL

-----------------------------------------------------------------------------
(* The pollers.  PollPoller::removeChannel looks the last channel up by the  *)
(* descriptor in its slot, so the slots must belong to the channels one to   *)
(* one; and the list of epoll follows Channel::events_.                      *)

\* What the variables of the pollers may hold.
Slot == [fd : Int, events : SUBSET Interest]
PollerTypes ==
    /\ chEvents \in [Fds -> SUBSET Interest] /\ chIndex \in [Fds -> Int]
    /\ chState \in [Fds -> {kNew, kAdded, kDeleted}]
    /\ channels_ \in SUBSET Fds /\ pollfds_ \in Seq(Slot)
    /\ DOMAIN kernel \subseteq Fds
    /\ eventsSize \in 1 .. MaxEvents
    /\ pollActive \in Seq(Fds) /\ epollActive \in SUBSET Fds
    /\ current \in Fds \cup {-1}
    /\ silent \in SUBSET channels_

\* A channel has a slot, and a slot a channel.
SlotsOwned ==
    /\ \A c \in channels_ : chIndex[c] \in 0 .. Len(pollfds_) - 1
    /\ \A i \in 1 .. Len(pollfds_) : \E c \in channels_ : chIndex[c] = i - 1

\* The interest list has what the channels in state kAdded ask for.
KernelRight ==
    \A c \in Fds :
        /\ c \in DOMAIN kernel <=> chState[c] = kAdded
        /\ c \in DOMAIN kernel => kernel[c] = chEvents[c]
        /\ chState[c] = kNew <=> c \notin channels_
        /\ chState[c] = kDeleted => chEvents[c] = {}

\* Channels that are watched for nothing from the start have no events.
SilentRight == \A c \in silent : chEvents[c] = {}

\* A round dispatches to a channel once, and it is still registered.
RoundRight ==
    /\ IsInjective(pollActive)
    /\ current \notin Range(pollActive) \cup epollActive
    /\ ActiveAreRegistered

PollerIInv ==
    PollerTypes /\ SlotsAreRight /\ SlotsOwned /\ KernelRight /\ SilentRight
    /\ RoundRight

\* Negated is its own inverse and leaves the descriptors.
LEMMA NegatedFacts ==
    ASSUME NEW fd \in Int
    PROVE  /\ Negated(fd) \in Int /\ Negated(Negated(fd)) = fd
           /\ fd >= 0 <=> Negated(fd) < 0
  BY DEF Negated

\* No two channels share a slot.
LEMMA SlotIsOwn ==
    ASSUME PollerIInv, NEW c \in channels_, NEW d \in channels_,
           chIndex[c] = chIndex[d]
    PROVE  c = d
  <1>1. c \in Nat /\ d \in Nat
    BY PollerAssumption DEF PollerAssumption, PollerIInv, PollerTypes
  <1>2. pollfds_[chIndex[c] + 1].fd \in {c, Negated(c)} \cap {d, Negated(d)}
    BY DEF PollerIInv, SlotsAreRight
  <1> QED
    BY <1>1, <1>2 DEF Negated

\* The registered channels are finitely many.
LEMMA ChannelsFinite ==
    ASSUME PollerTypes
    PROVE  /\ IsFiniteSet(channels_) /\ Cardinality(channels_) \in Nat
           /\ Cardinality(Fds) \in Nat
           /\ Cardinality(channels_) <= Cardinality(Fds)
  <1>1. IsFiniteSet(Fds) /\ channels_ \in SUBSET Fds
    BY PollerAssumption DEF PollerAssumption, PollerTypes
  <1> QED
    BY <1>1, FS_Subset, FS_CardinalityType

\* Every change of a channel's events keeps both pollers right.
LEMMA SetEventsKeeps ==
    ASSUME PollerIInv, NEW c \in Fds, NEW ev \in SUBSET Interest,
           SetEvents(c, ev)
    PROVE  PollerIInv'
  <1> DEFINE n == Len(pollfds_)
  <1>1. /\ c \in Nat /\ n \in Nat
        /\ \A d \in channels_ : d \in Fds /\ d \in Nat /\ chIndex[d] \in 0 .. n - 1
        /\ \A d \in Fds : d \in channels_ <=> chIndex[d] >= 0
    BY PollerAssumption DEF PollerAssumption, PollerIInv, PollerTypes,
       SlotsOwned, SlotsAreRight
  <1>2. /\ chEvents' \in [Fds -> SUBSET Interest]
        /\ \A d \in Fds : chEvents'[d] = IF d = c THEN ev ELSE chEvents[d]
        /\ channels_' = channels_ \cup {c} /\ channels_' \in SUBSET Fds
        /\ \A d : d # c => (d \in silent' <=> d \in silent)
        /\ c \in silent' <=> c \notin channels_ /\ ev = {}
    BY DEF SetEvents, PollerIInv, PollerTypes
  <1>3. ASSUME chIndex[c] < 0
        PROVE  /\ chIndex' \in [Fds -> Int] /\ pollfds_' \in Seq(Slot)
               /\ SlotsAreRight' /\ SlotsOwned'
    <2>1. c \notin channels_ /\ c \in Nat
      BY <1>1, <1>3
    <2>2. [fd |-> c, events |-> ev] \in Slot
      BY <1>1 DEF Slot
    <2>3. /\ pollfds_' = Append(pollfds_, [fd |-> c, events |-> ev])
          /\ chIndex' = [chIndex EXCEPT ![c] = n]
      BY <1>3 DEF SetEvents, PollUpdate
    <2>4. /\ pollfds_' \in Seq(Slot) /\ Len(pollfds_') = n + 1
          /\ \A i \in 1 .. n : pollfds_'[i] = pollfds_[i]
          /\ pollfds_'[n + 1] = [fd |-> c, events |-> ev]
      BY <2>2, <2>3, AppendAt DEF PollerIInv, PollerTypes
    <2>5. /\ chIndex' \in [Fds -> Int]
          /\ \A d \in Fds : chIndex'[d] = IF d = c THEN n ELSE chIndex[d]
      BY <1>1, <2>3 DEF PollerIInv, PollerTypes
    <2>6. Cardinality(channels_') = n + 1
      <3>1. Cardinality(channels_) = n
        BY DEF PollerIInv, SlotsAreRight
      <3> QED
        BY <1>2, <2>1, <3>1, ChannelsFinite, FS_AddElement DEF PollerIInv
    <2>7. chEvents'[c] = ev /\ chIndex'[c] = n /\ c \in channels_'
      BY <1>2, <2>5
    <2>8. ASSUME NEW d \in channels_'
          PROVE  LET p == pollfds_'[chIndex'[d] + 1] IN
                 /\ p.fd \in {d, Negated(d)}
                 /\ p.events = chEvents'[d]
                 /\ p.fd = d <=> chEvents'[d] # {} \/ d \in silent'
      <3>1. CASE d = c
        BY <1>2, <2>1, <2>4, <2>7, <3>1
      <3>2. CASE d # c
        <4>0. d \in channels_
          BY <1>2, <3>2
        <4>1. d \in channels_ /\ chIndex'[d] = chIndex[d] /\ chIndex[d] + 1 \in 1 .. n
          <5>1. d \in Fds /\ chIndex[d] \in 0 .. n - 1 /\ n \in Nat
            BY <1>1, <4>0
          <5>2. chIndex'[d] = chIndex[d]
            BY <2>5, <3>2, <5>1
          <5>3. chIndex[d] + 1 \in 1 .. n
            BY <5>1
          <5> QED
            BY <4>0, <5>2, <5>3
        <4>2. pollfds_'[chIndex'[d] + 1] = pollfds_[chIndex[d] + 1]
              /\ chEvents'[d] = chEvents[d]
          BY <1>1, <1>2, <2>4, <3>2, <4>1
        <4> QED
          BY <1>2, <3>2, <4>1, <4>2 DEF PollerIInv, SlotsAreRight
      <3> QED
        BY <3>1, <3>2
    <2>9. SlotsAreRight'
      <3>1. \A d \in Fds \ channels_' : chIndex'[d] = -1 /\ chState'[d] = kNew
        BY <1>2, <2>5 DEF SetEvents, EpollUpdate, PollerIInv, PollerTypes, SlotsAreRight
      <3>2. Len(pollfds_') = Cardinality(channels_')
        BY <2>4, <2>6
      <3> QED
        BY <2>8, <3>1, <3>2 DEF SlotsAreRight, Negated
    <2>10. SlotsOwned'
      <3>1. ASSUME NEW d \in channels_' PROVE chIndex'[d] \in 0 .. Len(pollfds_') - 1
        <4>1. n \in Nat /\ Len(pollfds_') = n + 1 /\ d \in Fds
          BY <1>1, <1>2, <2>4
        <4>2. CASE d = c
          BY <2>7, <4>1, <4>2
        <4>3. CASE d # c
          <5>1. chIndex'[d] = chIndex[d] /\ chIndex[d] \in 0 .. n - 1
            BY <1>1, <1>2, <2>5, <4>1, <4>3
          <5> QED
            BY <4>1, <5>1
        <4> QED
          BY <4>2, <4>3
      <3>2. ASSUME NEW i \in 1 .. Len(pollfds_')
            PROVE  \E d \in channels_' : chIndex'[d] = i - 1
        <4>1. CASE i = n + 1
          BY <1>1, <2>7, <4>1
        <4>2. CASE i # n + 1
          <5>1. i \in 1 .. n
            BY <1>1, <2>4, <4>2
          <5>2. PICK d \in channels_ : chIndex[d] = i - 1
            BY <5>1 DEF PollerIInv, SlotsOwned
          <5> QED
            BY <1>1, <1>2, <2>1, <2>5, <5>2
        <4> QED
          BY <4>1, <4>2
      <3> QED
        BY <3>1, <3>2 DEF SlotsOwned
    <2> QED
      BY <2>4, <2>5, <2>9, <2>10
  <1>4. ASSUME ~(chIndex[c] < 0)
        PROVE  /\ chIndex' \in [Fds -> Int] /\ pollfds_' \in Seq(Slot)
               /\ SlotsAreRight' /\ SlotsOwned'
    <2> DEFINE p == [fd |-> SlotFd(c, ev), events |-> ev]
    <2>1. c \in channels_ /\ channels_' = channels_ /\ chIndex[c] + 1 \in 1 .. n
      BY <1>1, <1>2, <1>4 DEF PollerIInv, PollerTypes
    <2>2. p \in Slot
      BY <1>1 DEF Slot, SlotFd, Negated
    <2>3. pollfds_' = [pollfds_ EXCEPT ![chIndex[c] + 1] = p] /\ chIndex' = chIndex
      BY <1>4 DEF SetEvents, PollUpdate
    <2>4. /\ pollfds_' \in Seq(Slot) /\ Len(pollfds_') = n
          /\ \A i \in 1 .. n : pollfds_'[i] = IF i = chIndex[c] + 1 THEN p ELSE pollfds_[i]
      <3> HIDE DEF p
      <3> QED
        BY <2>1, <2>2, <2>3 DEF PollerIInv, PollerTypes
    <2>5. ASSUME NEW d \in channels_
          PROVE  LET q == pollfds_'[chIndex'[d] + 1] IN
                 /\ q.fd \in {d, Negated(d)}
                 /\ q.events = chEvents'[d]
                 /\ q.fd = d <=> chEvents'[d] # {} \/ d \in silent'
      <3>1. CASE d = c
        <4>1. pollfds_'[chIndex'[d] + 1] = p /\ chEvents'[d] = ev
          BY <1>2, <2>1, <2>3, <2>4, <3>1
        <4>2. p.fd = (IF ev = {} THEN Negated(c) ELSE c) /\ p.events = ev
          BY DEF SlotFd
        <4>3. Negated(c) # c
          BY <1>1 DEF Negated
        <4> QED
          BY <1>2, <2>1, <3>1, <4>1, <4>2, <4>3
      <3>2. CASE d # c
        <4>1. chIndex[d] # chIndex[c] /\ chIndex[d] \in 0 .. n - 1
              /\ chIndex[c] \in 0 .. n - 1
          BY <1>1, <2>1, <3>2, SlotIsOwn
        <4>2. pollfds_'[chIndex'[d] + 1] = pollfds_[chIndex[d] + 1]
              /\ chEvents'[d] = chEvents[d]
          <5> DEFINE i == chIndex[d] + 1
          <5>1. i \in 1 .. n /\ i # chIndex[c] + 1 /\ d \in Fds
            BY <1>1, <4>1
          <5>2. pollfds_'[i] = pollfds_[i] /\ chEvents'[d] = chEvents[d]
            BY <1>2, <2>4, <3>2, <5>1
          <5>3. chIndex'[d] = chIndex[d]
            BY <2>3
          <5> QED
            BY <5>2, <5>3
        <4> QED
          BY <1>2, <3>2, <4>2 DEF PollerIInv, SlotsAreRight
      <3> QED
        BY <3>1, <3>2
    <2>6. SlotsAreRight'
      <3>1. \A d \in Fds \ channels_' : chIndex'[d] = -1 /\ chState'[d] = kNew
        BY <1>2, <2>3 DEF SetEvents, EpollUpdate, PollerIInv, PollerTypes, SlotsAreRight
      <3>2. Len(pollfds_') = Cardinality(channels_')
        BY <2>1, <2>4 DEF PollerIInv, SlotsAreRight
      <3> QED
        BY <2>1, <2>5, <3>1, <3>2 DEF SlotsAreRight, Negated
    <2>7. SlotsOwned'
      BY <2>1, <2>3, <2>4 DEF SlotsOwned, PollerIInv
    <2> QED
      BY <2>3, <2>4, <2>6, <2>7 DEF PollerIInv, PollerTypes
  <1>5. KernelRight' /\ DOMAIN kernel' \subseteq Fds
        /\ chState' \in [Fds -> {kNew, kAdded, kDeleted}]
    <2>1. CASE chState[c] = kAdded /\ ev = {}
      <3>1. /\ DOMAIN kernel' = DOMAIN kernel \ {c}
            /\ \A d \in DOMAIN kernel \ {c} : kernel'[d] = kernel[d]
            /\ chState' = [chState EXCEPT ![c] = kDeleted]
        BY <2>1 DEF SetEvents, EpollUpdate, Without
      <3> QED
        BY <1>2, <2>1, <3>1 DEF KernelRight, PollerIInv, PollerTypes, kNew, kAdded, kDeleted
    <2>2. CASE ~(chState[c] = kAdded /\ ev = {})
      <3>1. /\ DOMAIN kernel' = DOMAIN kernel \cup {c}
            /\ \A d \in DOMAIN kernel \cup {c} :
                 kernel'[d] = IF d = c THEN ev ELSE kernel[d]
            /\ chState' = [chState EXCEPT ![c] = kAdded]
        BY <2>2 DEF SetEvents, EpollUpdate
      <3> QED
        BY <1>2, <2>2, <3>1 DEF KernelRight, PollerIInv, PollerTypes, kNew, kAdded, kDeleted
    <2> QED
      BY <2>1, <2>2
  <1>6. RoundRight'
    BY <1>2 DEF SetEvents, RoundRight, ActiveAreRegistered, PollerIInv
  <1>7. PollerTypes'
    BY <1>2, <1>3, <1>4, <1>5 DEF PollerTypes, PollerIInv, SetEvents
  <1>8. SilentRight'
    BY <1>2 DEF SilentRight, PollerIInv, PollerTypes
  <1> QED
    BY <1>3, <1>4, <1>5, <1>6, <1>7, <1>8 DEF PollerIInv

\* A removal moves the last slot, whose channel is found by its descriptor.
LEMMA RemoveKeeps ==
    ASSUME PollerIInv, NEW c \in Fds, channelRemove(c)
    PROVE  PollerIInv'
  <1> DEFINE n == Len(pollfds_)
             last == Last(pollfds_)
             atEnd == SlotOwner(last)
  <1>1. /\ c \in channels_ /\ c \in Nat /\ n \in Nat
        /\ \A d \in channels_ : d \in Fds /\ d \in Nat /\ chIndex[d] \in 0 .. n - 1
        /\ \A d \in Fds : d \in channels_ <=> chIndex[d] >= 0
    BY PollerAssumption DEF PollerAssumption, PollerIInv, PollerTypes,
       SlotsOwned, SlotsAreRight, channelRemove
  <1>2. /\ chEvents' = chEvents /\ channels_' = channels_ \ {c} /\ chEvents[c] = {}
        /\ pollActive' = pollActive /\ epollActive' = epollActive
        /\ current' = current /\ eventsSize' = eventsSize
        /\ silent' = silent \ {c}
    BY DEF channelRemove
  <1>3. n \in 1 .. n /\ chIndex[c] + 1 \in 1 .. n /\ last = pollfds_[n] /\ last \in Slot
    BY <1>1 DEF Last, PollerIInv, PollerTypes
  <1>4. PICK e \in channels_ : chIndex[e] = n - 1
    BY <1>3 DEF PollerIInv, SlotsOwned
  <1>5. atEnd = e
    <2>0. chIndex[e] + 1 = n
      BY <1>1, <1>4
    <2>1. last.fd \in {e, Negated(e)} /\ e \in Nat
      <3> HIDE DEF last
      <3> QED
        BY <1>1, <1>3, <2>0 DEF PollerIInv, SlotsAreRight
    <2> QED
      BY <2>1 DEF Negated, SlotOwner
  <1>6. pollfds_' = Front([pollfds_ EXCEPT ![chIndex[c] + 1] = last])
    BY DEF channelRemove, PollRemove
  <1>7. /\ pollfds_' \in Seq(Slot) /\ Len(pollfds_') = n - 1
        /\ \A i \in 1 .. n - 1 :
             pollfds_'[i] = IF i = chIndex[c] + 1 THEN last ELSE pollfds_[i]
    <2> HIDE DEF last
    <2>1. pollfds_ \in Seq(Slot) /\ n \in Nat /\ n >= 1
      BY <1>1, <1>3 DEF PollerIInv, PollerTypes
    <2> DEFINE s == [pollfds_ EXCEPT ![chIndex[c] + 1] = last]
    <2>2. /\ s \in Seq(Slot) /\ Len(s) = n
          /\ \A i \in 1 .. n : s[i] = IF i = chIndex[c] + 1 THEN last ELSE pollfds_[i]
      BY <1>3, <2>1
    <2> HIDE DEF s
    <2>3. /\ Front(s) \in Seq(Slot) /\ Len(Front(s)) = n - 1
          /\ \A i \in 1 .. n - 1 : Front(s)[i] = s[i]
      BY <2>1, <2>2 DEF Front
    <2> QED
      <3>1. pollfds_' = Front(s)
        BY <1>6 DEF s
      <3> QED
        BY <1>1, <2>2, <2>3, <3>1, SMTT(40)
  <1>8. /\ chIndex' \in [Fds -> Int]
        /\ \A d \in Fds : chIndex'[d] = IF d = c THEN -1
                                        ELSE IF d = e THEN chIndex[c] ELSE chIndex[d]
    <2>1. chIndex' = [chIndex EXCEPT ![SlotOwner(Last(pollfds_))] = (chIndex[c] + 1) - 1,
                                     ![c] = -1]
      BY DEF channelRemove, PollRemove
    <2>2. SlotOwner(Last(pollfds_)) = e /\ e \in Fds
      BY <1>1, <1>5
    <2>3. chIndex[c] \in Int /\ (chIndex[c] + 1) - 1 = chIndex[c]
      BY <1>1
    <2> QED
      BY <2>1, <2>2, <2>3 DEF PollerIInv, PollerTypes
  <1>9. ASSUME NEW d \in channels_', d # e
        PROVE  /\ d \in channels_ /\ chIndex'[d] = chIndex[d]
               /\ chIndex[d] \in 0 .. n - 2 /\ chIndex[d] # chIndex[c]
    <2>1. d \in channels_ /\ d # c
      BY <1>2
    <2>2. chIndex[d] # chIndex[c] /\ chIndex[d] # n - 1
      BY <1>4, <1>9, <2>1, <1>1, SlotIsOwn
    <2> QED
      BY <1>1, <1>8, <1>9, <2>1, <2>2
  <1>10. ASSUME e # c
         PROVE  e \in channels_' /\ chIndex'[e] = chIndex[c] /\ chIndex[c] \in 0 .. n - 2
    <2>1. chIndex[c] # n - 1
      BY <1>1, <1>4, <1>10, SlotIsOwn
    <2> QED
      BY <1>1, <1>2, <1>8, <1>10, <2>1
  <1>11. ASSUME NEW d \in channels_'
         PROVE  LET q == pollfds_'[chIndex'[d] + 1] IN
                /\ q.fd \in {d, Negated(d)}
                /\ q.events = chEvents[d]
                /\ q.fd = d <=> chEvents[d] # {} \/ d \in silent'
    <2>1. CASE d = e
      <3>1. d # c
        BY <1>2
      <3>2. pollfds_'[chIndex'[d] + 1] = pollfds_[chIndex[d] + 1]
        <4> HIDE DEF last
        <4>1. chIndex'[d] = chIndex[c] /\ chIndex[c] \in 0 .. n - 2
          BY <1>10, <2>1, <3>1
        <4>2. chIndex[c] + 1 \in 1 .. n - 1
          BY <1>1, <4>1
        <4>3. pollfds_'[chIndex'[d] + 1] = last
          BY <1>7, <4>1, <4>2
        <4>4. chIndex[d] + 1 = n
          BY <1>1, <1>4, <2>1
        <4> QED
          BY <1>3, <4>3, <4>4
      <3> QED
        BY <1>2, <1>4, <2>1, <3>1, <3>2 DEF PollerIInv, SlotsAreRight
    <2>2. CASE d # e
      <3>2. pollfds_'[chIndex'[d] + 1] = pollfds_[chIndex[d] + 1]
        <4> HIDE DEF last
        <4> QED
          <5>1. chIndex[d] + 1 \in 1 .. n - 1 /\ chIndex[d] + 1 # chIndex[c] + 1
                /\ chIndex'[d] = chIndex[d]
            BY <1>1, <1>9, <2>2
          <5> QED
            BY <1>7, <5>1
      <3> QED
        BY <1>2, <1>9, <2>2, <3>2 DEF PollerIInv, SlotsAreRight
    <2> QED
      BY <2>1, <2>2
  <1>12. SlotsAreRight'
    <2>1. Len(pollfds_') = Cardinality(channels_')
      BY <1>1, <1>2, <1>7, ChannelsFinite, FS_RemoveElement DEF PollerIInv, SlotsAreRight
    <2>2. \A d \in Fds \ channels_' : chIndex'[d] = -1 /\ chState'[d] = kNew
      BY <1>1, <1>2, <1>4, <1>8
         DEF channelRemove, EpollRemove, PollerIInv, PollerTypes, SlotsAreRight
    <2> QED
      BY <1>2, <1>11, <2>1, <2>2 DEF SlotsAreRight, Negated
  <1>13. SlotsOwned'
    <2> HIDE DEF last
    <2>1. \A d \in channels_' : chIndex'[d] \in 0 .. Len(pollfds_') - 1
      <3> SUFFICES ASSUME NEW d \in channels_' PROVE chIndex'[d] \in 0 .. n - 2
        BY <1>1, <1>7
      <3> QED
        BY <1>2, <1>9, <1>10
    <2>2. ASSUME NEW i \in 1 .. Len(pollfds_')
          PROVE  \E d \in channels_' : chIndex'[d] = i - 1
      <3>1. i \in 1 .. n - 1 /\ i \in 1 .. n
        BY <1>1, <1>7
      <3>2. PICK d \in channels_ : chIndex[d] = i - 1
        BY <3>1 DEF PollerIInv, SlotsOwned
      <3>3. d # e
        BY <1>1, <1>4, <3>1, <3>2
      <3>4. CASE d = c
        BY <1>10, <3>2, <3>3, <3>4
      <3>5. CASE d # c
        BY <1>1, <1>2, <1>8, <3>2, <3>3, <3>5
      <3> QED
        BY <3>4, <3>5
    <2> QED
      BY <2>1, <2>2 DEF SlotsOwned
  <1>14. KernelRight' /\ DOMAIN kernel' \subseteq Fds
         /\ chState' \in [Fds -> {kNew, kAdded, kDeleted}]
    <2>1. /\ DOMAIN kernel' = DOMAIN kernel \ {c}
          /\ \A d \in DOMAIN kernel \ {c} : kernel'[d] = kernel[d]
          /\ chState' = [chState EXCEPT ![c] = kNew]
      BY DEF channelRemove, EpollRemove, Without, PollerIInv, KernelRight
    <2> QED
      BY <1>2, <2>1 DEF KernelRight, PollerIInv, PollerTypes, kNew, kAdded, kDeleted
  <1>15. RoundRight'
    <2>1. current = c \/ c \notin Range(pollActive) \cup epollActive
      BY DEF channelRemove, MayRemove
    <2> QED
      BY <1>2, <2>1 DEF RoundRight, ActiveAreRegistered, PollerIInv
  <1>16. PollerTypes'
    BY <1>2, <1>7, <1>8, <1>14 DEF PollerTypes, PollerIInv
  <1>17. SilentRight'
    BY <1>2 DEF SilentRight, PollerIInv
  <1> QED
    BY <1>12, <1>13, <1>14, <1>15, <1>16, <1>17 DEF PollerIInv

\* What poll finds is registered, and found once.
LEMMA PollKeeps ==
    ASSUME PollerIInv, NEW ready \in SUBSET Fds, pollOnce(ready)
    PROVE  PollerIInv'
  <1>1. UNCHANGED <<chEvents, chIndex, chState, channels_, pollfds_, kernel, current,
                    silent>>
        /\ current = -1
    BY DEF pollOnce
  <1>2. /\ pollActive' \in Seq(Fds) /\ IsInjective(pollActive')
        /\ Range(pollActive') \subseteq channels_
    <2> DEFINE slots == {i \in DOMAIN pollfds_ : pollfds_[i].fd \in ready
                                                 /\ pollfds_[i].events # {}}
    <2>1. PICK s \in SetToSeqs(slots) : pollActive' = [k \in DOMAIN s |-> pollfds_[s[k]].fd]
      BY DEF pollOnce, PollReports
    <2>2. DOMAIN pollfds_ = 1 .. Len(pollfds_) /\ Len(pollfds_) \in Nat
      BY DEF PollerIInv, PollerTypes
    <2>3. IsFiniteSet(slots) /\ Cardinality(slots) \in Nat
      <3>1. IsFiniteSet(1 .. Len(pollfds_)) /\ slots \in SUBSET (1 .. Len(pollfds_))
        <4>1. slots \in SUBSET (1 .. Len(pollfds_))
          BY <2>2
        <4>2. IsFiniteSet(1 .. Len(pollfds_))
          BY <2>2, FS_Interval
        <4> QED
          BY <4>1, <4>2
      <3> QED
        BY <3>1, FS_Subset, FS_CardinalityType
    <2>4. /\ s \in [1 .. Cardinality(slots) -> slots]
          /\ \A i, j \in 1 .. Cardinality(slots) : i # j => s[i] # s[j]
      BY <2>1 DEF SetToSeqs
    <2>5. ASSUME NEW i \in slots
          PROVE  pollfds_[i].fd \in channels_ /\ chIndex[pollfds_[i].fd] = i - 1
      <3>1. PICK d \in channels_ : chIndex[d] = i - 1
        BY <2>2 DEF PollerIInv, SlotsOwned
      <3>2. i \in Nat /\ d \in Nat /\ pollfds_[i].fd \in Nat /\ chIndex[d] + 1 = i
        <4>1. i \in 1 .. Len(pollfds_) /\ pollfds_[i].fd \in Fds /\ d \in Fds
          BY <2>2 DEF PollerIInv, PollerTypes
        <4> HIDE DEF slots
        <4>2. i \in Nat
          BY <2>2, <4>1
        <4>3. d \in Nat /\ pollfds_[i].fd \in Nat
          BY <4>1, PollerAssumption, ZenonT(60) DEF PollerAssumption
        <4>4. chIndex[d] + 1 = i
          BY <3>1, <4>2
        <4> QED
          BY <4>2, <4>3, <4>4
      <3>3. pollfds_[i].fd \in {d, Negated(d)}
        BY <3>1, <3>2 DEF PollerIInv, SlotsAreRight
      <3> QED
        BY <3>1, <3>2, <3>3 DEF Negated
    <2> DEFINE m == Cardinality(slots)
    <2>6. /\ pollActive' \in Seq(Fds) /\ DOMAIN pollActive' = 1 .. m
          /\ \A k \in 1 .. m : pollActive'[k] = pollfds_[s[k]].fd /\ s[k] \in slots
      <3>1. /\ DOMAIN s = 1 .. m /\ m \in Nat
            /\ \A k \in 1 .. m : s[k] \in slots /\ pollfds_[s[k]].fd \in Fds
        BY <2>3, <2>4
      <3> HIDE DEF slots, m
      <3> QED
        BY <2>1, <3>1
    <2>7. IsInjective(pollActive')
      <3> HIDE DEF slots
      <3>1. ASSUME NEW j \in 1 .. m, NEW k \in 1 .. m, pollActive'[j] = pollActive'[k]
            PROVE  j = k
        <4>1. chIndex[pollActive'[j]] = s[j] - 1 /\ chIndex[pollActive'[k]] = s[k] - 1
          BY <2>5, <2>6
        <4>2. s[j] \in Int /\ s[k] \in Int
          <5>1. slots \subseteq 1 .. Len(pollfds_)
            BY <2>2 DEF slots
          <5>2. s[j] \in 1 .. Len(pollfds_) /\ s[k] \in 1 .. Len(pollfds_)
            BY <2>6, <5>1
          <5> QED
            BY <2>2, <5>2
        <4>3. s[j] = s[k]
          BY <3>1, <4>1, <4>2
        <4> QED
          BY <2>4, <4>3
      <3> QED
        BY <2>6, <3>1 DEF IsInjective
    <2>8. Range(pollActive') \subseteq channels_
      <3> HIDE DEF slots
      <3>1. \A k \in 1 .. m : pollActive'[k] \in channels_
        BY <2>5, <2>6
      <3> QED
        BY <2>6, <3>1 DEF Range
    <2> QED
      BY <2>6, <2>7, <2>8
  <1>3. epollActive' \subseteq channels_
    BY DEF pollOnce, EpollReports, PollerIInv, PollerTypes, KernelRight, kNew, kAdded
  <1>4. eventsSize' \in 1 .. MaxEvents
    BY PollerAssumption DEF PollerAssumption, pollOnce, Grown, PollerIInv, PollerTypes
  <1>5. -1 \notin channels_
    BY PollerAssumption DEF PollerAssumption, PollerIInv, PollerTypes
  <1>6. PollerTypes'
    BY <1>1, <1>2, <1>3, <1>4 DEF PollerTypes, PollerIInv
  <1>7. RoundRight'
    BY <1>1, <1>2, <1>3, <1>5 DEF RoundRight, ActiveAreRegistered
  <1>8. SlotsAreRight' /\ SlotsOwned' /\ KernelRight' /\ SilentRight'
    BY <1>1 DEF PollerIInv, SlotsAreRight, SlotsOwned, KernelRight, SilentRight, Negated
  <1> QED
    BY <1>6, <1>7, <1>8 DEF PollerIInv

\* The dispatch of a round leaves the registrations alone.
LEMMA DispatchKeeps ==
    ASSUME PollerIInv, nextChannel \/ lastChannel \/ UNCHANGED pollerVars
    PROVE  PollerIInv'
  <1>1. UNCHANGED <<chEvents, chIndex, chState, channels_, pollfds_, kernel, eventsSize,
                    silent>>
    BY DEF nextChannel, lastChannel, pollerVars
  <1>2. SlotsAreRight' /\ SlotsOwned' /\ KernelRight' /\ SilentRight'
    BY <1>1 DEF PollerIInv, SlotsAreRight, SlotsOwned, KernelRight, SilentRight, Negated
  <1>3. CASE nextChannel
    <2>1. pollActive # <<>> /\ pollActive \in Seq(Fds) /\ IsInjective(pollActive)
      BY <1>3 DEF nextChannel, PollerIInv, PollerTypes, RoundRight
    <2>2. /\ Tail(pollActive) \in Seq(Fds) /\ Head(pollActive) \in Fds
          /\ IsInjective(Tail(pollActive))
          /\ Head(pollActive) \notin Range(Tail(pollActive))
          /\ Range(Tail(pollActive)) \subseteq Range(pollActive)
      BY <2>1, RangeFacts
    <2> QED
      BY <1>1, <1>2, <1>3, <2>2
         DEF nextChannel, PollerIInv, PollerTypes, RoundRight, ActiveAreRegistered
  <1>4. CASE lastChannel
    <2>1. pollActive' = <<>> /\ Range(pollActive') = {} /\ epollActive' = {} /\ current' = -1
      BY <1>4 DEF lastChannel, Range
    <2>2. IsInjective(<<>>)
      BY DEF IsInjective
    <2> QED
      BY <1>1, <1>2, <2>1, <2>2
         DEF PollerIInv, PollerTypes, RoundRight, ActiveAreRegistered
  <1>5. CASE UNCHANGED pollerVars
    BY <1>1, <1>2, <1>5
       DEF pollerVars, PollerIInv, PollerTypes, RoundRight, ActiveAreRegistered
  <1> QED
    BY <1>3, <1>4, <1>5

\* The invariant gives what PollerInv states.
LEMMA PollersFollow ==
    ASSUME PollerIInv
    PROVE  PollerInv
  <1>1. PollerTypeOK
    <2>1. \A c \in Fds : chIndex[c] \in -1 .. Cardinality(Fds) - 1
      <3> SUFFICES ASSUME NEW c \in Fds
                   PROVE  chIndex[c] \in -1 .. Cardinality(Fds) - 1
        OBVIOUS
      <3>1. c \in channels_ => chIndex[c] \in 0 .. Cardinality(channels_) - 1
        BY DEF PollerIInv, SlotsOwned, SlotsAreRight
      <3>2. c \notin channels_ => chIndex[c] = -1
        BY DEF PollerIInv, SlotsAreRight
      <3> QED
        BY <3>1, <3>2, ChannelsFinite DEF PollerIInv
    <2> QED
      BY <2>1 DEF PollerTypeOK, PollerIInv, PollerTypes
  <1>2. PollersAgree
    <2>1. ASSUME NEW p \in Range(pollfds_), p.fd >= 0, p.events # {}
          PROVE  p.fd \in DOMAIN kernel /\ kernel[p.fd] = p.events /\ p.events # {}
      <3>1. PICK i \in 1 .. Len(pollfds_) : p = pollfds_[i]
        BY RangeEquality DEF PollerIInv, PollerTypes, Range
      <3>2. PICK c \in channels_ : chIndex[c] = i - 1
        BY <3>1 DEF PollerIInv, SlotsOwned
      <3>3. c \in Nat /\ c \in Fds /\ chIndex[c] + 1 = i
        BY <3>2, PollerAssumption DEF PollerAssumption, PollerIInv, PollerTypes
      <3>4. p.fd \in {c, Negated(c)} /\ p.events = chEvents[c]
            /\ (p.fd = c <=> chEvents[c] # {} \/ c \in silent)
        BY <3>1, <3>3 DEF PollerIInv, SlotsAreRight
      <3>5. p.fd = c /\ chEvents[c] # {}
        BY <2>1, <3>3, <3>4 DEF Negated
      <3>6. c \in DOMAIN kernel /\ kernel[c] = chEvents[c]
        <4>1. /\ c \in DOMAIN kernel <=> chState[c] = kAdded
              /\ c \in DOMAIN kernel => kernel[c] = chEvents[c]
              /\ chState[c] = kNew <=> c \notin channels_
              /\ chState[c] = kDeleted => chEvents[c] = {}
          BY <3>3 DEF PollerIInv, KernelRight
        <4>2. chState[c] \in {kNew, kAdded, kDeleted}
          BY <3>3 DEF PollerIInv, PollerTypes
        <4> QED
          BY <3>2, <3>5, <4>1, <4>2
      <3> QED
        BY <3>4, <3>5, <3>6
    <2>2. ASSUME NEW c \in DOMAIN kernel, kernel[c] # {}
          PROVE  \E p \in Range(pollfds_) : /\ p.fd >= 0 /\ p.events # {}
                                            /\ p.fd = c /\ p.events = kernel[c]
      <3>1. c \in Fds /\ c \in Nat /\ c \in channels_ /\ kernel[c] = chEvents[c]
        <4>1. DOMAIN kernel \subseteq Fds
          BY DEF PollerIInv, PollerTypes
        <4>2. c \in Fds /\ c \in Nat
          BY <4>1, PollerAssumption DEF PollerAssumption
        <4>3. chState[c] = kAdded /\ kernel[c] = chEvents[c]
              /\ (chState[c] = kNew <=> c \notin channels_)
          BY <4>2 DEF PollerIInv, KernelRight
        <4> QED
          BY <4>2, <4>3 DEF kNew, kAdded
      <3>2. chIndex[c] + 1 \in 1 .. Len(pollfds_)
        BY <3>1 DEF PollerIInv, PollerTypes, SlotsOwned
      <3>3. pollfds_[chIndex[c] + 1] \in Range(pollfds_)
        BY <3>2 DEF PollerIInv, PollerTypes, Range
      <3>4. pollfds_[chIndex[c] + 1].fd = c
            /\ pollfds_[chIndex[c] + 1].events = kernel[c]
        BY <2>2, <3>1 DEF PollerIInv, SlotsAreRight
      <3>5. c >= 0
        BY <3>1
      <3> QED
        BY <2>2, <3>3, <3>4, <3>5
    <2>3. ASSUME NEW x \in {<<p.fd, p.events>> :
                            p \in {q \in Range(pollfds_) : q.fd >= 0 /\ q.events # {}}}
          PROVE  x \in {<<c, kernel[c]>> : c \in {d \in DOMAIN kernel : kernel[d] # {}}}
      <3>1. PICK p \in Range(pollfds_) : p.fd >= 0 /\ p.events # {} /\ x = <<p.fd, p.events>>
        OBVIOUS
      <3> QED
        BY <2>1, <3>1
    <2>4. ASSUME NEW x \in {<<c, kernel[c]>> : c \in {d \in DOMAIN kernel : kernel[d] # {}}}
          PROVE  x \in {<<p.fd, p.events>> :
                            p \in {q \in Range(pollfds_) : q.fd >= 0 /\ q.events # {}}}
      <3>1. PICK c \in DOMAIN kernel : kernel[c] # {} /\ x = <<c, kernel[c]>>
        OBVIOUS
      <3> QED
        BY <2>2, <3>1
    <2> QED
      BY <2>3, <2>4, Zenon DEF PollersAgree
  <1> QED
    BY <1>1, <1>2 DEF PollerInv, PollerIInv, RoundRight

\* Both pollers keep their registrations right through every order of enabling,
\* disabling, removing and polling, for any number of descriptors: the swap of
\* PollPoller::removeChannel included.  Only a channel disabled before it was
\* ever enabled has a slot that is not ignored (PollPoller.cc:84-89).
THEOREM PollersStayInStep == PollerSpec => []PollerInv
<1>1. PollerInit => PollerIInv
  <2> SUFFICES ASSUME PollerInit PROVE PollerIInv
    OBVIOUS
  <2>1. PollerTypes
    BY PollerAssumption DEF PollerAssumption, PollerInit, PollerTypes, kNew
  <2>2. SlotsAreRight /\ SlotsOwned
    BY FS_EmptySet, PollerAssumption DEF PollerInit, SlotsAreRight, SlotsOwned
  <2>3. KernelRight /\ SilentRight
    BY DEF PollerInit, KernelRight, SilentRight, kNew, kAdded, kDeleted
  <2>4. RoundRight
    BY DEF PollerInit, RoundRight, ActiveAreRegistered, IsInjective, Range
  <2> QED
    BY <2>1, <2>2, <2>3, <2>4 DEF PollerIInv
<1>2. PollerIInv /\ [PollerNext]_pollerVars => PollerIInv'
  <2> SUFFICES ASSUME PollerIInv, [PollerNext]_pollerVars
               PROVE  PollerIInv'
    OBVIOUS
  <2>1. ASSUME NEW c \in Fds, NEW e \in Interest, enable(c, e)
        PROVE  PollerIInv'
    <3>1. chEvents[c] \cup {e} \in SUBSET Interest /\ chEvents[c] \cup {e} # {}
      BY DEF PollerIInv, PollerTypes
    <3> QED
      BY <2>1, <3>1, SetEventsKeeps DEF enable
  <2>2. ASSUME NEW c \in Fds, NEW e \in Interest, disable(c, e)
        PROVE  PollerIInv'
    <3>1. chEvents[c] \ {e} \in SUBSET Interest
      BY DEF PollerIInv, PollerTypes
    <3> QED
      BY <2>2, <3>1, SetEventsKeeps DEF disable
  <2>3. ASSUME NEW c \in Fds, channelDisableAll(c)
        PROVE  PollerIInv'
    BY <2>3, SetEventsKeeps DEF channelDisableAll
  <2>4. ASSUME NEW c \in Fds, channelRemove(c)
        PROVE  PollerIInv'
    BY <2>4, RemoveKeeps
  <2>5. ASSUME NEW ready \in SUBSET Fds, pollOnce(ready)
        PROVE  PollerIInv'
    BY <2>5, PollKeeps
  <2>6. CASE nextChannel \/ lastChannel \/ UNCHANGED pollerVars
    BY <2>6, DispatchKeeps
  <2> QED
    BY <2>1, <2>2, <2>3, <2>4, <2>5, <2>6 DEF PollerNext
<1>3. PollerIInv => PollerInv
  BY PollersFollow
<1> QED
  BY <1>1, <1>2, <1>3, PTL DEF PollerSpec

-----------------------------------------------------------------------------
(* The buffer                                                             *)

\* The powers of two of the sizes of integers.
LEMMA PowersFacts ==
    /\ PowersOfTwo[0] = 1
    /\ \A n \in Nat : PowersOfTwo[n] \in Nat \ {0} /\ PowersOfTwo[n + 1] = 2 * PowersOfTwo[n]
  <1> DEFINE step == [n \in Nat |-> [m \in Nat |-> 2 * m]]
  <1>1. step \in [Nat -> [Nat -> Nat]] /\ 1 \in Nat
    OBVIOUS
  <1>2. PICK f \in [Nat -> Nat] : Recurses(f, 1, step)
    <2> HIDE DEF step
    <2> QED
      BY <1>1, Recursion
  <1>3. f = [n \in Nat |-> IF n = 0 THEN 1 ELSE 2 * f[n - 1]]
    <2>1. ASSUME NEW n \in Nat PROVE f[n] = IF n = 0 THEN 1 ELSE 2 * f[n - 1]
      <3>1. CASE n # 0
        <4>1. n - 1 \in Nat /\ (n - 1) + 1 = n
          BY <3>1
        <4> QED
          BY <1>2, <3>1, <4>1 DEF Recurses
      <3> QED
        BY <1>2, <3>1 DEF Recurses
    <2> QED
      BY <2>1
  <1>4. PowersOfTwo = [n \in Nat |-> IF n = 0 THEN 1 ELSE 2 * PowersOfTwo[n - 1]]
    <2> HIDE DEF step
    <2> QED
    BY <1>3 DEF PowersOfTwo
  <1> DEFINE V == {n \in Nat : PowersOfTwo[n] \in Nat \ {0}}
  <1>5. V = Nat
    <2>1. 0 \in V /\ V \subseteq Nat
      BY <1>4
    <2>2. ASSUME NEW n \in V PROVE n + 1 \in V
      <3>1. PowersOfTwo[n + 1] = 2 * PowersOfTwo[n]
        BY <1>4
      <3> QED
        BY <3>1
    <2> HIDE DEF V
    <2> QED
      BY <2>1, <2>2, SetInduction
  <1>6. \A n \in Nat : PowersOfTwo[n] \in Nat \ {0}
    BY <1>5
  <1>7. \A n \in Nat : PowersOfTwo[n + 1] = 2 * PowersOfTwo[n]
    BY <1>4
  <1> QED
    BY <1>4, <1>6, <1>7

\* A number without its last byte.
LEMMA ShiftedFacts ==
    ASSUME NEW x \in Nat
    PROVE  /\ Shifted(x)[0] = x
           /\ \A k \in Nat : /\ Shifted(x)[k] \in Nat
                           /\ Shifted(x)[k + 1] = Shifted(x)[k] \div 2
  <1> DEFINE step == [n \in Nat |-> [m \in Nat |-> m \div 2]]
  <1>1. step \in [Nat -> [Nat -> Nat]]
    OBVIOUS
  <1>2. PICK f \in [Nat -> Nat] : Recurses(f, x, step)
    <2> HIDE DEF step
    <2> QED
      BY <1>1, Recursion
  <1>3. f = [n \in Nat |-> IF n = 0 THEN x ELSE f[n - 1] \div 2]
    <2>1. ASSUME NEW n \in Nat PROVE f[n] = IF n = 0 THEN x ELSE f[n - 1] \div 2
      <3>1. CASE n # 0
        <4>1. n - 1 \in Nat /\ (n - 1) + 1 = n
          BY <3>1
        <4> QED
          BY <1>2, <3>1, <4>1 DEF Recurses
      <3> QED
        BY <1>2, <3>1 DEF Recurses
    <2> QED
      BY <2>1
  <1> DEFINE s == Shifted(x)
  <1>4. s = [n \in Nat |-> IF n = 0 THEN x ELSE s[n - 1] \div 2]
    <2> HIDE DEF step
    <2> QED
      BY <1>3 DEF Shifted
  <1> HIDE DEF s
  <1> DEFINE V == {n \in Nat : s[n] \in Nat}
  <1>5. V = Nat
    <2>1. 0 \in V /\ V \subseteq Nat
      BY <1>4
    <2>2. ASSUME NEW n \in V PROVE n + 1 \in V
      <3>1. s[n + 1] = s[n] \div 2
        BY <1>4
      <3> QED
        BY <3>1
    <2> HIDE DEF V
    <2> QED
      BY <2>1, <2>2, SetInduction
  <1>6. \A n \in Nat : s[n] \in Nat
    BY <1>5
  <1>7. \A n \in Nat : s[n + 1] = s[n] \div 2
    BY <1>4
  <1>8. s[0] = x
    BY <1>4
  <1> QED
    BY <1>6, <1>7, <1>8 DEF s

-----------------------------------------------------------------------------
BufferType == [bytes : Seq(Byte), reader : Nat, writer : Nat]

\* Between r and w the vector y holds c.
Readable(y, r, w, c) ==
    /\ y \in Seq(Byte) /\ r \in Nat /\ w \in Nat /\ c \in Seq(Byte)
    /\ Len(c) = w - r /\ w <= Len(y) /\ kCheapPrepend <= Len(y)
    /\ \A i \in 1 .. Len(c) : c[i] = y[r + i]

\* The readable bytes of b are c.
Represents(b, c) == b \in BufferType /\ Readable(b.bytes, b.reader, b.writer, c)

\* What resize fills in.
LEMMA ZerosFacts ==
    ASSUME NEW n \in Nat
    PROVE  Zeros(n) \in Seq(Byte) /\ Len(Zeros(n)) = n
  BY DEF Zeros, Byte

\* Copy writes s after offset at and leaves the rest alone.
LEMMA CopyFacts ==
    ASSUME NEW bytes \in Seq(Byte), NEW at \in Nat, NEW s \in Seq(Byte),
           at + Len(s) <= Len(bytes)
    PROVE  LET z == Copy(bytes, at, s) IN
           /\ z \in Seq(Byte) /\ Len(z) = Len(bytes)
           /\ \A i \in 1 .. Len(s) : z[at + i] = s[i]
           /\ \A i \in 1 .. Len(bytes) : i \notin at + 1 .. at + Len(s) => z[i] = bytes[i]
  <1> DEFINE z == Copy(bytes, at, s)
  <1>1. z = [i \in 1 .. Len(bytes) |->
               IF i \in at + 1 .. at + Len(s) THEN s[i - at] ELSE bytes[i]]
    BY DEF Copy
  <1>2. Len(s) \in Nat /\ Len(bytes) \in Nat
    OBVIOUS
  <1> HIDE DEF z
  <1>3. ASSUME NEW i \in 1 .. Len(bytes)
        PROVE  z[i] \in Byte
    <2>1. CASE i \in at + 1 .. at + Len(s)
      <3>1. i - at \in 1 .. Len(s) /\ z[i] = s[i - at]
        BY <1>1, <1>2, <2>1
      <3> QED
        BY <3>1
    <2>2. CASE i \notin at + 1 .. at + Len(s)
      BY <1>1, <2>2
    <2> QED
      BY <2>1, <2>2
  <1>4. z \in Seq(Byte) /\ Len(z) = Len(bytes)
    <2>1. z \in [1 .. Len(bytes) -> Byte]
      BY <1>1, <1>3
    <2> QED
      BY <1>2, <2>1
  <1>5. ASSUME NEW i \in 1 .. Len(s)
        PROVE  z[at + i] = s[i]
    <2>1. at + i \in 1 .. Len(bytes) /\ at + i \in at + 1 .. at + Len(s) /\ (at + i) - at = i
      BY <1>2
    <2> QED
      BY <1>1, <2>1
  <1>6. ASSUME NEW i \in 1 .. Len(bytes), i \notin at + 1 .. at + Len(s)
        PROVE  z[i] = bytes[i]
    BY <1>1, <1>6
  <1> QED
    BY <1>4, <1>5, <1>6 DEF z

\* toStringPiece gives the readable bytes.
LEMMA PieceFacts ==
    ASSUME NEW y, NEW r, NEW w, NEW c, Readable(y, r, w, c)
    PROVE  SubSeq(y, r + 1, w) = c
  <1> DEFINE p == SubSeq(y, r + 1, w)
  <1>1. /\ y \in Seq(Byte) /\ r \in Nat /\ w \in Nat /\ c \in Seq(Byte)
        /\ Len(c) = w - r /\ w <= Len(y)
    BY DEF Readable
  <1>2. r <= w /\ Len(c) \in Nat
    BY <1>1
  <1>3. p \in Seq(Byte) /\ Len(p) = w - r /\ \A i \in 1 .. w - r : p[i] = y[r + i]
    BY <1>1, <1>2, SubSeqAt
  <1> HIDE DEF p
  <1>4. \A i \in 1 .. Len(c) : p[i] = c[i]
    BY <1>1, <1>3 DEF Readable
  <1>5. p = c
    BY <1>1, <1>3, <1>4, SeqEqual
  <1> QED
    BY <1>5 DEF p

\* Bytes written behind the readable ones join them.
LEMMA WrittenAfter ==
    ASSUME NEW y, NEW r, NEW w, NEW c, Readable(y, r, w, c),
           NEW s \in Seq(Byte), w + Len(s) <= Len(y)
    PROVE  Readable(Copy(y, w, s), r, w + Len(s), c \o s)
  <1> DEFINE z == Copy(y, w, s)
  <1>1. /\ y \in Seq(Byte) /\ r \in Nat /\ w \in Nat /\ c \in Seq(Byte)
        /\ Len(c) = w - r /\ w <= Len(y) /\ kCheapPrepend <= Len(y)
        /\ Len(s) \in Nat /\ Len(c) \in Nat /\ Len(y) \in Nat
    BY DEF Readable
  <1>2. \A i \in 1 .. Len(c) : c[i] = y[r + i]
    BY DEF Readable
  <1>3. /\ z \in Seq(Byte) /\ Len(z) = Len(y)
        /\ \A i \in 1 .. Len(s) : z[w + i] = s[i]
        /\ \A i \in 1 .. Len(y) : i \notin w + 1 .. w + Len(s) => z[i] = y[i]
    BY <1>1, CopyFacts
  <1> HIDE DEF z
  <1> DEFINE cs == c \o s
  <1>5. /\ cs \in Seq(Byte) /\ Len(cs) = Len(c) + Len(s)
        /\ \A i \in 1 .. Len(c) : cs[i] = c[i]
        /\ \A i \in 1 .. Len(s) : cs[Len(c) + i] = s[i]
    <2>1. c \in Seq(Byte)
      BY <1>1
    <2> QED
      BY <2>1, ConcatAt
  <1> HIDE DEF cs
  <1>6. ASSUME NEW i \in 1 .. Len(c) + Len(s)
        PROVE  cs[i] = z[r + i]
    <2>1. CASE i <= Len(c)
      <3>1. r + i \in 1 .. Len(y) /\ i \in 1 .. Len(c) /\ r + i \notin w + 1 .. w + Len(s)
        BY <1>1, <2>1
      <3> QED
        BY <1>2, <1>3, <1>5, <3>1
    <2>2. CASE i > Len(c)
      <3> DEFINE j == i - Len(c)
      <3>1. j \in 1 .. Len(s) /\ r + i = w + j /\ i = Len(c) + j
        BY <1>1, <2>2
      <3> HIDE DEF j
      <3> QED
        BY <1>3, <1>5, <3>1
    <2> QED
      BY <1>1, <2>1, <2>2
  <1>7. Len(cs) = (w + Len(s)) - r /\ w + Len(s) \in Nat
    BY <1>1, <1>5
  <1>8. Readable(z, r, w + Len(s), cs)
    BY <1>1, <1>3, <1>5, <1>6, <1>7 DEF Readable
  <1> QED
    BY <1>8 DEF z, cs

\* Bytes written in front of the readable ones join them.
LEMMA WrittenBefore ==
    ASSUME NEW y, NEW r, NEW w, NEW c, Readable(y, r, w, c),
           NEW s \in Seq(Byte), Len(s) <= r
    PROVE  Readable(Copy(y, r - Len(s), s), r - Len(s), w, s \o c)
  <1> DEFINE a == r - Len(s)
             z == Copy(y, a, s)
  <1>1. /\ y \in Seq(Byte) /\ r \in Nat /\ w \in Nat /\ c \in Seq(Byte)
        /\ Len(c) = w - r /\ w <= Len(y) /\ kCheapPrepend <= Len(y)
        /\ Len(s) \in Nat /\ Len(c) \in Nat /\ Len(y) \in Nat
    BY DEF Readable
  <1>2. \A i \in 1 .. Len(c) : c[i] = y[r + i]
    BY DEF Readable
  <1>3. a \in Nat /\ r = a + Len(s) /\ a + Len(s) <= Len(y)
    BY <1>1
  <1> HIDE DEF a
  <1>4. /\ z \in Seq(Byte) /\ Len(z) = Len(y)
        /\ \A i \in 1 .. Len(s) : z[a + i] = s[i]
        /\ \A i \in 1 .. Len(y) : i \notin a + 1 .. a + Len(s) => z[i] = y[i]
    BY <1>1, <1>3, CopyFacts
  <1> HIDE DEF z
  <1> DEFINE sc == s \o c
  <1>5. /\ sc \in Seq(Byte) /\ Len(sc) = Len(s) + Len(c)
        /\ \A i \in 1 .. Len(s) : sc[i] = s[i]
        /\ \A i \in 1 .. Len(c) : sc[Len(s) + i] = c[i]
    <2>1. c \in Seq(Byte)
      BY <1>1
    <2> QED
      BY <2>1, ConcatAt
  <1> HIDE DEF sc
  <1>6. ASSUME NEW i \in 1 .. Len(s) + Len(c)
        PROVE  sc[i] = z[a + i]
    <2>1. CASE i <= Len(s)
      <3>1. i \in 1 .. Len(s)
        BY <1>1, <2>1
      <3> QED
        BY <1>4, <1>5, <3>1
    <2>2. CASE i > Len(s)
      <3> DEFINE j == i - Len(s)
      <3>1. /\ j \in 1 .. Len(c) /\ a + i = r + j /\ i = Len(s) + j
            /\ a + i \in 1 .. Len(y) /\ a + i \notin a + 1 .. a + Len(s)
        BY <1>1, <1>3, <2>2
      <3> HIDE DEF j
      <3>2. z[a + i] = y[a + i]
        BY <1>4, <3>1
      <3> QED
        BY <1>2, <1>5, <3>1, <3>2
    <2> QED
      BY <1>1, <2>1, <2>2
  <1>7. Len(sc) = w - a
    BY <1>1, <1>3, <1>5
  <1>8. Readable(z, a, w, sc)
    BY <1>1, <1>3, <1>4, <1>5, <1>6, <1>7 DEF Readable
  <1> QED
    BY <1>8 DEF z, a, sc

\* A vector that grows at its end keeps the content.
LEMMA GrownVector ==
    ASSUME NEW y, NEW r, NEW w, NEW c, Readable(y, r, w, c), NEW z \in Seq(Byte)
    PROVE  Readable(y \o z, r, w, c) /\ Len(y \o z) = Len(y) + Len(z)
  <1>1. /\ y \in Seq(Byte) /\ r \in Nat /\ w \in Nat /\ c \in Seq(Byte)
        /\ Len(c) = w - r /\ w <= Len(y) /\ kCheapPrepend <= Len(y)
        /\ Len(z) \in Nat /\ Len(c) \in Nat /\ Len(y) \in Nat
    BY DEF Readable
  <1>2. \A i \in 1 .. Len(c) : c[i] = y[r + i]
    BY DEF Readable
  <1> DEFINE yz == y \o z
  <1>3. /\ yz \in Seq(Byte) /\ Len(yz) = Len(y) + Len(z)
        /\ \A i \in 1 .. Len(y) : yz[i] = y[i]
    BY <1>1, ConcatAt
  <1> HIDE DEF yz
  <1>4. ASSUME NEW i \in 1 .. Len(c)
        PROVE  c[i] = yz[r + i]
    <2>1. r + i \in 1 .. Len(y)
      BY <1>1
    <2> QED
      BY <1>2, <1>3, <2>1
  <1>5. w <= Len(yz) /\ kCheapPrepend <= Len(yz)
    <2>1. kCheapPrepend \in Nat
      BY BufferAssumption DEF BufferAssumption
    <2> QED
      BY <1>1, <1>3, <2>1
  <1>6. Readable(yz, r, w, c)
    BY <1>1, <1>3, <1>4, <1>5 DEF Readable
  <1> QED
    BY <1>3, <1>6 DEF yz

\* The content moved to another place is the same.
LEMMA MovedVector ==
    ASSUME NEW y, NEW r, NEW w, NEW c, Readable(y, r, w, c), NEW at \in Nat,
           at + Len(c) <= Len(y)
    PROVE  Readable(Copy(y, at, c), at, at + Len(c), c) /\ Len(Copy(y, at, c)) = Len(y)
  <1> DEFINE z == Copy(y, at, c)
  <1>1. y \in Seq(Byte) /\ c \in Seq(Byte) /\ Len(c) \in Nat /\ kCheapPrepend <= Len(y)
    BY DEF Readable
  <1>2. z \in Seq(Byte) /\ Len(z) = Len(y) /\ \A i \in 1 .. Len(c) : z[at + i] = c[i]
    BY <1>1, CopyFacts
  <1> HIDE DEF z
  <1>3. at + Len(c) \in Nat /\ Len(c) = (at + Len(c)) - at
    BY <1>1
  <1>4. Readable(z, at, at + Len(c), c)
    BY <1>1, <1>2, <1>3 DEF Readable
  <1> QED
    BY <1>2, <1>4 DEF z

-----------------------------------------------------------------------------
\* The fields of a buffer that represents c
LEMMA Fields ==
    ASSUME NEW b, NEW c, Represents(b, c)
    PROVE  /\ b \in BufferType /\ b.bytes \in Seq(Byte) /\ c \in Seq(Byte)
           /\ b.reader \in Nat /\ b.writer \in Nat
           /\ Len(c) \in Nat /\ Len(b.bytes) \in Nat /\ kCheapPrepend \in Nat
           /\ Len(c) = b.writer - b.reader /\ b.writer <= Len(b.bytes)
           /\ kCheapPrepend <= Len(b.bytes)
  <1>1. b \in BufferType /\ Readable(b.bytes, b.reader, b.writer, c)
    BY DEF Represents
  <1>2. /\ b.bytes \in Seq(Byte) /\ c \in Seq(Byte)
        /\ b.reader \in Nat /\ b.writer \in Nat
        /\ Len(c) = b.writer - b.reader /\ b.writer <= Len(b.bytes)
        /\ kCheapPrepend <= Len(b.bytes)
    BY <1>1 DEF Readable
  <1>3. kCheapPrepend \in Nat
    BY BufferAssumption DEF BufferAssumption
  <1> QED
    BY <1>1, <1>2, <1>3

\* A buffer is made of its fields.
LEMMA MadeOf ==
    ASSUME NEW b, NEW y, NEW r, NEW w, NEW c, Readable(y, r, w, c),
           b = [bytes |-> y, reader |-> r, writer |-> w]
    PROVE  Represents(b, c)
  <1>1. y \in Seq(Byte) /\ r \in Nat /\ w \in Nat
    BY DEF Readable
  <1>2. b.bytes = y /\ b.reader = r /\ b.writer = w /\ b \in BufferType
    BY <1>1 DEF BufferType
  <1> QED
    BY <1>2 DEF Represents

\* A buffer is its three fields.
LEMMA BufferRecord ==
    ASSUME NEW b \in BufferType
    PROVE  b = [bytes |-> b.bytes, reader |-> b.reader, writer |-> b.writer]
  BY DEF BufferType

\* A new buffer is empty.
LEMMA NewFacts == Represents(newBuffer, <<>>)
  <1> DEFINE y == Zeros(kCheapPrepend + kInitialSize)
  <1>1. kCheapPrepend \in Nat /\ kInitialSize \in Nat /\ kCheapPrepend + kInitialSize \in Nat
    BY BufferAssumption DEF BufferAssumption
  <1>2. y \in Seq(Byte) /\ Len(y) = kCheapPrepend + kInitialSize
    BY <1>1, ZerosFacts
  <1>3. <<>> \in Seq(Byte) /\ Len(<<>>) = 0
    OBVIOUS
  <1> HIDE DEF y
  <1>4. Readable(y, kCheapPrepend, kCheapPrepend, <<>>)
    BY <1>1, <1>2, <1>3 DEF Readable
  <1>5. newBuffer = [bytes |-> y, reader |-> kCheapPrepend, writer |-> kCheapPrepend]
    BY DEF newBuffer, y
  <1> QED
    BY <1>4, <1>5, MadeOf

\* Making room keeps the content.
LEMMA EnsureFacts ==
    ASSUME NEW b, NEW c, Represents(b, c), NEW len \in Nat
    PROVE  LET e == ensureWritableBytes(b, len) IN
           Represents(e, c) /\ e.writer + len <= Len(e.bytes)
  <1> DEFINE e == ensureWritableBytes(b, len)
  <1>1. /\ b.bytes \in Seq(Byte) /\ c \in Seq(Byte)
        /\ b.reader \in Nat /\ b.writer \in Nat
        /\ Len(c) \in Nat /\ Len(b.bytes) \in Nat /\ kCheapPrepend \in Nat
        /\ Len(c) = b.writer - b.reader /\ b.writer <= Len(b.bytes)
        /\ kCheapPrepend <= Len(b.bytes)
    BY Fields
  <1>2. Readable(b.bytes, b.reader, b.writer, c) /\ b \in BufferType
    BY DEF Represents
  <1>3. CASE ~(writableBytes(b) < len)
    <2>1. e = b
      BY <1>3 DEF ensureWritableBytes
    <2>2. b.writer + len <= Len(b.bytes)
      BY <1>1, <1>3 DEF writableBytes
    <2> QED
      BY <2>1, <2>2
  <1>4. CASE writableBytes(b) < len /\ MustGrow(b, len)
    <2> DEFINE n == b.writer + len - Len(b.bytes)
               z == Zeros(n)
               y == b.bytes \o z
    <2>1. e = [b EXCEPT !.bytes = y]
      BY <1>4 DEF ensureWritableBytes, makeSpace
    <2>2. n \in Nat /\ Len(b.bytes) + n = b.writer + len
      BY <1>1, <1>4 DEF writableBytes
    <2> HIDE DEF n
    <2>3. z \in Seq(Byte) /\ Len(z) = n
      BY <2>2, ZerosFacts
    <2> HIDE DEF z
    <2>4. Readable(y, b.reader, b.writer, c) /\ Len(y) = Len(b.bytes) + Len(z)
      BY <1>2, <2>3, GrownVector
    <2> HIDE DEF y, e
    <2>5. e = [bytes |-> y, reader |-> b.reader, writer |-> b.writer]
      BY <1>2, <2>1 DEF BufferType
    <2>6. e.writer = b.writer /\ e.bytes = y
      BY <2>5
    <2>7. Represents(e, c)
      BY <2>4, <2>5, MadeOf
    <2>8. e.writer + len <= Len(e.bytes)
      BY <1>1, <2>2, <2>3, <2>4, <2>6
    <2> QED
      BY <2>7, <2>8 DEF e
  <1>5. CASE writableBytes(b) < len /\ ~MustGrow(b, len)
    <2> DEFINE z == Copy(b.bytes, kCheapPrepend, c)
    <2>1. toStringPiece(b) = c
      BY <1>2, PieceFacts DEF toStringPiece
    <2>2. readableBytes(b) = Len(c)
      BY <1>1 DEF readableBytes
    <2>3. e = [bytes |-> z, reader |-> kCheapPrepend, writer |-> kCheapPrepend + Len(c)]
      BY <1>5, <2>1, <2>2 DEF ensureWritableBytes, makeSpace
    <2>4. kCheapPrepend + Len(c) + len <= Len(b.bytes)
      <3>1. ~(Len(b.bytes) - b.writer + b.reader < len + kCheapPrepend)
        BY <1>5 DEF MustGrow, writableBytes, prependableBytes
      <3> DEFINE B == Len(b.bytes)
                 C == Len(c)
                 x == b.writer
                 r == b.reader
      <3>2. /\ B \in Nat /\ C \in Nat /\ x \in Nat /\ r \in Nat /\ kCheapPrepend \in Nat
            /\ C = x - r /\ ~(B - x + r < len + kCheapPrepend)
        BY <1>1, <3>1
      <3> HIDE DEF B, C, x, r
      <3>3. kCheapPrepend + C + len <= B
        BY <3>2
      <3> QED
        BY <3>3 DEF B, C
    <2>5. kCheapPrepend + Len(c) <= Len(b.bytes)
      BY <1>1, <2>4
    <2>6. Readable(z, kCheapPrepend, kCheapPrepend + Len(c), c) /\ Len(z) = Len(b.bytes)
      BY <1>1, <1>2, <2>5, MovedVector
    <2> HIDE DEF z, e
    <2>7. Represents(e, c)
      BY <2>3, <2>6, MadeOf
    <2>8. e.writer = kCheapPrepend + Len(c) /\ e.bytes = z
      BY <2>3
    <2> QED
      BY <2>4, <2>6, <2>7, <2>8 DEF e
  <1> QED
    BY <1>3, <1>4, <1>5

\* hasWritten after a copy behind the content
LEMMA WroteFacts ==
    ASSUME NEW b, NEW c, Represents(b, c), NEW s \in Seq(Byte),
           b.writer + Len(s) <= Len(b.bytes)
    PROVE  Represents([b EXCEPT !.bytes = Copy(b.bytes, b.writer, s),
                                !.writer = b.writer + Len(s)], c \o s)
  <1> DEFINE y == Copy(b.bytes, b.writer, s)
             w == b.writer + Len(s)
  <1>1. Readable(b.bytes, b.reader, b.writer, c) /\ b \in BufferType
    BY DEF Represents
  <1>2. Readable(y, b.reader, w, c \o s)
    BY <1>1, WrittenAfter
  <1>5. y \in Seq(Byte) /\ w \in Nat
    BY <1>2 DEF Readable
  <1> HIDE DEF y, w
  <1>3. [b EXCEPT !.bytes = y, !.writer = w] = [bytes |-> y, reader |-> b.reader, writer |-> w]
    <2> DEFINE z == [b EXCEPT !.bytes = y, !.writer = w]
    <2>1. z \in BufferType /\ z.bytes = y /\ z.reader = b.reader /\ z.writer = w
      BY <1>1, <1>5 DEF BufferType
    <2> HIDE DEF z
    <2>2. z = [bytes |-> y, reader |-> b.reader, writer |-> w]
      BY <2>1, BufferRecord
    <2> QED
      BY <2>2 DEF z
  <1>4. Represents([b EXCEPT !.bytes = y, !.writer = w], c \o s)
    BY <1>2, <1>3, MadeOf
  <1> QED
    BY <1>4 DEF y, w

\* append puts the bytes behind the content.
LEMMA BufferAppendFacts ==
    ASSUME NEW b, NEW c, Represents(b, c), NEW s \in Seq(Byte)
    PROVE  Represents(append(b, s), c \o s)
  <1> DEFINE e == ensureWritableBytes(b, Len(s))
  <1>1. Len(s) \in Nat
    OBVIOUS
  <1>2. Represents(e, c) /\ e.writer + Len(s) <= Len(e.bytes)
    BY <1>1, EnsureFacts
  <1>3. append(b, s) = [e EXCEPT !.bytes = Copy(e.bytes, e.writer, s),
                                 !.writer = e.writer + Len(s)]
    <2>1. append(b, s) = [e EXCEPT !.bytes = Copy(e.bytes, e.writer, s), !.writer = @ + Len(s)]
      BY DEF append
    <2>2. e \in BufferType
      BY <1>2 DEF Represents
    <2> HIDE DEF e
    <2> QED
      BY <2>1, <2>2 DEF BufferType
  <1> HIDE DEF e
  <1>4. Represents([e EXCEPT !.bytes = Copy(e.bytes, e.writer, s),
                             !.writer = e.writer + Len(s)], c \o s)
    BY <1>2, WroteFacts
  <1> QED
    BY <1>3, <1>4

\* prepend puts the bytes before the content.
LEMMA PrependFacts ==
    ASSUME NEW b, NEW c, Represents(b, c), NEW s \in Seq(Byte), Len(s) <= b.reader
    PROVE  /\ Represents(prepend(b, s), s \o c)
           /\ prepend(b, s).reader = b.reader - Len(s)
           /\ \A i \in 1 .. Len(s) : prepend(b, s).bytes[prepend(b, s).reader + i] = s[i]
  <1> DEFINE r == b.reader - Len(s)
             y == Copy(b.bytes, r, s)
             e == prepend(b, s)
  <1>1. Readable(b.bytes, b.reader, b.writer, c) /\ b \in BufferType
    BY DEF Represents
  <1>2. Readable(y, r, b.writer, s \o c)
    BY <1>1, WrittenBefore
  <1>3. e = [b EXCEPT !.reader = r, !.bytes = y]
    BY <1>1 DEF BufferType, prepend
  <1> HIDE DEF y, r, e
  <1>4. e = [bytes |-> y, reader |-> r, writer |-> b.writer]
    BY <1>1, <1>3 DEF BufferType
  <1>5. Represents(e, s \o c)
    BY <1>2, <1>4, MadeOf
  <1>6. \A i \in 1 .. Len(s) : y[r + i] = s[i]
    <2>1. c \in Seq(Byte)
      BY Fields
    <2>2. /\ Len(s \o c) = Len(s) + Len(c) /\ Len(s) \in Nat /\ Len(c) \in Nat
          /\ \A i \in 1 .. Len(s) : (s \o c)[i] = s[i]
      BY <2>1, ConcatAt
    <2>3. \A i \in 1 .. Len(s \o c) : (s \o c)[i] = y[r + i]
      BY <1>2 DEF Readable
    <2>4. \A i \in 1 .. Len(s) : i \in 1 .. Len(s \o c)
      BY <2>2
    <2> QED
      BY <2>2, <2>3, <2>4
  <1>7. e.reader = r /\ e.bytes = y
    BY <1>4
  <1>8. e.reader = b.reader - Len(s)
    BY <1>7 DEF r
  <1>9. \A i \in 1 .. Len(s) : e.bytes[e.reader + i] = s[i]
    BY <1>6, <1>7
  <1> QED
    BY <1>5, <1>8, <1>9 DEF e

\* retrieve takes bytes off the front, or resets the indices.
LEMMA RetrieveFacts ==
    ASSUME NEW b, NEW c, Represents(b, c), NEW len \in Nat, len <= Len(c)
    PROVE  Represents(retrieve(b, len), SubSeq(c, len + 1, Len(c)))
  <1>1. /\ b.bytes \in Seq(Byte) /\ c \in Seq(Byte)
        /\ b.reader \in Nat /\ b.writer \in Nat
        /\ Len(c) \in Nat /\ Len(b.bytes) \in Nat /\ kCheapPrepend \in Nat
        /\ Len(c) = b.writer - b.reader /\ b.writer <= Len(b.bytes)
        /\ kCheapPrepend <= Len(b.bytes)
    BY Fields
  <1>2. Readable(b.bytes, b.reader, b.writer, c) /\ b \in BufferType
    BY DEF Represents
  <1>3. readableBytes(b) = Len(c)
    BY <1>1 DEF readableBytes
  <1> DEFINE d == SubSeq(c, len + 1, Len(c))
             y == b.bytes
  <1>4. d \in Seq(Byte) /\ Len(d) = Len(c) - len /\ \A i \in 1 .. Len(c) - len : d[i] = c[len + i]
    <2>1. c \in Seq(Byte) /\ Len(c) \in Nat /\ Len(c) <= Len(c)
      BY <1>1
    <2> QED
      BY <2>1, SubSeqAt
  <1> HIDE DEF d, y
  <1>5. CASE len < Len(c)
    <2> DEFINE r == b.reader + len
    <2>1. retrieve(b, len) = [b EXCEPT !.reader = r]
      BY <1>2, <1>3, <1>5 DEF retrieve, BufferType
    <2>2. \A i \in 1 .. Len(d) : d[i] = y[r + i]
      <3>1. ASSUME NEW i \in 1 .. Len(d)
            PROVE  len + i \in 1 .. Len(c) /\ b.reader + (len + i) = r + i /\ d[i] = c[len + i]
        BY <1>1, <1>4
      <3>2. \A j \in 1 .. Len(c) : c[j] = y[b.reader + j]
        BY <1>2 DEF Readable, y
      <3> QED
        BY <3>1, <3>2
    <2>3. r \in Nat /\ Len(d) = b.writer - r
      BY <1>1, <1>4
    <2> HIDE DEF r
    <2>4. Readable(y, r, b.writer, d)
      BY <1>1, <1>4, <2>2, <2>3 DEF Readable, y
    <2>5. [b EXCEPT !.reader = r] = [bytes |-> y, reader |-> r, writer |-> b.writer]
      BY <1>2 DEF BufferType, y
    <2> QED
      BY <2>1, <2>4, <2>5, MadeOf DEF d
  <1>6. CASE len = Len(c)
    <2>1. retrieve(b, len) = [b EXCEPT !.reader = kCheapPrepend, !.writer = kCheapPrepend]
      BY <1>1, <1>3, <1>6 DEF retrieve, retrieveAll
    <2>2. Len(d) = 0
      BY <1>1, <1>4, <1>6
    <2>3. Readable(y, kCheapPrepend, kCheapPrepend, d)
      <3>1. /\ y \in Seq(Byte) /\ kCheapPrepend \in Nat /\ d \in Seq(Byte)
            /\ Len(d) = kCheapPrepend - kCheapPrepend /\ kCheapPrepend <= Len(y)
        BY <1>1, <1>4, <2>2 DEF y
      <3>2. 1 .. Len(d) = {}
        BY <2>2
      <3> QED
        BY <3>1, <3>2 DEF Readable
    <2>4. [b EXCEPT !.reader = kCheapPrepend, !.writer = kCheapPrepend] =
            [bytes |-> y, reader |-> kCheapPrepend, writer |-> kCheapPrepend]
      <3>1. b \in BufferType /\ y \in Seq(Byte) /\ kCheapPrepend \in Nat /\ y = b.bytes
        BY <1>1, <1>2 DEF y
      <3> DEFINE z == [b EXCEPT !.reader = kCheapPrepend, !.writer = kCheapPrepend]
      <3>2. /\ z \in BufferType /\ z.bytes = y
            /\ z.reader = kCheapPrepend /\ z.writer = kCheapPrepend
        BY <3>1 DEF BufferType
      <3> HIDE DEF z
      <3>3. z = [bytes |-> y, reader |-> kCheapPrepend, writer |-> kCheapPrepend]
        BY <3>2, BufferRecord
      <3> QED
        BY <3>3 DEF z
    <2> QED
      BY <2>1, <2>3, <2>4, MadeOf DEF d
  <1> QED
    BY <1>1, <1>5, <1>6

\* unwrite takes bytes off the back.
LEMMA UnwriteFacts ==
    ASSUME NEW b, NEW c, Represents(b, c), NEW len \in Nat, len <= Len(c)
    PROVE  Represents(unwrite(b, len), SubSeq(c, 1, Len(c) - len))
  <1>1. /\ b.bytes \in Seq(Byte) /\ c \in Seq(Byte)
        /\ b.reader \in Nat /\ b.writer \in Nat
        /\ Len(c) \in Nat /\ Len(b.bytes) \in Nat /\ kCheapPrepend \in Nat
        /\ Len(c) = b.writer - b.reader /\ b.writer <= Len(b.bytes)
        /\ kCheapPrepend <= Len(b.bytes)
    BY Fields
  <1>2. Readable(b.bytes, b.reader, b.writer, c) /\ b \in BufferType
    BY DEF Represents
  <1> DEFINE d == SubSeq(c, 1, Len(c) - len)
             w == b.writer - len
             y == b.bytes
  <1>3. d \in Seq(Byte) /\ Len(d) = Len(c) - len /\ \A i \in 1 .. Len(c) - len : d[i] = c[i]
    <2> DEFINE n == Len(c) - len
    <2>1. c \in Seq(Byte) /\ n \in Nat /\ 0 <= n /\ n <= Len(c) /\ 0 \in Nat /\ 0 + 1 = 1
          /\ n - 0 = n
      BY <1>1
    <2> HIDE DEF n
    <2>2. SubSeq(c, 0 + 1, n) \in Seq(Byte) /\ Len(SubSeq(c, 0 + 1, n)) = n - 0
          /\ \A i \in 1 .. n - 0 : SubSeq(c, 0 + 1, n)[i] = c[0 + i]
      BY <2>1, SubSeqAt
    <2>3. \A i \in 1 .. n : 0 + i = i
      BY <2>1
    <2>4. SubSeq(c, 1, n) \in Seq(Byte) /\ Len(SubSeq(c, 1, n)) = n
          /\ \A i \in 1 .. n : SubSeq(c, 1, n)[i] = c[i]
      BY <2>1, <2>2, <2>3
    <2> QED
      BY <2>4 DEF n
  <1> HIDE DEF d, y
  <1>4. unwrite(b, len) = [b EXCEPT !.writer = w]
    BY <1>2 DEF unwrite, BufferType
  <1>5. w \in Nat /\ w <= b.writer /\ Len(d) = w - b.reader /\ w <= Len(b.bytes)
    <2> DEFINE B == Len(b.bytes)
               C == Len(c)
               D == Len(d)
               x == b.writer
               r == b.reader
    <2>1. /\ D = C - len /\ B \in Nat /\ C \in Nat /\ x \in Nat /\ r \in Nat
          /\ C = x - r /\ x <= B /\ len <= C /\ w = x - len
      BY <1>1, <1>3
    <2> HIDE DEF B, C, D, x, r, w
    <2>2. w \in Nat /\ w <= x /\ D = w - r /\ w <= B
      BY <2>1
    <2> QED
      BY <2>2 DEF B, C, D, x, r
  <1> HIDE DEF w
  <1>6. \A i \in 1 .. Len(d) : d[i] = y[b.reader + i]
    <2>1. ASSUME NEW i \in 1 .. Len(d) PROVE i \in 1 .. Len(c) /\ d[i] = c[i]
      <3> DEFINE C == Len(c)
      <3>1. C \in Nat /\ len \in Nat /\ i \in 1 .. C - len
        BY <1>1, <1>3
      <3>2. d[i] = c[i]
        BY <1>3, <3>1
      <3> HIDE DEF C
      <3>3. i \in 1 .. C
        BY <3>1
      <3> QED
        BY <3>2, <3>3 DEF C
    <2>2. \A j \in 1 .. Len(c) : c[j] = y[b.reader + j]
      BY <1>2 DEF Readable, y
    <2> QED
      BY <2>1, <2>2
  <1>7. Readable(y, b.reader, w, d)
    BY <1>1, <1>3, <1>5, <1>6 DEF Readable, y
  <1>8. [b EXCEPT !.writer = w] = [bytes |-> y, reader |-> b.reader, writer |-> w]
    BY <1>2 DEF BufferType, y
  <1> QED
    BY <1>4, <1>7, <1>8, MadeOf DEF d

\* shrink moves the content to a vector of its own size.
LEMMA ShrinkFacts ==
    ASSUME NEW b, NEW c, Represents(b, c), NEW reserve \in Nat
    PROVE  Represents(shrink(b, reserve), c)
  <1> DEFINE n == readableBytes(b) + reserve
             e == ensureWritableBytes(newBuffer, n)
  <1>1. n \in Nat /\ c \in Seq(Byte) /\ toStringPiece(b) = c
    <2>1. Len(c) \in Nat /\ b.writer - b.reader = Len(c) /\ c \in Seq(Byte)
      BY Fields
    <2>2. toStringPiece(b) = c
      BY PieceFacts DEF Represents, toStringPiece
    <2> QED
      BY <2>1, <2>2 DEF readableBytes
  <1>2. shrink(b, reserve) = append(e, c)
    BY <1>1 DEF shrink
  <1> HIDE DEF n
  <1>3. Represents(e, <<>>)
    BY <1>1, NewFacts, EnsureFacts
  <1> HIDE DEF e
  <1>4. Represents(append(e, c), <<>> \o c)
    BY <1>1, <1>3, BufferAppendFacts
  <1>5. <<>> \o c = c
    BY <1>1
  <1> QED
    BY <1>2, <1>4, <1>5

\* readFd appends what readv filled of the buffer and of extrabuf.
LEMMA ReadFdFacts ==
    ASSUME NEW b, NEW c, Represents(b, c), NEW s \in Seq(Byte)
    PROVE  Represents(readFd(b, s), c \o s)
  <1>1. /\ b.writer \in Nat /\ Len(b.bytes) \in Nat /\ Len(s) \in Nat
        /\ b.writer <= Len(b.bytes)
    BY Fields
  <1>2. b \in BufferType /\ c \in Seq(Byte)
    BY Fields
  <1>3. CASE Len(s) <= writableBytes(b)
    <2>1. readFd(b, s) = [b EXCEPT !.bytes = Copy(b.bytes, b.writer, s), !.writer = @ + Len(s)]
      BY <1>3 DEF readFd
    <2>2. readFd(b, s) = [b EXCEPT !.bytes = Copy(b.bytes, b.writer, s),
                                   !.writer = b.writer + Len(s)]
      BY <1>2, <2>1 DEF BufferType
    <2>3. b.writer + Len(s) <= Len(b.bytes)
      BY <1>1, <1>3 DEF writableBytes
    <2>4. Represents([b EXCEPT !.bytes = Copy(b.bytes, b.writer, s),
                               !.writer = b.writer + Len(s)], c \o s)
      BY <2>3, WroteFacts
    <2> QED
      BY <2>2, <2>4
  <1>4. CASE ~(Len(s) <= writableBytes(b))
    <2> DEFINE n == writableBytes(b)
               one == SubSeq(s, 1, n)
               two == SubSeq(s, n + 1, Len(s))
               f == [b EXCEPT !.bytes = Copy(b.bytes, b.writer, one), !.writer = Len(b.bytes)]
    <2>1. readFd(b, s) = append(f, two)
      BY <1>4 DEF readFd
    <2>2. n \in Nat /\ n <= Len(s) /\ b.writer + n = Len(b.bytes)
      BY <1>1, <1>4 DEF writableBytes
    <2> HIDE DEF n
    <2>3. /\ one \in Seq(Byte) /\ Len(one) = n /\ two \in Seq(Byte)
          /\ (c \o one) \o two = c \o s
      <3>1. one \in Seq(Byte) /\ Len(one) = n /\ two \in Seq(Byte) /\ one \o two = s
        BY <2>2, Halves
      <3> HIDE DEF one, two
      <3>2. (c \o one) \o two = c \o (one \o two)
        <4>1. c \in Seq(Byte) /\ one \in Seq(Byte) /\ two \in Seq(Byte)
          BY <1>2, <3>1
        <4>2. \A p, q, t \in Seq(Byte) : (p \o q) \o t = p \o (q \o t)
          OBVIOUS
        <4> QED
          BY <4>1, <4>2, Zenon
      <3> QED
        BY <3>1, <3>2
    <2> HIDE DEF one, two
    <2>4. b.writer + Len(one) <= Len(b.bytes) /\ b.writer + Len(one) = Len(b.bytes)
      BY <1>1, <2>2, <2>3
    <2>5. Represents([b EXCEPT !.bytes = Copy(b.bytes, b.writer, one),
                               !.writer = b.writer + Len(one)], c \o one)
      BY <2>3, <2>4, WroteFacts
    <2>6. Represents(f, c \o one)
      BY <2>4, <2>5
    <2> HIDE DEF f
    <2>7. Represents(append(f, two), (c \o one) \o two)
      BY <2>3, <2>6, BufferAppendFacts
    <2> QED
      BY <2>1, <2>3, <2>7
  <1> QED
    BY <1>3, <1>4

\* An integer becomes n bytes.
LEMMA NetworkOrder ==
    ASSUME NEW x \in Nat, NEW n \in Nat
    PROVE  /\ hostToNetwork(x, n) \in Seq(Byte) /\ Len(hostToNetwork(x, n)) = n
           /\ \A i \in 1 .. n : hostToNetwork(x, n)[i] = Shifted(x)[n - i] % 2
  <1> DEFINE h == hostToNetwork(x, n)
  <1>1. h = [i \in 1 .. n |-> Shifted(x)[n - i] % 2]
    BY DEF hostToNetwork
  <1>2. ASSUME NEW i \in 1 .. n
        PROVE  Shifted(x)[n - i] % 2 \in Byte
    <2>1. n - i \in Nat
      OBVIOUS
    <2>2. Shifted(x)[n - i] \in Nat
      BY <2>1, ShiftedFacts
    <2> QED
      BY <2>2 DEF Byte
  <1> HIDE DEF h
  <1>3. h \in [1 .. n -> Byte]
    BY <1>1, <1>2
  <1>4. h \in Seq(Byte) /\ Len(h) = n
    BY <1>3
  <1>5. \A i \in 1 .. n : h[i] = Shifted(x)[n - i] % 2
    BY <1>1
  <1> QED
    BY <1>4, <1>5 DEF h

\* The value of the first i of n bytes, from the value of the first i - 1
LEMMA ValuesFacts ==
    ASSUME NEW b, NEW n \in Nat, \A i \in 1 .. n : b.bytes[b.reader + i] \in Byte
    PROVE  /\ Values(b, n)[0] = 0
           /\ \A i \in 1 .. n : Values(b, n)[i] = 2 * Values(b, n)[i - 1] + b.bytes[b.reader + i]
  <1> DEFINE digit(i) == IF i + 1 \in 1 .. n THEN b.bytes[b.reader + (i + 1)] ELSE 0
             step == [i \in Nat |-> [m \in Nat |-> 2 * m + digit(i)]]
  <1>1. \A i \in Nat : digit(i) \in Nat
    BY DEF Byte
  <1> HIDE DEF digit
  <1>2. step \in [Nat -> [Nat -> Nat]] /\ 0 \in Nat
    BY <1>1
  <1>3. PICK f \in [Nat -> Nat] : Recurses(f, 0, step)
    <2> HIDE DEF step
    <2> QED
      BY <1>2, Recursion
  <1>4. f[0] = 0 /\ \A i \in Nat : f[i + 1] = 2 * f[i] + digit(i)
    BY <1>3 DEF Recurses
  <1> DEFINE g == [i \in 0 .. n |-> f[i]]
  <1>5. g = [i \in 0 .. n |-> IF i = 0 THEN 0 ELSE 2 * g[i - 1] + b.bytes[b.reader + i]]
    <2>1. ASSUME NEW i \in 0 .. n
          PROVE  f[i] = IF i = 0 THEN 0 ELSE 2 * g[i - 1] + b.bytes[b.reader + i]
      <3>1. CASE i # 0
        <4>1. i - 1 \in Nat /\ (i - 1) + 1 = i /\ i - 1 \in 0 .. n /\ i \in 1 .. n
          BY <3>1
        <4>2. f[i] = 2 * f[i - 1] + digit(i - 1)
          BY <1>4, <4>1
        <4>3. digit(i - 1) = b.bytes[b.reader + i]
          BY <4>1 DEF digit
        <4>4. g[i - 1] = f[i - 1]
          BY <4>1
        <4> QED
          BY <3>1, <4>2, <4>3, <4>4
      <3> QED
        BY <1>4, <3>1
    <2> QED
      BY <2>1
  <1> HIDE DEF g
  <1> DEFINE v == Values(b, n)
  <1>6. v = [i \in 0 .. n |-> IF i = 0 THEN 0 ELSE 2 * v[i - 1] + b.bytes[b.reader + i]]
    <2> HIDE DEF step
    <2> QED
      BY <1>5 DEF Values
  <1> HIDE DEF v
  <1>7. v[0] = 0
    BY <1>6
  <1>8. ASSUME NEW i \in 1 .. n
        PROVE  v[i] = 2 * v[i - 1] + b.bytes[b.reader + i]
    <2>1. i \in 0 .. n /\ i # 0
      OBVIOUS
    <2> QED
      BY <1>6, <2>1
  <1> QED
    BY <1>7, <1>8 DEF v

\* The bytes of an integer that fits give its value back.
LEMMA PeekFacts ==
    ASSUME NEW b, NEW n \in Nat, NEW x \in IntsOf(n),
           \A i \in 1 .. n : b.bytes[b.reader + i] = hostToNetwork(x, n)[i]
    PROVE  peekInt(b, n) = x
  <1>1. x \in Nat /\ x < PowersOfTwo[n]
    <2>1. PowersOfTwo[n] \in Nat
      BY PowersFacts
    <2> QED
      BY <2>1 DEF IntsOf
  <1> DEFINE s == Shifted(x)
             v == Values(b, n)
  <1>2. s[0] = x /\ \A k \in Nat : s[k] \in Nat /\ s[k + 1] = s[k] \div 2
    BY <1>1, ShiftedFacts
  <1>3. \A i \in 1 .. n : b.bytes[b.reader + i] = s[n - i] % 2 /\ b.bytes[b.reader + i] \in Byte
    <2>1. \A i \in 1 .. n : n - i \in Nat
      OBVIOUS
    <2>2. \A i \in 1 .. n : b.bytes[b.reader + i] = s[n - i] % 2
      BY <1>1, NetworkOrder
    <2> HIDE DEF s
    <2>3. \A k \in Nat : s[k] % 2 \in {0, 1}
      <3>1. \A m \in Nat : m % 2 \in {0, 1}
        OBVIOUS
      <3> QED
        BY <1>2, <3>1
    <2> QED
      BY <2>1, <2>2, <2>3 DEF Byte
  <1>4. v[0] = 0 /\ \A i \in 1 .. n : v[i] = 2 * v[i - 1] + b.bytes[b.reader + i]
    BY <1>3, ValuesFacts
  <1> HIDE DEF s, v
  <1>5. s[n] = 0
    <2> DEFINE T == {k \in Nat : k <= n => s[k] < PowersOfTwo[n - k]}
    <2>1. 0 \in T
      <3>1. n - 0 = n
        OBVIOUS
      <3> QED
        BY <1>1, <1>2, <3>1
    <2>2. ASSUME NEW k \in T PROVE k + 1 \in T
      <3>1. CASE k + 1 <= n
        <4> DEFINE m == n - (k + 1)
        <4>1. m \in Nat /\ n - k = m + 1 /\ k \in Nat /\ k <= n
          BY <3>1
        <4>2. s[k] < PowersOfTwo[m + 1]
          BY <4>1
        <4> HIDE DEF m
        <4>3. PowersOfTwo[m + 1] = 2 * PowersOfTwo[m] /\ PowersOfTwo[m] \in Nat
          BY <4>1, PowersFacts
        <4>4. s[k] \in Nat /\ s[k + 1] = s[k] \div 2
          BY <1>2, <4>1
        <4>5. s[k + 1] < PowersOfTwo[m]
          BY <4>2, <4>3, <4>4
        <4> QED
          BY <4>5 DEF m
      <3> QED
        BY <3>1
    <2>3. T = Nat
      <3>1. T \subseteq Nat
        OBVIOUS
      <3> HIDE DEF T
      <3> QED
        BY <2>1, <2>2, <3>1, SetInduction
    <2>4. s[n] < PowersOfTwo[n - n]
      BY <2>3
    <2>5. n - n = 0 /\ PowersOfTwo[0] = 1
      BY PowersFacts
    <2>6. s[n] < 1 /\ s[n] \in Nat
      BY <1>2, <2>4, <2>5
    <2> QED
      BY <2>6
  <1>6. v[n] = s[0]
    <2> DEFINE T == {i \in Nat : i <= n => v[i] = s[n - i]}
    <2>1. 0 \in T
      <3>1. n - 0 = n
        OBVIOUS
      <3> QED
        BY <1>4, <1>5, <3>1
    <2>2. ASSUME NEW i \in T PROVE i + 1 \in T
      <3>1. CASE i + 1 <= n
        <4> DEFINE m == n - (i + 1)
        <4>1. /\ m \in Nat /\ n - i = m + 1 /\ i <= n /\ i + 1 \in 1 .. n
              /\ (i + 1) - 1 = i
          BY <3>1
        <4>2. v[i] = s[m + 1]
          BY <4>1
        <4>3. v[i + 1] = 2 * v[i] + (s[m] % 2)
          BY <1>3, <1>4, <4>1
        <4> HIDE DEF m
        <4>4. s[m] \in Nat /\ s[m + 1] = s[m] \div 2
          BY <1>2, <4>1
        <4>5. v[i + 1] = s[m]
          BY <4>2, <4>3, <4>4
        <4> QED
          BY <4>5 DEF m
      <3> QED
        BY <3>1
    <2>3. T = Nat
      <3>1. T \subseteq Nat
        OBVIOUS
      <3> HIDE DEF T
      <3> QED
        BY <2>1, <2>2, <3>1, SetInduction
    <2>4. v[n] = s[n - n]
      BY <2>3
    <2>5. n - n = 0
      OBVIOUS
    <2> QED
      BY <2>4, <2>5
  <1> QED
    BY <1>2, <1>6 DEF peekInt, v

\* A search finds in the vector what it would find in the content.
LEMMA SearchFacts ==
    ASSUME NEW b, NEW c, Represents(b, c), NEW start \in 0 .. Len(c)
    PROVE  /\ findCRLF(b, start) =
                FirstOf({b.reader + i - 1 : i \in {j \in start + 1 .. Len(c) - 1 :
                           c[j] = CR /\ c[j + 1] = LF}})
           /\ findEOL(b, start) =
                FirstOf({b.reader + i - 1 : i \in {j \in start + 1 .. Len(c) : c[j] = LF}})
  <1> DEFINE y == b.bytes
             r == b.reader
             w == b.writer
  <1>1. r \in Nat /\ w \in Nat /\ Len(c) \in Nat /\ Len(c) = w - r
    BY Fields
  <1>2. \A i \in 1 .. Len(c) : c[i] = y[r + i]
    BY DEF Represents, Readable
  <1> HIDE DEF y, r, w
  <1>3. {i \in r + start .. w - 2 : y[i + 1] = CR /\ y[i + 2] = LF} =
        {r + i - 1 : i \in {j \in start + 1 .. Len(c) - 1 : c[j] = CR /\ c[j + 1] = LF}}
    <2> DEFINE A == {i \in r + start .. w - 2 : y[i + 1] = CR /\ y[i + 2] = LF}
               J == {j \in start + 1 .. Len(c) - 1 : c[j] = CR /\ c[j + 1] = LF}
               B == {r + i - 1 : i \in J}
    <2>1. ASSUME NEW i \in A
          PROVE  i \in B
      <3> DEFINE j == i - r + 1
      <3>1. /\ j \in start + 1 .. Len(c) - 1 /\ r + j - 1 = i /\ j \in 1 .. Len(c)
            /\ j + 1 \in 1 .. Len(c) /\ r + j = i + 1 /\ r + (j + 1) = i + 2
        BY <1>1
      <3> HIDE DEF j
      <3>2. c[j] = y[i + 1] /\ c[j + 1] = y[i + 2]
        BY <1>2, <3>1
      <3>3. j \in J
        BY <3>1, <3>2
      <3> HIDE DEF J
      <3> QED
        BY <3>1, <3>3
    <2>2. ASSUME NEW j \in J
          PROVE  r + j - 1 \in A
      <3> DEFINE i == r + j - 1
      <3>1. /\ i \in r + start .. w - 2 /\ j \in 1 .. Len(c)
            /\ j + 1 \in 1 .. Len(c) /\ r + j = i + 1 /\ r + (j + 1) = i + 2
        BY <1>1
      <3> HIDE DEF i
      <3>2. c[j] = y[i + 1] /\ c[j + 1] = y[i + 2]
        BY <1>2, <3>1
      <3>3. i \in A
        BY <3>1, <3>2
      <3> QED
        BY <3>3 DEF i
    <2> HIDE DEF A, J
    <2>3. A = B
      BY <2>1, <2>2
    <2> QED
      BY <2>3 DEF A, J
  <1>4. {i \in r + start .. w - 1 : y[i + 1] = LF} =
        {r + i - 1 : i \in {j \in start + 1 .. Len(c) : c[j] = LF}}
    <2> DEFINE A == {i \in r + start .. w - 1 : y[i + 1] = LF}
               J == {j \in start + 1 .. Len(c) : c[j] = LF}
               B == {r + i - 1 : i \in J}
    <2>1. ASSUME NEW i \in A
          PROVE  i \in B
      <3> DEFINE j == i - r + 1
      <3>1. /\ j \in start + 1 .. Len(c) /\ r + j - 1 = i /\ j \in 1 .. Len(c)
            /\ r + j = i + 1
        BY <1>1
      <3> HIDE DEF j
      <3>2. c[j] = y[i + 1]
        BY <1>2, <3>1
      <3>3. j \in J
        BY <3>1, <3>2
      <3> HIDE DEF J
      <3> QED
        BY <3>1, <3>3
    <2>2. ASSUME NEW j \in J
          PROVE  r + j - 1 \in A
      <3> DEFINE i == r + j - 1
      <3>1. i \in r + start .. w - 1 /\ j \in 1 .. Len(c) /\ r + j = i + 1
        BY <1>1
      <3> HIDE DEF i
      <3>2. c[j] = y[i + 1]
        BY <1>2, <3>1
      <3>3. i \in A
        BY <3>1, <3>2
      <3> QED
        BY <3>3 DEF i
    <2> HIDE DEF A, J
    <2>3. A = B
      BY <2>1, <2>2
    <2> QED
      BY <2>3 DEF A, J
  <1> QED
    BY <1>3, <1>4 DEF findCRLF, findEOL, y, r, w

\* A length in front of the content is read back and leaves the content.
LEMMA FramingFacts ==
    ASSUME NEW b, NEW c, Represents(b, c), NEW n \in 1 .. b.reader, NEW x \in IntsOf(n)
    PROVE  LET framed == prependInt(b, x, n) IN
           peekInt(framed, n) = x /\ toStringPiece(readInt(framed, n)) = c
  <1> DEFINE h == hostToNetwork(x, n)
             f == prepend(b, h)
  <1>1. n \in Nat /\ x \in Nat /\ b.reader \in Nat /\ c \in Seq(Byte) /\ Len(c) \in Nat
    <2>1. b.reader \in Nat /\ c \in Seq(Byte) /\ Len(c) \in Nat
      BY Fields
    <2>2. n \in Nat
      BY <2>1
    <2>3. PowersOfTwo[n] \in Nat
      BY <2>2, PowersFacts
    <2> QED
      BY <2>1, <2>2, <2>3 DEF IntsOf
  <1>2. h \in Seq(Byte) /\ Len(h) = n
    BY <1>1, NetworkOrder
  <1>3. n <= b.reader
    BY <1>1
  <1>4. Represents(f, h \o c) /\ \A i \in 1 .. n : f.bytes[f.reader + i] = h[i]
    <2> HIDE DEF h
    <2>1. Len(h) <= b.reader
      BY <1>2, <1>3
    <2>2. Represents(f, h \o c)
      BY <1>2, <2>1, PrependFacts
    <2>3. \A i \in 1 .. Len(h) : f.bytes[f.reader + i] = h[i]
      BY <1>2, <2>1, PrependFacts
    <2> QED
      BY <1>2, <2>2, <2>3
  <1>5. peekInt(f, n) = x
    <2> HIDE DEF f
    <2> QED
      BY <1>1, <1>4, PeekFacts
  <1> DEFINE hc == h \o c
  <1> HIDE DEF f, h
  <1>6. /\ hc \in Seq(Byte) /\ Len(hc) = Len(h) + Len(c)
        /\ \A i \in 1 .. Len(c) : hc[Len(h) + i] = c[i]
    <2>1. h \in Seq(Byte) /\ c \in Seq(Byte)
      BY <1>1, <1>2
    <2> QED
      BY <2>1, ConcatAt
  <1> HIDE DEF hc
  <1> DEFINE d == SubSeq(hc, n + 1, Len(hc))
  <1>7. n <= Len(hc) /\ Len(hc) \in Nat /\ Len(hc) - n = Len(c)
    BY <1>1, <1>2, <1>6
  <1>8. d \in Seq(Byte) /\ Len(d) = Len(hc) - n /\ \A i \in 1 .. Len(hc) - n : d[i] = hc[n + i]
    <2>1. n \in Nat /\ hc \in Seq(Byte) /\ n <= Len(hc) /\ Len(hc) \in Nat /\ Len(hc) <= Len(hc)
      BY <1>1, <1>6, <1>7
    <2> QED
      BY <2>1, SubSeqAt
  <1> HIDE DEF d
  <1>9. d = c
    <2>1. Len(d) = Len(c) /\ \A i \in 1 .. Len(c) : d[i] = c[i]
      BY <1>2, <1>6, <1>7, <1>8
    <2>2. d \in Seq(Byte) /\ c \in Seq(Byte)
      BY <1>1, <1>8
    <2> QED
      BY <2>1, <2>2, SeqEqual
  <1>10. Represents(readInt(f, n), c)
    <2>1. Represents(f, hc)
      BY <1>4 DEF hc
    <2>2. Represents(retrieve(f, n), d)
      BY <1>1, <1>7, <2>1, RetrieveFacts DEF d
    <2> QED
      BY <1>9, <2>2 DEF readInt
  <1>11. toStringPiece(readInt(f, n)) = c
    BY <1>10, PieceFacts DEF Represents, toStringPiece
  <1> QED
    BY <1>5, <1>11 DEF prependInt, f, h

\* What a buffer that represents its content fulfils
LEMMA BufferConsequences ==
    ASSUME Represents(buf, content)
    PROVE  BufferInv
  <1>1. /\ buf.bytes \in Seq(Byte) /\ buf.reader \in Nat /\ buf.writer \in Nat
        /\ Len(content) \in Nat /\ Len(buf.bytes) \in Nat /\ kCheapPrepend \in Nat
        /\ Len(content) = buf.writer - buf.reader /\ buf.writer <= Len(buf.bytes)
        /\ kCheapPrepend <= Len(buf.bytes)
    BY Fields
  <1>2. BufferTypeOK
    <2>1. buf.reader \in 0 .. buf.writer /\ buf.writer \in 0 .. Len(buf.bytes)
          /\ Len(buf.bytes) >= kCheapPrepend
      BY <1>1
    <2> QED
      BY <1>1, <2>1 DEF BufferTypeOK
  <1>3. ContentIsQueue
    BY PieceFacts DEF Represents, ContentIsQueue, toStringPiece
  <1>4. SearchSeesContent
    BY SearchFacts DEF SearchSeesContent
  <1>5. FramingRoundTrip
    BY FramingFacts DEF FramingRoundTrip, prependableBytes
  <1> QED
    BY <1>2, <1>3, <1>4, <1>5 DEF BufferInv

\* The strings of a call are sequences of bytes.
LEMMA StringsFacts ==
    ASSUME NEW n \in Nat, NEW s \in Strings(n)
    PROVE  s \in Seq(Byte)
  <1>1. PICK k \in 0 .. n : s \in [1 .. k -> Byte]
    BY DEF Strings
  <1>2. k \in Nat
    OBVIOUS
  <1> QED
    BY <1>1, <1>2

\* Every call keeps the buffer and the ideal queue together.
LEMMA BufferStep ==
    ASSUME Represents(buf, content), BufferNext
    PROVE  Represents(buf', content')
  <1>1. /\ content \in Seq(Byte) /\ Len(content) \in Nat
        /\ readableBytes(buf) = Len(content) /\ prependableBytes(buf) = buf.reader
    <2>1. content \in Seq(Byte) /\ Len(content) \in Nat
          /\ Len(content) = buf.writer - buf.reader
      BY Fields
    <2> QED
      BY <2>1 DEF readableBytes, prependableBytes
  <1>2. MaxLen \in Nat /\ sizeofExtrabuf \in Nat
    BY BufferAssumption DEF BufferAssumption
  <1>3. \A n \in 1 .. MaxLen : \A x \in IntsOf(n) :
          /\ hostToNetwork(x, n) \in Seq(Byte) /\ Len(hostToNetwork(x, n)) = n
    <2>1. ASSUME NEW n \in 1 .. MaxLen, NEW x \in IntsOf(n)
          PROVE  /\ hostToNetwork(x, n) \in Seq(Byte) /\ Len(hostToNetwork(x, n)) = n
      <3>1. n \in Nat
        BY <1>2
      <3>2. PowersOfTwo[n] \in Nat
        BY <3>1, PowersFacts
      <3>3. x \in Nat
        BY <3>2 DEF IntsOf
      <3> QED
        BY <3>1, <3>3, NetworkOrder
    <2> QED
      BY <2>1
  <1>4. CASE AppendBytes
    <2>1. PICK s \in Strings(MaxLen) : buf' = append(buf, s) /\ content' = content \o s
      BY <1>4 DEF AppendBytes
    <2>2. s \in Seq(Byte)
      BY <1>2, StringsFacts
    <2> QED
      BY <2>1, <2>2, BufferAppendFacts
  <1>5. CASE PrependBytes
    <2>1. PICK s \in Strings(MaxLen) : Len(s) <= buf.reader
                  /\ buf' = prepend(buf, s) /\ content' = s \o content
      BY <1>1, <1>5 DEF PrependBytes
    <2>2. s \in Seq(Byte)
      BY <1>2, StringsFacts
    <2> QED
      BY <2>1, <2>2, PrependFacts
  <1>6. CASE AppendInt
    <2>0. PICK n \in 1 .. MaxLen : \E x \in IntsOf(n) :
                  buf' = append(buf, hostToNetwork(x, n))
                  /\ content' = content \o hostToNetwork(x, n)
      BY <1>6 DEF AppendInt, appendInt
    <2>1. PICK x \in IntsOf(n) :
                  buf' = append(buf, hostToNetwork(x, n))
                  /\ content' = content \o hostToNetwork(x, n)
      BY <2>0
    <2> QED
      BY <1>3, <2>1, BufferAppendFacts
  <1>7. CASE PrependInt
    <2>0. PICK n \in 1 .. MaxLen : \E x \in IntsOf(n) :
                  n <= buf.reader /\ buf' = prepend(buf, hostToNetwork(x, n))
                  /\ content' = hostToNetwork(x, n) \o content
      BY <1>1, <1>7 DEF PrependInt, prependInt
    <2>1. PICK x \in IntsOf(n) :
                  n <= buf.reader /\ buf' = prepend(buf, hostToNetwork(x, n))
                  /\ content' = hostToNetwork(x, n) \o content
      BY <2>0
    <2> DEFINE h == hostToNetwork(x, n)
    <2>2. h \in Seq(Byte) /\ Len(h) <= buf.reader
      BY <1>3, <2>1
    <2> HIDE DEF h
    <2>3. Represents(prepend(buf, h), h \o content)
      BY <2>2, PrependFacts
    <2> QED
      BY <2>1, <2>3 DEF h
  <1>8. CASE Retrieve
    <2>1. PICK len \in 0 .. Len(content) : buf' = retrieve(buf, len)
                  /\ content' = SubSeq(content, len + 1, Len(content))
      BY <1>1, <1>8 DEF Retrieve
    <2>2. len \in Nat /\ len <= Len(content)
      BY <1>1
    <2> QED
      BY <2>1, <2>2, RetrieveFacts
  <1>9. CASE ReadInt
    <2>1. PICK n \in 1 .. MaxLen : n <= Len(content) /\ buf' = retrieve(buf, n)
                  /\ content' = SubSeq(content, n + 1, Len(content))
      BY <1>1, <1>9 DEF ReadInt, readInt
    <2>2. n \in Nat
      BY <1>2
    <2> QED
      BY <2>1, <2>2, RetrieveFacts
  <1>10. CASE Unwrite
    <2>1. PICK len \in 0 .. Len(content) : buf' = unwrite(buf, len)
                  /\ content' = SubSeq(content, 1, Len(content) - len)
      BY <1>1, <1>10 DEF Unwrite
    <2>2. len \in Nat /\ len <= Len(content)
      BY <1>1
    <2> QED
      BY <2>1, <2>2, UnwriteFacts
  <1>11. CASE EnsureWritable
    <2>1. PICK len \in 0 .. MaxLen : buf' = ensureWritableBytes(buf, len) /\ content' = content
      BY <1>11 DEF EnsureWritable
    <2>2. len \in Nat
      BY <1>2
    <2> QED
      BY <2>1, <2>2, EnsureFacts
  <1>12. CASE Shrink
    <2>1. PICK reserve \in 0 .. MaxLen : buf' = shrink(buf, reserve) /\ content' = content
      BY <1>12 DEF Shrink
    <2>2. reserve \in Nat
      BY <1>2
    <2> QED
      BY <2>1, <2>2, ShrinkFacts
  <1>13. CASE ReadFd
    <2>1. PICK s \in Strings(ReadvLimit(buf)) : buf' = readFd(buf, s) /\ content' = content \o s
      BY <1>13 DEF ReadFd
    <2>2. ReadvLimit(buf) \in Nat
      <3>1. buf.writer \in Nat /\ Len(buf.bytes) \in Nat /\ buf.writer <= Len(buf.bytes)
        BY Fields
      <3> QED
        BY <1>2, <3>1 DEF ReadvLimit, writableBytes
    <2>3. s \in Seq(Byte)
      BY <2>2, StringsFacts
    <2> QED
      BY <2>1, <2>3, ReadFdFacts
  <1> QED
    BY <1>4, <1>5, <1>6, <1>7, <1>8, <1>9, <1>10, <1>11, <1>12, <1>13 DEF BufferNext

(* Buffer is a queue of bytes, whatever the calls, for any front room and   *)
(* initial size (Buffer.h, Buffer.cc): nothing is lost or reordered when    *)
(* makeSpace moves or grows the vector or readFd spills into its stack      *)
(* buffer, a search sees the content only, and a length prepended to it is  *)
(* read back.                                                               *)
THEOREM BufferIsQueue == BufferSpec => []BufferInv
  <1>1. BufferInit => Represents(buf, content)
    BY NewFacts DEF BufferInit
  <1>2. Represents(buf, content) /\ [BufferNext]_bufferVars => Represents(buf, content)'
    <2>1. ASSUME Represents(buf, content), BufferNext
          PROVE  Represents(buf, content)'
      BY <2>1, BufferStep DEF Represents, Readable
    <2>2. ASSUME Represents(buf, content), UNCHANGED bufferVars
          PROVE  Represents(buf, content)'
      BY <2>2 DEF bufferVars, Represents, Readable
    <2> QED
      BY <2>1, <2>2
  <1>3. Represents(buf, content) => BufferInv
    BY BufferConsequences
  <1> QED
    BY <1>1, <1>2, <1>3, PTL DEF BufferSpec

-----------------------------------------------------------------------------
(* The timing of kcp                                                         *)

(* iclock() at the true time t *)
ClockAt(t) == (Start + t) % Wrap

Times == 0 .. Wrap - 1

SegmentType ==
  [sn : Nat, ts : Times, resendts : Times, rto : Nat, fastack : Nat, xmit : Nat]

KcpType ==
  [current : Times, updated : BOOLEAN, ts_flush : Times,
   rx_srtt : Nat, rx_rttval : Nat, rx_rto : Nat,
   rx_minrto : {IKCP_RTO_MIN, IKCP_RTO_NDL},
   nodelay : Nat, interval : MinInterval .. MaxInterval,
   fastresend : Nat, nocwnd : Nat, rmt_wnd : Nat, snd_buf : Seq(SegmentType),
   nsnd_que : Nat, snd_una : Nat, snd_nxt : Nat,
   cwnd : Nat, incr : Nat, ssthresh : Nat, state : Int]

ShortestRto(k) == imin(k.rx_minrto, IKCP_RTO_DEF)

(* resendts is ts and a wait of rto, or a little more for the first copy *)
Waits(s) == \E w \in Nat : /\ s.rto <= w /\ w <= s.rto + IKCP_RTO_MAX
                           /\ s.resendts = Plus(s.ts, w)

SegmentRight(k, s) ==
  /\ s.sn < k.snd_nxt
  /\ s.xmit > 0 => /\ ShortestRto(k) <= s.rto /\ s.rto <= s.xmit * IKCP_RTO_MAX
                   /\ Waits(s)

SegmentsRight(k) == \A i \in DOMAIN k.snd_buf : SegmentRight(k, k.snd_buf[i])

RtoRight(k) == ShortestRto(k) <= k.rx_rto /\ k.rx_rto <= IKCP_RTO_MAX

EstimateRight(k) == k.rx_srtt <= imax(1, MaxDelay) /\ k.rx_rttval <= MaxDelay

WindowRight(k) == k.cwnd * mss <= k.incr

(* current and ts_flush when ikcp_update was called at the true time t *)
FlushRight(k, t) ==
  /\ k.current = ClockAt(t)
  /\ \E x \in 1 .. k.interval : k.ts_flush = ClockAt(t + x)

KcpRight(k) ==
  /\ k \in KcpType /\ k.snd_una <= k.snd_nxt
  /\ RtoRight(k) /\ EstimateRight(k) /\ WindowRight(k) /\ SegmentsRight(k)

CopyType == [sn : Nat, ts : Times, at : Nat]

InputType == [on : BOOLEAN, old : Nat, una : Nat, wnd : Nat, maxack : Int]

(* The inductive invariant: besides the parts, the schedule is that of the  *)
(* last update and every copy carries the time it was sent at.             *)
TimingIInv ==
  /\ now \in 0 .. MaxTime /\ lastUpdate \in Nat
  /\ lastUpdate <= now /\ now - lastUpdate <= MaxStall
  /\ KcpRight(kcp)
  /\ kcp.updated => FlushRight(kcp, lastUpdate) /\ kcp.cwnd >= 1
  /\ copies # {} => kcp.updated
  /\ copies \subseteq CopyType /\ input \in InputType
  /\ \A c \in copies :
       c.ts = ClockAt(c.at) /\ c.at <= lastUpdate /\ now - c.at <= MaxDelay

-----------------------------------------------------------------------------
\* What the assumption on the constants gives.
LEMMA TimerConstants ==
  /\ Wrap \in Nat /\ Wrap >= 4 /\ Wrap \div 2 \in Nat
  /\ 2 * (Wrap \div 2) <= Wrap /\ Wrap <= 2 * (Wrap \div 2) + 1
  /\ Start \in Nat
  /\ MaxTime \in Nat /\ MaxStall \in Nat /\ MaxDelay \in Nat /\ Resync \in Nat
  /\ MinInterval \in Nat \ {0} /\ MaxInterval \in Nat /\ MinInterval <= MaxInterval
  /\ MaxStall + MaxInterval < Wrap \div 2 /\ MaxDelay < Wrap \div 2
  /\ \A t \in {IKCP_RTO_NDL, IKCP_RTO_MIN, IKCP_RTO_DEF} : t \in Nat \ {0} /\ t <= IKCP_RTO_MAX
  /\ IKCP_RTO_MAX \in Nat
  <1>1. Wrap \in Nat /\ Wrap \div 2 > 1
    BY KcpTimerAssumption DEF KcpTimerAssumption
  <1>2. Wrap >= 4 /\ Start \in Nat
    BY <1>1 DEF Start
  <1> QED
    BY <1>1, <1>2, KcpTimerAssumption DEF KcpTimerAssumption

\* What is left of a sum after a wrap, by cases.
LEMMA WrapOnce ==
    ASSUME NEW W \in Nat \ {0}, NEW r \in 0 .. W - 1
    PROVE  r % W = r /\ (r + W) % W = r /\ (r - W) % W = r
  OBVIOUS

\* Every number is a multiple and what it leaves.
LEMMA Remainder ==
    ASSUME NEW W \in Nat \ {0}, NEW a \in Int
    PROVE  \E q \in Int : a = W * q + (a % W) /\ a % W \in 0 .. W - 1
  <1>1. a = W * (a \div W) + (a % W) /\ a % W \in 0 .. W - 1 /\ a \div W \in Int
    OBVIOUS
  <1> QED
    BY <1>1

\* What a multiple and a small rest leave.
LEMMA RemainderIs ==
    ASSUME NEW W \in Nat \ {0}, NEW q \in Int, NEW r \in 0 .. W - 1
    PROVE  (W * q + r) % W = r
  OBVIOUS

\* Two numbers a multiple of W apart leave the same.
LEMMA SameRemainder ==
    ASSUME NEW W \in Nat \ {0}, NEW a \in Int, NEW q \in Int
    PROVE  (W * q + a) % W = a % W
  <1>1. PICK p \in Int : a = W * p + (a % W) /\ a % W \in 0 .. W - 1
    BY Remainder
  <1> DEFINE r == a % W
  <1>2. r \in 0 .. W - 1 /\ a = W * p + r
    BY <1>1
  <1> HIDE DEF r
  <1>3. W * q + a = W * (q + p) + r /\ q + p \in Int
    BY <1>2
  <1>4. (W * (q + p) + r) % W = r
    BY <1>2, <1>3, RemainderIs
  <1> QED
    BY <1>3, <1>4 DEF r

\* Sums and differences of times are those of the clock.
LEMMA RemainderOfSum ==
    ASSUME NEW W \in Nat \ {0}, NEW a \in Int, NEW d \in Int
    PROVE  ((a % W) + d) % W = (a + d) % W
  <1>1. PICK q \in Int : a = W * q + (a % W) /\ a % W \in 0 .. W - 1
    BY Remainder
  <1> DEFINE r == a % W
  <1>2. r \in 0 .. W - 1 /\ a = W * q + r
    BY <1>1
  <1> HIDE DEF r
  <1>3. a + d = W * q + (r + d) /\ r + d \in Int
    BY <1>2
  <1>4. (W * q + (r + d)) % W = (r + d) % W
    BY <1>3, SameRemainder
  <1> QED
    BY <1>3, <1>4 DEF r

\* The difference of two times is that of what they stand for.
LEMMA RemainderOfDifference ==
    ASSUME NEW W \in Nat \ {0}, NEW a \in Int, NEW b \in Int
    PROVE  ((a % W) - (b % W)) % W = (a - b) % W
  <1>1. PICK q \in Int : b = W * q + (b % W) /\ b % W \in 0 .. W - 1
    BY Remainder
  <1> DEFINE r == b % W
  <1>2. r \in 0 .. W - 1 /\ b = W * q + r
    BY <1>1
  <1> HIDE DEF r
  <1> DEFINE m == 0 - r
  <1>0. m \in Int /\ m = 0 - r
    BY <1>2
  <1> HIDE DEF m
  <1>3. ((a % W) + m) % W = (a + m) % W
    BY <1>0, RemainderOfSum
  <1>4. a % W \in Int
    OBVIOUS
  <1>5. (a % W) - r = (a % W) + m /\ a + m = W * q + (a - b) /\ a - b \in Int
    BY <1>0, <1>2, <1>4
  <1>6. (W * q + (a - b)) % W = (a - b) % W
    BY <1>5, SameRemainder
  <1>7. ((a % W) - r) % W = (a - b) % W
    BY <1>3, <1>5, <1>6
  <1> QED
    BY <1>7 DEF r

\* A sum of times is a time.
LEMMA PlusType ==
    ASSUME NEW t \in Int, NEW d \in Int
    PROVE  Plus(t, d) \in Times
  BY TimerConstants DEF Plus, Times

\* A wait added to the clock is the clock after the wait.
LEMMA ClockFacts ==
    ASSUME NEW a \in Nat
    PROVE  /\ ClockAt(a) \in Times
           /\ \A d \in Nat : Plus(ClockAt(a), d) = ClockAt(a + d)
  <1>1. ClockAt(a) \in Times
    BY TimerConstants DEF ClockAt, Times
  <1>2. ASSUME NEW d \in Nat PROVE Plus(ClockAt(a), d) = ClockAt(a + d)
    <2> DEFINE s == Start + a
    <2>1. Wrap \in Nat \ {0} /\ s \in Int /\ s + d = Start + (a + d) /\ d \in Int
      BY TimerConstants
    <2> HIDE DEF s
    <2>2. ((s % Wrap) + d) % Wrap = (s + d) % Wrap
      BY <2>1, RemainderOfSum, Zenon
    <2> QED
      BY <2>1, <2>2 DEF Plus, ClockAt, s
  <1> QED
    BY <1>1, <1>2

\* _itimediff is the difference of true times that are near enough.
LEMMA DiffIsTrue ==
    ASSUME NEW a \in Nat, NEW b \in Nat, a - b < Wrap \div 2, b - a <= Wrap \div 2
    PROVE  itimediff(ClockAt(a), ClockAt(b)) = a - b
  <1>1. Wrap \in Nat \ {0} /\ Start + a \in Int /\ Start + b \in Int /\ a - b \in Int
        /\ (Start + a) - (Start + b) = a - b
    BY TimerConstants
  <1>2. (ClockAt(a) - ClockAt(b)) % Wrap = (a - b) % Wrap
    <2> DEFINE f == Start + a
               g == Start + b
    <2>1. f \in Int /\ g \in Int /\ f - g = a - b
      BY <1>1
    <2> HIDE DEF f, g
    <2>2. ((f % Wrap) - (g % Wrap)) % Wrap = (f - g) % Wrap
      BY <1>1, <2>1, RemainderOfDifference
    <2>3. ClockAt(a) = f % Wrap /\ ClockAt(b) = g % Wrap
      BY DEF ClockAt, f, g
    <2> QED
      BY <2>1, <2>2, <2>3
  <1>3. CASE a >= b
    <2>1. a - b \in 0 .. Wrap - 1
      BY <1>3, TimerConstants
    <2>2. (a - b) % Wrap = a - b
      BY <2>1, <1>1, WrapOnce
    <2> QED
      BY <1>2, <2>2 DEF itimediff
  <1>4. CASE a < b
    <2> DEFINE r == a - b + Wrap
    <2>1. r \in 0 .. Wrap - 1 /\ r >= Wrap \div 2 /\ r - Wrap = a - b
      BY <1>4, TimerConstants
    <2> HIDE DEF r
    <2>2. (r - Wrap) % Wrap = r
      BY <2>1, <1>1, WrapOnce
    <2>3. (ClockAt(a) - ClockAt(b)) % Wrap = r /\ ~(r < Wrap \div 2)
      BY <1>2, <2>1, <2>2, TimerConstants
    <2> QED
      BY <2>1, <2>3 DEF itimediff
  <1> QED
    BY <1>3, <1>4

\* The difference of any two times, and what it is added to.
LEMMA DiffFacts ==
    ASSUME NEW x \in Times, NEW y \in Times
    PROVE  /\ itimediff(y, x) \in Int /\ itimediff(y, x) < Wrap \div 2
           /\ Plus(x, itimediff(y, x)) = y
  <1>1. x \in 0 .. Wrap - 1 /\ y \in 0 .. Wrap - 1 /\ Wrap \in Nat \ {0}
    BY TimerConstants DEF Times
  <1>2. CASE y >= x
    <2>1. y - x \in 0 .. Wrap - 1
      BY <1>1, <1>2
    <2>2. (y - x) % Wrap = y - x
      BY <2>1, <1>1, WrapOnce
    <2>3. itimediff(y, x) = (IF y - x < Wrap \div 2 THEN y - x ELSE y - x - Wrap)
      BY <2>2 DEF itimediff
    <2>4. y % Wrap = y /\ (y - Wrap) % Wrap = y
      BY <1>1, WrapOnce
    <2>5. x + (y - x) = y /\ x + (y - x - Wrap) = y - Wrap
      BY <1>1
    <2> QED
      BY <1>1, <2>1, <2>3, <2>4, <2>5, TimerConstants DEF Plus
  <1>3. CASE y < x
    <2> DEFINE r == y - x + Wrap
    <2>1. r \in 0 .. Wrap - 1 /\ r - Wrap = y - x /\ x + r = y + Wrap /\ x + (r - Wrap) = y
      BY <1>1, <1>3
    <2> HIDE DEF r
    <2>2. (y - x) % Wrap = r
      BY <2>1, <1>1, WrapOnce
    <2>3. itimediff(y, x) = (IF r < Wrap \div 2 THEN r ELSE r - Wrap)
      BY <2>2 DEF itimediff
    <2>4. y % Wrap = y /\ (y + Wrap) % Wrap = y
      BY <1>1, WrapOnce
    <2> QED
      BY <1>1, <2>1, <2>3, <2>4, TimerConstants DEF Plus
  <1> QED
    BY <1>1, <1>2, <1>3

\* Of two waits that begin together, one is shorter by their difference.
LEMMA DiffOfWaits ==
    ASSUME NEW x \in Times, NEW c \in Nat, NEW e \in Nat,
           c - e < Wrap \div 2, e - c <= Wrap \div 2
    PROVE  itimediff(Plus(x, c), Plus(x, e)) = c - e
  <1>1. Wrap \in Nat \ {0} /\ x \in Nat /\ Start + Wrap \in Nat
    BY TimerConstants DEF Times
  <1>2. (x + c) \in Int /\ (x + e) \in Int /\ c - e \in Int /\ (x + c) - (x + e) = c - e
    BY <1>1
  <1>3. (Plus(x, c) - Plus(x, e)) % Wrap = (c - e) % Wrap
    <2> DEFINE f == x + c
               g == x + e
    <2>1. f \in Int /\ g \in Int /\ f - g = c - e
      BY <1>2
    <2> HIDE DEF f, g
    <2>2. ((f % Wrap) - (g % Wrap)) % Wrap = (f - g) % Wrap
      BY <1>1, <2>1, RemainderOfDifference
    <2>3. Plus(x, c) = f % Wrap /\ Plus(x, e) = g % Wrap
      BY DEF Plus, f, g
    <2> QED
      BY <2>1, <2>2, <2>3
  <1>4. CASE c >= e
    <2>1. c - e \in 0 .. Wrap - 1
      BY <1>4, TimerConstants
    <2>2. (c - e) % Wrap = c - e
      BY <2>1, <1>1, WrapOnce
    <2> QED
      BY <1>3, <2>2 DEF itimediff
  <1>5. CASE c < e
    <2> DEFINE r == c - e + Wrap
    <2>1. r \in 0 .. Wrap - 1 /\ r >= Wrap \div 2 /\ r - Wrap = c - e
      BY <1>5, TimerConstants
    <2> HIDE DEF r
    <2>2. (r - Wrap) % Wrap = r
      BY <2>1, <1>1, WrapOnce
    <2>3. (Plus(x, c) - Plus(x, e)) % Wrap = r /\ ~(r < Wrap \div 2)
      BY <1>3, <2>1, <2>2, TimerConstants
    <2> QED
      BY <2>1, <2>3 DEF itimediff
  <1> QED
    BY <1>4, <1>5

(* what no operation but ikcp_update changes *)
SameSchedule(n, k) ==
  /\ n.current = k.current /\ n.updated = k.updated
  /\ n.ts_flush = k.ts_flush /\ n.interval = k.interval

\* The bounds of the timeout.
LEMMA RtoFacts ==
    ASSUME NEW k \in KcpType
    PROVE  /\ k.rx_minrto \in Nat \ {0} /\ k.rx_minrto <= IKCP_RTO_MAX
           /\ ShortestRto(k) \in Nat \ {0} /\ ShortestRto(k) <= k.rx_minrto
           /\ ShortestRto(k) <= IKCP_RTO_DEF
  <1>1. k.rx_minrto \in {IKCP_RTO_MIN, IKCP_RTO_NDL}
    BY DEF KcpType
  <1>2. /\ k.rx_minrto \in Nat \ {0} /\ k.rx_minrto <= IKCP_RTO_MAX
        /\ IKCP_RTO_DEF \in Nat \ {0}
    BY <1>1, TimerConstants
  <1> QED
    BY <1>2 DEF ShortestRto, imin

\* The averages of ikcp_update_ack stay within what the samples are.
LEMMA AverageFacts ==
    ASSUME NEW rtt \in 0 .. MaxDelay, NEW s \in Nat, NEW v \in Nat,
           s <= imax(1, MaxDelay), v <= MaxDelay,
           NEW delta, delta = IF rtt < s THEN s - rtt ELSE rtt - s
    PROVE  /\ rtt \div 2 \in Nat /\ rtt \div 2 <= MaxDelay
           /\ (3 * v + delta) \div 4 \in Nat /\ (3 * v + delta) \div 4 <= MaxDelay
           /\ imax(1, (7 * s + rtt) \div 8) \in Nat
           /\ imax(1, (7 * s + rtt) \div 8) <= imax(1, MaxDelay)
  <1>1. delta \in Nat /\ (delta <= MaxDelay \/ (MaxDelay = 0 /\ delta <= 1))
    BY TimerConstants DEF imax
  <1>2. (7 * s + rtt) \div 8 \in Nat /\ (7 * s + rtt) \div 8 <= imax(1, MaxDelay)
    BY TimerConstants DEF imax
  <1>3. (3 * v + delta) \div 4 \in Nat /\ (3 * v + delta) \div 4 <= MaxDelay
    BY <1>1, TimerConstants
  <1> QED
    BY <1>2, <1>3, TimerConstants DEF imax

\* ikcp_update_ack: a sample of at most MaxDelay keeps the estimates so.
LEMMA UpdateAckFacts ==
    ASSUME NEW k, KcpRight(k), NEW rtt \in 0 .. MaxDelay
    PROVE  LET n == ikcp_update_ack(k, rtt)
           IN  /\ KcpRight(n) /\ SameSchedule(n, k)
               /\ n.cwnd = k.cwnd /\ n.snd_una = k.snd_una
  <1> DEFINE n == ikcp_update_ack(k, rtt)
             delta == IF rtt < k.rx_srtt THEN k.rx_srtt - rtt ELSE rtt - k.rx_srtt
             val == IF k.rx_srtt = 0 THEN rtt \div 2 ELSE (3 * k.rx_rttval + delta) \div 4
             srtt == IF k.rx_srtt = 0 THEN rtt ELSE imax(1, (7 * k.rx_srtt + rtt) \div 8)
             rto == ibound(k.rx_minrto, srtt + imax(k.interval, 4 * val), IKCP_RTO_MAX)
  <1>1. k \in KcpType /\ EstimateRight(k)
    BY DEF KcpRight
  <1>2. k.rx_srtt \in Nat /\ k.rx_rttval \in Nat /\ k.interval \in Nat
    <2>1. k.rx_srtt \in Nat /\ k.rx_rttval \in Nat /\ k.interval \in MinInterval .. MaxInterval
      BY <1>1 DEF KcpType
    <2> QED
      BY <2>1, TimerConstants
  <1>3. val \in Nat /\ val <= MaxDelay /\ srtt \in Nat /\ srtt <= imax(1, MaxDelay)
    <2>1. k.rx_srtt <= imax(1, MaxDelay) /\ k.rx_rttval <= MaxDelay
      BY <1>1 DEF EstimateRight
    <2>2. rtt \in Nat /\ rtt <= imax(1, MaxDelay)
      BY TimerConstants DEF imax
    <2> QED
      BY <1>2, <2>1, <2>2, AverageFacts
  <1>4. n = [k EXCEPT !.rx_srtt = srtt, !.rx_rttval = val, !.rx_rto = rto]
    BY DEF ikcp_update_ack
  <1> HIDE DEF srtt, val
  <1>5. rto \in Nat /\ k.rx_minrto <= rto /\ rto <= IKCP_RTO_MAX
    BY <1>1, <1>2, <1>3, RtoFacts, TimerConstants DEF ibound, imin, imax
  <1> HIDE DEF rto, n
  <1>6. n \in KcpType
    BY <1>1, <1>3, <1>4, <1>5 DEF KcpType
  <1>7. /\ n.rx_srtt = srtt /\ n.rx_rttval = val /\ n.rx_rto = rto
        /\ n.rx_minrto = k.rx_minrto /\ n.snd_buf = k.snd_buf /\ n.cwnd = k.cwnd
        /\ n.incr = k.incr /\ n.snd_una = k.snd_una /\ n.snd_nxt = k.snd_nxt
        /\ SameSchedule(n, k)
    BY <1>1, <1>4 DEF KcpType, SameSchedule
  <1>8. ShortestRto(n) = ShortestRto(k) /\ ShortestRto(k) <= k.rx_minrto
    BY <1>1, <1>7, RtoFacts DEF ShortestRto
  <1>9. RtoRight(n)
    BY <1>1, <1>5, <1>7, <1>8, RtoFacts DEF RtoRight
  <1>10. EstimateRight(n)
    BY <1>3, <1>7 DEF EstimateRight
  <1>11. WindowRight(n) /\ SegmentsRight(n) /\ n.snd_una <= n.snd_nxt
    BY <1>7, <1>8 DEF KcpRight, WindowRight, SegmentsRight, SegmentRight
  <1> QED
    BY <1>6, <1>7, <1>9, <1>10, <1>11 DEF KcpRight, n

\* A change of snd_buf alone, to segments that are right.
LEMMA BufFacts ==
    ASSUME NEW k, KcpRight(k), NEW b \in Seq(SegmentType),
           \A i \in DOMAIN b : SegmentRight(k, b[i])
    PROVE  LET n == WithBuf(k, b)
           IN  KcpRight(n) /\ SameSchedule(n, k) /\ n.cwnd = k.cwnd
  <1> DEFINE n == WithBuf(k, b)
             una == IF b = <<>> THEN k.snd_nxt ELSE b[1].sn
  <1>1. k \in KcpType /\ k.snd_nxt \in Nat
    BY DEF KcpRight, KcpType
  <1>2. n = [k EXCEPT !.snd_buf = b, !.snd_una = una]
    BY DEF WithBuf
  <1>3. una \in Nat /\ una <= k.snd_nxt
    <2>1. CASE b = <<>>
      BY <2>1, <1>1
    <2>2. CASE b # <<>>
      <3>1. 1 \in DOMAIN b /\ b[1] \in SegmentType
        BY <2>2
      <3>2. b[1].sn \in Nat /\ b[1].sn < k.snd_nxt
        BY <3>1 DEF SegmentRight, SegmentType
      <3> QED
        BY <2>2, <3>2, <1>1
    <2> QED
      BY <2>1, <2>2
  <1> HIDE DEF una, n
  <1>4. n \in KcpType
    BY <1>1, <1>2, <1>3 DEF KcpType
  <1>5. /\ n.snd_buf = b /\ n.snd_una = una /\ n.snd_nxt = k.snd_nxt
        /\ n.rx_srtt = k.rx_srtt /\ n.rx_rttval = k.rx_rttval /\ n.rx_rto = k.rx_rto
        /\ n.rx_minrto = k.rx_minrto /\ n.cwnd = k.cwnd /\ n.incr = k.incr
        /\ SameSchedule(n, k)
    BY <1>1, <1>2 DEF KcpType, SameSchedule
  <1>6. ShortestRto(n) = ShortestRto(k)
    BY <1>5 DEF ShortestRto
  <1>7. RtoRight(n) /\ EstimateRight(n) /\ WindowRight(n) /\ n.snd_una <= n.snd_nxt
    BY <1>3, <1>5, <1>6 DEF KcpRight, RtoRight, EstimateRight, WindowRight
  <1>8. SegmentsRight(n)
    BY <1>5, <1>6 DEF SegmentsRight, SegmentRight
  <1> QED
    BY <1>4, <1>5, <1>7, <1>8 DEF KcpRight, n

\* ikcp_parse_ack keeps only segments that were there.
LEMMA ParseAckFacts ==
    ASSUME NEW k, KcpRight(k), NEW num \in Nat
    PROVE  LET n == ikcp_parse_ack(k, num)
           IN  KcpRight(n) /\ SameSchedule(n, k) /\ n.cwnd = k.cwnd
  <1> DEFINE b == k.snd_buf
             places == {i \in DOMAIN b : b[i].sn = num}
             kept == IF places = {} THEN b ELSE RemoveAt(b, Min(places))
  <1>1. b \in Seq(SegmentType) /\ DOMAIN b = 1 .. Len(b)
        /\ \A i \in DOMAIN b : SegmentRight(k, b[i])
    BY DEF KcpRight, KcpType, SegmentsRight
  <1>2. ikcp_parse_ack(k, num) = WithBuf(k, kept)
    BY DEF ikcp_parse_ack
  <1> HIDE DEF b
  <1>3. kept \in Seq(SegmentType) /\ \A i \in DOMAIN kept : SegmentRight(k, kept[i])
    <2>1. CASE places = {}
      BY <1>1, <2>1
    <2>2. CASE places # {}
      <3> DEFINE m == Min(places)
      <3>1. m \in 1 .. Len(b)
        <4>1. places \subseteq Nat
          BY <1>1
        <4> QED
          BY <4>1, <1>1, <2>2, MinFacts
      <3>2. kept = RemoveAt(b, m)
        BY <2>2
      <3> HIDE DEF m, kept
      <3>3. /\ kept \in Seq(SegmentType) /\ DOMAIN kept = 1 .. Len(b) - 1
            /\ \A i \in 1 .. Len(b) - 1 : kept[i] = IF i < m THEN b[i] ELSE b[i + 1]
        BY <1>1, <3>1, <3>2, RemoveAtFacts
      <3>4. ASSUME NEW i \in 1 .. Len(b) - 1
            PROVE  SegmentRight(k, kept[i])
        <4>1. i \in 1 .. Len(b) /\ i + 1 \in 1 .. Len(b)
          BY <1>1
        <4> QED
          BY <1>1, <4>1, <3>3
      <3> QED
        BY <3>3, <3>4
    <2> QED
      BY <2>1, <2>2
  <1> HIDE DEF kept
  <1> QED
    BY <1>2, <1>3, BufFacts

\* ikcp_parse_una keeps only segments that were there.
LEMMA ParseUnaFacts ==
    ASSUME NEW k, KcpRight(k), NEW una \in Nat
    PROVE  LET n == ikcp_parse_una(k, una)
           IN  KcpRight(n) /\ SameSchedule(n, k) /\ n.cwnd = k.cwnd
  <1> DEFINE b == k.snd_buf
             kept == {i \in DOMAIN b : una <= b[i].sn}
             rest == IF kept = {} THEN <<>> ELSE SubSeq(b, Min(kept), Len(b))
  <1>1. b \in Seq(SegmentType) /\ DOMAIN b = 1 .. Len(b)
        /\ \A i \in DOMAIN b : SegmentRight(k, b[i])
    BY DEF KcpRight, KcpType, SegmentsRight
  <1>2. ikcp_parse_una(k, una) = WithBuf(k, rest)
    BY DEF ikcp_parse_una
  <1> HIDE DEF b
  <1>3. rest \in Seq(SegmentType) /\ \A i \in DOMAIN rest : SegmentRight(k, rest[i])
    <2>1. CASE kept = {}
      BY <2>1
    <2>2. CASE kept # {}
      <3> DEFINE m == Min(kept)
                 l == Len(b)
      <3>1. m \in 1 .. l /\ l \in Nat
        <4>1. kept \subseteq Nat /\ kept \subseteq 1 .. Len(b)
          BY <1>1
        <4>2. Len(b) \in Nat
          BY <1>1
        <4>3. Min(kept) \in kept
          <5> HIDE DEF kept
          <5> QED
            BY <4>1, <2>2, MinFacts
        <4> HIDE DEF kept
        <4> QED
          BY <4>1, <4>2, <4>3
      <3>2. rest = SubSeq(b, m, l)
        BY <2>2
      <3> HIDE DEF m, rest, kept
      <3>3. /\ rest \in Seq(SegmentType) /\ Len(rest) = l - m + 1
            /\ \A i \in 1 .. l - m + 1 : rest[i] = b[m + i - 1]
        BY <1>1, <3>1, <3>2
      <3>4. ASSUME NEW i \in 1 .. l - m + 1
            PROVE  SegmentRight(k, rest[i])
        <4>1. m + i - 1 \in 1 .. l
          BY <3>1
        <4> QED
          BY <1>1, <4>1, <3>3
      <3>5. DOMAIN rest = 1 .. l - m + 1
        BY <3>3
      <3> QED
        BY <3>3, <3>4, <3>5
    <2> QED
      BY <2>1, <2>2
  <1> HIDE DEF rest
  <1> QED
    BY <1>2, <1>3, BufFacts

\* ikcp_parse_fastack counts, and changes nothing else.
LEMMA FastackFacts ==
    ASSUME NEW k, KcpRight(k), NEW num \in Int
    PROVE  LET n == ikcp_parse_fastack(k, num)
           IN  KcpRight(n) /\ SameSchedule(n, k) /\ n.cwnd = k.cwnd
  <1> DEFINE o == k.snd_buf
             counted(s) == [s EXCEPT !.fastack = IF s.sn < num THEN s.fastack + 1
                                                 ELSE s.fastack]
             b == [i \in DOMAIN o |-> counted(o[i])]
             n == ikcp_parse_fastack(k, num)
  <1>1. k \in KcpType /\ o \in Seq(SegmentType)
        /\ \A i \in DOMAIN o : SegmentRight(k, o[i])
    BY DEF KcpRight, KcpType, SegmentsRight
  <1>2. n = [k EXCEPT !.snd_buf = b]
    BY DEF ikcp_parse_fastack
  <1>3. ASSUME NEW i \in DOMAIN o
        PROVE  b[i] \in SegmentType /\ SegmentRight(k, b[i])
    <2> DEFINE s == o[i]
               t == b[i]
               f == IF s.sn < num THEN s.fastack + 1 ELSE s.fastack
    <2>1. s \in SegmentType /\ SegmentRight(k, s)
      BY <1>1
    <2>2. t = [s EXCEPT !.fastack = f]
      OBVIOUS
    <2> HIDE DEF s, t, b
    <2>3. f \in Nat
      BY <2>1 DEF SegmentType
    <2> HIDE DEF f
    <2>4. t \in SegmentType
      BY <2>1, <2>2, <2>3 DEF SegmentType
    <2>5. t.sn = s.sn /\ t.ts = s.ts /\ t.resendts = s.resendts /\ t.rto = s.rto
          /\ t.xmit = s.xmit
      BY <2>1, <2>2 DEF SegmentType
    <2>6. SegmentRight(k, t)
      BY <2>1, <2>5 DEF SegmentRight, Waits
    <2> QED
      BY <2>4, <2>6 DEF t
  <1>4. b \in Seq(SegmentType) /\ DOMAIN b = DOMAIN o
    <2>1. o \in Seq(SegmentType) /\ DOMAIN o = 1 .. Len(o) /\ Len(o) \in Nat
      BY <1>1
    <2>2. b \in [DOMAIN o -> SegmentType]
      BY <1>3
    <2> HIDE DEF o, b
    <2> QED
      BY <2>1, <2>2
  <1> HIDE DEF b, n, o
  <1>5. n \in KcpType
    BY <1>1, <1>2, <1>4 DEF KcpType
  <1>6. /\ n.snd_buf = b /\ n.snd_una = k.snd_una /\ n.snd_nxt = k.snd_nxt
        /\ n.rx_srtt = k.rx_srtt /\ n.rx_rttval = k.rx_rttval /\ n.rx_rto = k.rx_rto
        /\ n.rx_minrto = k.rx_minrto /\ n.cwnd = k.cwnd /\ n.incr = k.incr
        /\ SameSchedule(n, k)
    BY <1>1, <1>2 DEF KcpType, SameSchedule
  <1>7. ShortestRto(n) = ShortestRto(k)
    BY <1>6 DEF ShortestRto
  <1>8. RtoRight(n) /\ EstimateRight(n) /\ WindowRight(n) /\ n.snd_una <= n.snd_nxt
    BY <1>6, <1>7 DEF KcpRight, RtoRight, EstimateRight, WindowRight
  <1>9. SegmentsRight(n)
    BY <1>3, <1>4, <1>6, <1>7 DEF SegmentsRight, SegmentRight
  <1> QED
    BY <1>5, <1>6, <1>8, <1>9 DEF KcpRight, n

(* another window and nothing else *)
WithWindow(k, c, i, t) == [k EXCEPT !.cwnd = c, !.incr = i, !.ssthresh = t]

\* A change of the window alone.
LEMMA WindowChange ==
    ASSUME NEW k, KcpRight(k), NEW c \in Nat, NEW i \in Nat, NEW t \in Nat, c * mss <= i,
           NEW n, n = WithWindow(k, c, i, t)
    PROVE  KcpRight(n) /\ SameSchedule(n, k) /\ n.cwnd = c /\ n.snd_una = k.snd_una
           /\ n.snd_buf = k.snd_buf /\ n.incr = i /\ n.ssthresh = t
           /\ n.fastresend = k.fastresend /\ n.snd_nxt = k.snd_nxt
  <1>1. k \in KcpType
    BY DEF KcpRight
  <1>2. n \in KcpType
    BY <1>1 DEF KcpType, WithWindow
  <1>3. /\ n.snd_buf = k.snd_buf /\ n.snd_una = k.snd_una /\ n.snd_nxt = k.snd_nxt
        /\ n.rx_srtt = k.rx_srtt /\ n.rx_rttval = k.rx_rttval /\ n.rx_rto = k.rx_rto
        /\ n.rx_minrto = k.rx_minrto /\ n.cwnd = c /\ n.incr = i /\ n.ssthresh = t
        /\ n.fastresend = k.fastresend
        /\ SameSchedule(n, k)
    BY <1>1 DEF KcpType, SameSchedule, WithWindow
  <1>4. ShortestRto(n) = ShortestRto(k)
    BY <1>3 DEF ShortestRto
  <1>5. RtoRight(n) /\ EstimateRight(n) /\ WindowRight(n) /\ n.snd_una <= n.snd_nxt
    BY <1>3, <1>4 DEF KcpRight, RtoRight, EstimateRight, WindowRight
  <1>6. SegmentsRight(n)
    BY <1>3, <1>4 DEF KcpRight, SegmentsRight, SegmentRight
  <1> QED
    BY <1>2, <1>3, <1>5, <1>6 DEF KcpRight

\* The window of one segment more costs one mss more.
LEMMA WindowConstants ==
    /\ mss \in Nat \ {0} /\ snd_wnd \in Nat /\ IKCP_THRESH_MIN \in Nat \ {0}
    /\ \A c \in Nat : c * mss \in Nat /\ (c + 1) * mss = c * mss + mss
    /\ 1 * mss = mss
  <1>1. mss \in Nat \ {0} /\ snd_wnd \in Nat /\ IKCP_THRESH_MIN \in Nat \ {0}
    BY KcpTimerAssumption DEF KcpTimerAssumption
  <1>2. \A m \in Nat : 1 * m = m /\ \A c \in Nat : c * m \in Nat /\ (c + 1) * m = c * m + m
    OBVIOUS
  <1> QED
    BY <1>1, <1>2

\* A window written without its threshold.
LEMMA SameThreshold ==
    ASSUME NEW k \in KcpType, NEW c \in Nat, NEW i \in Nat
    PROVE  [k EXCEPT !.cwnd = c, !.incr = i] = WithWindow(k, c, i, k.ssthresh)
  BY DEF KcpType, WithWindow

\* The window grows only as incr pays for it.
LEMMA GrowFacts ==
    ASSUME NEW k, KcpRight(k)
    PROVE  LET n == GrowWindow(k)
           IN  /\ KcpRight(n) /\ SameSchedule(n, k)
               /\ k.cwnd >= 1 => n.cwnd >= 1
  <1> DEFINE wnd == k.rmt_wnd
             slow == k.cwnd < k.ssthresh
             i0 == imax(k.incr, mss)
             incr == IF slow THEN k.incr + mss ELSE i0 + (mss * mss) \div i0 + mss \div 16
             cwnd == IF slow \/ (k.cwnd + 1) * mss <= incr THEN k.cwnd + 1 ELSE k.cwnd
  <1>1. k \in KcpType /\ k.cwnd \in Nat /\ k.incr \in Nat /\ k.ssthresh \in Nat
        /\ k.cwnd * mss <= k.incr
    BY DEF KcpRight, KcpType, WindowRight
  <1>2. i0 \in Nat \ {0} /\ k.incr <= i0
    BY <1>1, WindowConstants DEF imax
  <1>3. (mss * mss) \div i0 \in Nat /\ mss \div 16 \in Nat
    <2>1. mss * mss \in Nat
      BY WindowConstants
    <2>2. \A a \in Nat, b \in Nat \ {0} : a \div b \in Nat
      OBVIOUS
    <2> QED
      BY <1>2, <2>1, <2>2, WindowConstants
  <1>4. incr \in Nat /\ cwnd \in Nat /\ cwnd * mss <= incr /\ k.cwnd <= cwnd
    <2> HIDE DEF i0
    <2>1. CASE slow
      <3>1. (k.cwnd + 1) * mss = k.cwnd * mss + mss
        BY <1>1, WindowConstants
      <3>2. k.cwnd * mss \in Nat
        BY <1>1, WindowConstants
      <3>3. incr = k.incr + mss /\ cwnd = k.cwnd + 1
        BY <2>1
      <3> HIDE DEF incr, cwnd
      <3> QED
        BY <1>1, <3>1, <3>2, <3>3, WindowConstants
    <2>2. CASE ~slow
      <3>1. k.cwnd * mss \in Nat
        BY <1>1, WindowConstants
      <3> DEFINE q == (mss * mss) \div i0
                 r == mss \div 16
      <3>2. incr = i0 + q + r
        BY <2>2
      <3>4. q \in Nat /\ r \in Nat
        BY <1>3
      <3>5. cwnd = IF (k.cwnd + 1) * mss <= incr THEN k.cwnd + 1 ELSE k.cwnd
        BY <2>2
      <3> HIDE DEF q, r, incr, cwnd
      <3>3. incr \in Nat /\ i0 <= incr
        BY <1>2, <3>2, <3>4
      <3> QED
        BY <1>1, <1>2, <3>1, <3>3, <3>5
    <2> QED
      BY <2>1, <2>2
  <1>5. wnd \in Nat /\ wnd * mss \in Nat
    <2>1. wnd \in Nat
      BY <1>1 DEF KcpType
    <2> QED
      BY <2>1, WindowConstants
  <1>6. GrowWindow(k) = IF k.cwnd >= wnd THEN k
                        ELSE IF cwnd > wnd THEN [k EXCEPT !.cwnd = wnd, !.incr = wnd * mss]
                        ELSE [k EXCEPT !.cwnd = cwnd, !.incr = incr]
    BY DEF GrowWindow
  <1> HIDE DEF cwnd, incr, wnd
  <1>7. CASE GrowWindow(k) = k
    BY <1>7, <1>1 DEF SameSchedule
  <1>8. CASE /\ ~(k.cwnd >= wnd)
             /\ GrowWindow(k) = [k EXCEPT !.cwnd = wnd, !.incr = wnd * mss]
    <2> DEFINE n == GrowWindow(k)
               w == wnd * mss
    <2>1. w \in Nat /\ wnd * mss <= w /\ wnd \in Nat
      BY <1>5
    <2> DEFINE t == k.ssthresh
    <2>2. n = WithWindow(k, wnd, w, t)
      <3> HIDE DEF w
      <3> QED
        BY <1>1, <1>8, <2>1, SameThreshold DEF w
    <2>4. t \in Nat
      BY <1>1
    <2> HIDE DEF n, w, t
    <2>3. KcpRight(n) /\ SameSchedule(n, k) /\ n.cwnd = wnd
      BY <2>1, <2>2, <2>4, WindowChange
    <2>5. k.cwnd >= 1 => wnd >= 1
      BY <1>1, <1>5, <1>8
    <2> QED
      BY <2>3, <2>5 DEF n
  <1>9. CASE GrowWindow(k) = [k EXCEPT !.cwnd = cwnd, !.incr = incr]
    <2> DEFINE n == GrowWindow(k)
    <2> DEFINE t == k.ssthresh
    <2>2. n = WithWindow(k, cwnd, incr, t)
      BY <1>1, <1>4, <1>9, SameThreshold
    <2>1. t \in Nat /\ incr \in Nat /\ cwnd \in Nat /\ cwnd * mss <= incr
      BY <1>1, <1>4
    <2> HIDE DEF n, t
    <2>3. KcpRight(n) /\ SameSchedule(n, k) /\ n.cwnd = cwnd
      BY <2>1, <2>2, WindowChange
    <2> QED
      BY <1>1, <1>4, <2>3 DEF n
  <1> QED
    BY <1>6, <1>7, <1>8, <1>9

\* Every segment of a datagram brings una and a window.
LEMMA InputUnaFacts ==
    ASSUME NEW k, KcpRight(k), NEW d \in InputType
    PROVE  LET n == InputUna(k, d)
           IN  KcpRight(n) /\ SameSchedule(n, k) /\ n.cwnd = k.cwnd
  <1> DEFINE m == [k EXCEPT !.rmt_wnd = d.wnd]
             u == d.una
  <1>1. k \in KcpType /\ d.wnd \in Nat /\ u \in Nat
    BY DEF KcpRight, InputType
  <1>2. m \in KcpType
    BY <1>1 DEF KcpType
  <1>3. /\ m.snd_buf = k.snd_buf /\ m.snd_una = k.snd_una /\ m.snd_nxt = k.snd_nxt
        /\ m.rx_srtt = k.rx_srtt /\ m.rx_rttval = k.rx_rttval /\ m.rx_rto = k.rx_rto
        /\ m.rx_minrto = k.rx_minrto /\ m.cwnd = k.cwnd /\ m.incr = k.incr
        /\ SameSchedule(m, k)
    BY <1>1 DEF KcpType, SameSchedule
  <1>4. InputUna(k, d) = ikcp_parse_una(m, u)
    BY DEF InputUna
  <1> HIDE DEF m, u
  <1>5. ShortestRto(m) = ShortestRto(k)
    BY <1>3 DEF ShortestRto
  <1>6. RtoRight(m) /\ EstimateRight(m) /\ WindowRight(m) /\ m.snd_una <= m.snd_nxt
    BY <1>3, <1>5 DEF KcpRight, RtoRight, EstimateRight, WindowRight
  <1>7. SegmentsRight(m)
    BY <1>3, <1>5 DEF KcpRight, SegmentsRight, SegmentRight
  <1>8. KcpRight(m)
    BY <1>2, <1>6, <1>7 DEF KcpRight
  <1> DEFINE n == ikcp_parse_una(m, u)
  <1>9. KcpRight(n) /\ SameSchedule(n, m) /\ n.cwnd = m.cwnd
    BY <1>1, <1>8, ParseUnaFacts
  <1> HIDE DEF n
  <1> QED
    BY <1>3, <1>4, <1>9 DEF SameSchedule, n

\* An acknowledgement of a copy that was sent not long before the last update.
LEMMA InputAckFacts ==
    ASSUME NEW k, KcpRight(k), NEW c \in CopyType,
           itimediff(k.current, c.ts) \in 0 .. MaxDelay
    PROVE  LET n == InputAck(k, c)
           IN  KcpRight(n) /\ SameSchedule(n, k) /\ n.cwnd = k.cwnd
  <1> DEFINE rtt == itimediff(k.current, c.ts)
             u == ikcp_update_ack(k, rtt)
             a == ikcp_parse_ack(u, c.sn)
  <1>1. rtt \in 0 .. MaxDelay /\ rtt >= 0 /\ c.sn \in Nat
    BY TimerConstants DEF CopyType
  <1>2. InputAck(k, c) = a
    BY <1>1 DEF InputAck
  <1> HIDE DEF rtt
  <1>3. KcpRight(u) /\ SameSchedule(u, k) /\ u.cwnd = k.cwnd
    BY <1>1, UpdateAckFacts
  <1> HIDE DEF u
  <1>4. KcpRight(a) /\ SameSchedule(a, u) /\ a.cwnd = u.cwnd
    BY <1>1, <1>3, ParseAckFacts
  <1> HIDE DEF a
  <1> QED
    BY <1>2, <1>3, <1>4 DEF SameSchedule

\* The end of a datagram counts for the fast resend and may grow the window.
LEMMA InputEndFacts ==
    ASSUME NEW k, KcpRight(k), NEW d \in InputType
    PROVE  LET n == InputEnd(k, d)
           IN  /\ KcpRight(n) /\ SameSchedule(n, k)
               /\ k.cwnd >= 1 => n.cwnd >= 1
  <1> DEFINE m == d.maxack
             c == IF m < 0 THEN k ELSE ikcp_parse_fastack(k, m)
             g == GrowWindow(c)
  <1>1. m \in Int
    BY DEF InputType
  <1>2. InputEnd(k, d) = IF k.snd_una > d.old THEN g ELSE c
    BY DEF InputEnd
  <1> HIDE DEF m
  <1>3. KcpRight(c) /\ SameSchedule(c, k) /\ c.cwnd = k.cwnd
    <2>1. CASE m < 0
      BY <2>1 DEF SameSchedule
    <2>2. CASE ~(m < 0)
      BY <1>1, <2>2, FastackFacts
    <2> QED
      BY <2>1, <2>2
  <1> HIDE DEF c
  <1>4. KcpRight(g) /\ SameSchedule(g, c) /\ (c.cwnd >= 1 => g.cwnd >= 1)
    BY <1>3, GrowFacts
  <1> HIDE DEF g
  <1>5. SameSchedule(g, k)
    BY <1>3, <1>4 DEF SameSchedule
  <1> QED
    BY <1>2, <1>3, <1>4, <1>5

\* The window of a flush is a number.
LEMMA FlushWindowType ==
    ASSUME NEW k \in KcpType
    PROVE  FlushWindow(k) \in Nat
  <1>1. k.cwnd \in Nat /\ k.rmt_wnd \in Nat
    BY DEF KcpType
  <1> QED
    BY <1>1, WindowConstants DEF FlushWindow, imin

\* Segments come to snd_buf with the next numbers and none is sent yet.
LEMMA MovedFacts ==
    ASSUME NEW k, KcpRight(k)
    PROVE  LET n == Moved(k)
           IN  KcpRight(n) /\ SameSchedule(n, k) /\ n.cwnd = k.cwnd
  <1> DEFINE c == imin(k.nsnd_que, imax(0, k.snd_una + FlushWindow(k) - k.snd_nxt))
             fresh == [i \in 1 .. c |->
               [sn |-> k.snd_nxt + i - 1, ts |-> k.current, resendts |-> k.current,
                rto |-> k.rx_rto, fastack |-> 0, xmit |-> 0]]
             n == Moved(k)
             b == k.snd_buf \o fresh
  <1>1. /\ k \in KcpType /\ k.nsnd_que \in Nat /\ k.snd_una \in Nat /\ k.snd_nxt \in Nat
        /\ k.snd_buf \in Seq(SegmentType) /\ k.current \in Times /\ k.rx_rto \in Nat
    BY DEF KcpRight, KcpType
  <1>2. c \in Nat /\ c <= k.nsnd_que
    BY <1>1, FlushWindowType DEF imin, imax
  <1>3. n = [k EXCEPT !.nsnd_que = k.nsnd_que - c, !.snd_nxt = k.snd_nxt + c, !.snd_buf = b]
    BY <1>1 DEF Moved
  <1> HIDE DEF c
  <1>4. fresh \in Seq(SegmentType) /\ Len(fresh) = c
        /\ \A i \in 1 .. c : fresh[i].sn < k.snd_nxt + c /\ fresh[i].xmit = 0
    <2>1. ASSUME NEW i \in 1 .. c
          PROVE  /\ fresh[i] \in SegmentType /\ fresh[i].sn < k.snd_nxt + c
                 /\ fresh[i].xmit = 0
      <3>1. k.snd_nxt + i - 1 \in Nat /\ k.snd_nxt + i - 1 < k.snd_nxt + c
        BY <1>1, <1>2
      <3> QED
        BY <1>1, <3>1 DEF SegmentType
    <2>2. fresh \in [1 .. c -> SegmentType]
      BY <2>1
    <2>3. fresh \in Seq(SegmentType) /\ Len(fresh) = c
      <3> HIDE DEF fresh
      <3> QED
        BY <1>2, <2>2
    <2> QED
      BY <2>1, <2>3
  <1> HIDE DEF fresh
  <1>5. /\ b \in Seq(SegmentType) /\ DOMAIN b = 1 .. Len(k.snd_buf) + c
        /\ Len(k.snd_buf) \in Nat
        /\ \A i \in 1 .. Len(k.snd_buf) : b[i] = k.snd_buf[i]
        /\ \A i \in 1 .. c : b[Len(k.snd_buf) + i] = fresh[i]
    <2>1. k.snd_buf \in Seq(SegmentType) /\ fresh \in Seq(SegmentType) /\ Len(fresh) = c
      BY <1>1, <1>4
    <2> HIDE DEF b
    <2> DEFINE o == k.snd_buf
    <2>2. o \in Seq(SegmentType) /\ b = o \o fresh
      BY <2>1 DEF b
    <2> HIDE DEF o
    <2>3. /\ b \in Seq(SegmentType) /\ DOMAIN b = 1 .. Len(o) + c
          /\ Len(o) \in Nat
          /\ \A i \in 1 .. Len(o) : b[i] = o[i]
          /\ \A i \in 1 .. c : b[Len(o) + i] = fresh[i]
      BY <2>1, <2>2, ConcatAt
    <2> QED
      BY <2>3 DEF o
  <1> HIDE DEF b, n
  <1>6. n \in KcpType
    <2>1. k.nsnd_que - c \in Nat /\ k.snd_nxt + c \in Nat
      BY <1>1, <1>2
    <2> QED
      BY <1>1, <1>3, <1>5, <2>1 DEF KcpType
  <1>7. /\ n.snd_buf = b /\ n.snd_una = k.snd_una /\ n.snd_nxt = k.snd_nxt + c
        /\ n.rx_srtt = k.rx_srtt /\ n.rx_rttval = k.rx_rttval /\ n.rx_rto = k.rx_rto
        /\ n.rx_minrto = k.rx_minrto /\ n.cwnd = k.cwnd /\ n.incr = k.incr
        /\ SameSchedule(n, k)
    BY <1>1, <1>3 DEF KcpType, SameSchedule
  <1>8. ShortestRto(n) = ShortestRto(k)
    BY <1>7 DEF ShortestRto
  <1>9. RtoRight(n) /\ EstimateRight(n) /\ WindowRight(n)
    BY <1>7, <1>8 DEF KcpRight, RtoRight, EstimateRight, WindowRight
  <1>10. n.snd_una <= n.snd_nxt
    BY <1>1, <1>2, <1>7 DEF KcpRight
  <1>11. ASSUME NEW i \in DOMAIN b PROVE SegmentRight(n, b[i])
    <2> DEFINE l == Len(k.snd_buf)
    <2>1. CASE i <= l
      <3>1. i \in DOMAIN k.snd_buf /\ b[i] = k.snd_buf[i]
        BY <1>1, <1>5, <2>1
      <3>2. SegmentRight(k, b[i]) /\ b[i] \in SegmentType
        BY <1>1, <3>1 DEF KcpRight, SegmentsRight
      <3>3. b[i].sn \in Nat
        BY <3>2 DEF SegmentType
      <3>4. b[i].sn < n.snd_nxt
        BY <1>1, <1>2, <1>7, <3>2, <3>3 DEF SegmentRight
      <3> QED
        BY <1>8, <3>2, <3>4 DEF SegmentRight
    <2>2. CASE ~(i <= l)
      <3> DEFINE j == i - l
      <3>1. j \in 1 .. c /\ l + j = i
        <4>1. l \in Nat /\ i \in 1 .. l + c
          BY <1>5
        <4> HIDE DEF l
        <4> QED
          BY <1>2, <2>2, <4>1
      <3>2. b[l + j] = fresh[j] /\ fresh[j].sn < k.snd_nxt + c /\ fresh[j].xmit = 0
        BY <1>4, <1>5, <3>1
      <3>3. b[i].sn < n.snd_nxt /\ b[i].xmit = 0
        BY <1>7, <3>1, <3>2
      <3> QED
        BY <3>3 DEF SegmentRight
    <2> QED
      BY <2>1, <2>2
  <1> QED
    BY <1>6, <1>7, <1>9, <1>10, <1>11 DEF KcpRight, SegmentsRight, n

\* A segment sent by ikcp_flush waits for its timeout from now on.
LEMMA TransmitFacts ==
    ASSUME NEW k, KcpRight(k), NEW s \in SegmentType, SegmentRight(k, s)
    PROVE  LET t == Transmit(k, s)
           IN  /\ t \in SegmentType /\ SegmentRight(k, t) /\ t.sn = s.sn
               /\ Reason(k, s) # "none" => t.ts = k.current
  <1> DEFINE r == Reason(k, s)
             lo == ShortestRto(k)
             M == IKCP_RTO_MAX
             rto == CASE r = "first" -> k.rx_rto
                      [] r = "timeout" -> Backoff(k, s)
                      [] OTHER -> s.rto
             wait == IF r = "first" THEN rto + rtomin(k) ELSE rto
             fa == IF r = "fast" THEN 0 ELSE s.fastack
             t == Transmit(k, s)
  <1>1. /\ s.sn \in Nat /\ s.ts \in Times /\ s.resendts \in Times
        /\ s.rto \in Nat /\ s.fastack \in Nat /\ s.xmit \in Nat
    BY DEF SegmentType
  <1>2. /\ k \in KcpType /\ k.rx_rto \in Nat /\ k.current \in Times
        /\ lo <= k.rx_rto /\ k.rx_rto <= M
    BY DEF KcpRight, RtoRight, KcpType
  <1>3. lo \in Nat /\ M \in Nat
    BY <1>2, RtoFacts, TimerConstants
  <1>4. r \in {"first", "timeout", "fast", "none"} /\ (r = "first" <=> s.xmit = 0)
    BY <1>1 DEF Reason
  <1>5. CASE r = "none"
    <2>1. t = s
      BY <1>5 DEF Transmit
    <2> QED
      BY <1>5, <2>1
  <1>6. CASE r # "none"
    <2>1. t = [s EXCEPT !.xmit = s.xmit + 1, !.rto = rto, !.ts = k.current,
                        !.fastack = fa, !.resendts = Plus(k.current, wait)]
      BY <1>6 DEF Transmit, StampOf
    <2> DEFINE x == s.xmit
    <2>2. rto \in Nat /\ lo <= rto /\ rto <= (x + 1) * M
      <3> DEFINE p == x * M
      <3>1. p \in Nat /\ (x + 1) * M = p + M /\ (x = 0 => p = 0)
        <4>1. \A y \in Nat, m \in Nat : y * m \in Nat /\ (y + 1) * m = y * m + m /\ 0 * m = 0
          OBVIOUS
        <4> QED
          BY <1>1, <1>3, <4>1
      <3>2. x > 0 => lo <= s.rto /\ s.rto <= p
        BY DEF SegmentRight
      <3> HIDE DEF p
      <3>3. CASE r = "first"
        <4>1. rto = k.rx_rto
          BY <3>3
        <4> HIDE DEF lo, M, rto
        <4> QED
          BY <1>2, <1>3, <3>1, <4>1
      <3>4. CASE r = "timeout"
        <4>1. rto = Backoff(k, s) /\ x > 0
          BY <1>1, <1>4, <3>4
        <4>2. Backoff(k, s) \in Nat /\ s.rto <= Backoff(k, s) /\ Backoff(k, s) <= s.rto + k.rx_rto
          BY <1>1, <1>2 DEF Backoff
        <4> HIDE DEF lo, M, rto
        <4> QED
          BY <1>1, <1>2, <1>3, <3>1, <3>2, <4>1, <4>2
      <3>5. CASE r = "fast"
        <4>1. rto = s.rto /\ x > 0
          BY <1>1, <1>4, <3>5
        <4> HIDE DEF lo, M, rto
        <4> QED
          BY <1>1, <1>2, <1>3, <3>1, <3>2, <4>1
      <3> QED
        BY <1>4, <1>6, <3>3, <3>4, <3>5
    <2>3. wait \in Nat /\ rto <= wait /\ wait <= rto + M
      <3>1. rtomin(k) \in Nat /\ rtomin(k) <= M
        BY <1>2, <1>3 DEF rtomin
      <3> HIDE DEF rto, M
      <3> QED
        BY <1>3, <2>2, <3>1
    <2>4. fa \in Nat /\ x + 1 \in Nat /\ x + 1 > 0
      BY <1>1
    <2>5. Plus(k.current, wait) \in Times
      <3>1. k.current \in Int
        BY <1>2, TimerConstants DEF Times
      <3> HIDE DEF wait
      <3> QED
        BY <2>3, <3>1, PlusType
    <2> HIDE DEF rto, wait, fa, t, x
    <2>6. t \in SegmentType
      <3>1. t = [s EXCEPT !.xmit = x + 1, !.rto = rto, !.ts = k.current,
                          !.fastack = fa, !.resendts = Plus(k.current, wait)]
        BY <2>1 DEF x
      <3> QED
        BY <1>2, <2>2, <2>4, <2>5, <3>1 DEF SegmentType
    <2>7. t.sn = s.sn /\ t.ts = k.current /\ t.resendts = Plus(k.current, wait)
          /\ t.rto = rto /\ t.xmit = x + 1
      BY <2>1 DEF SegmentType, x
    <2>8. Waits(t)
      BY <2>3, <2>7 DEF Waits
    <2>9. SegmentRight(k, t)
      <3>1. s.sn < k.snd_nxt
        BY DEF SegmentRight
      <3>2. t.sn < k.snd_nxt /\ lo <= t.rto /\ t.rto <= t.xmit * M
        BY <2>2, <2>7, <3>1
      <3> QED
        BY <3>2, <2>8 DEF SegmentRight
    <2> QED
      BY <2>6, <2>7, <2>9 DEF t
  <1> QED
    BY <1>5, <1>6

\* The last step of ikcp_flush leaves a window of at least one segment.
LEMMA CongestionFacts ==
    ASSUME NEW k, KcpRight(k), NEW change \in BOOLEAN, NEW lost \in BOOLEAN, NEW w \in Nat
    PROVE  LET n == Congestion(k, change, lost, w)
           IN  KcpRight(n) /\ SameSchedule(n, k) /\ n.cwnd >= 1 /\ n.snd_buf = k.snd_buf
  <1> DEFINE thresh(m) == imax(m \div 2, IKCP_THRESH_MIN)
             t == thresh(k.snd_nxt - k.snd_una)
             a == IF ~change THEN k
                  ELSE [k EXCEPT !.ssthresh = t, !.cwnd = t + k.fastresend,
                                 !.incr = (t + k.fastresend) * mss]
             b == IF ~lost THEN a
                  ELSE [a EXCEPT !.ssthresh = thresh(w), !.cwnd = 1, !.incr = mss]
             n == AtLeastOne(b)
  <1>1. n = Congestion(k, change, lost, w)
    BY DEF Congestion
  <1>2. /\ k \in KcpType /\ k.snd_nxt \in Nat /\ k.snd_una \in Nat /\ k.fastresend \in Nat
        /\ k.snd_una <= k.snd_nxt
    BY DEF KcpRight, KcpType
  <1>3. \A m \in Nat : thresh(m) \in Nat
    BY WindowConstants DEF imax
  <1>4. t \in Nat
    <2>1. k.snd_nxt - k.snd_una \in Nat
      BY <1>2
    <2> HIDE DEF thresh
    <2> QED
      BY <1>3, <2>1
  <1>5. thresh(w) \in Nat
    BY <1>3
  <1> HIDE DEF thresh, t
  <1>6. KcpRight(a) /\ SameSchedule(a, k) /\ a.snd_buf = k.snd_buf
    <2> DEFINE c == t + k.fastresend
               i == c * mss
    <2>1. c \in Nat /\ i \in Nat /\ c * mss <= i
      BY <1>2, <1>4, WindowConstants
    <2>2. CASE ~change
      BY <2>2 DEF SameSchedule
    <2>3. CASE change
      <3>1. a = [k EXCEPT !.ssthresh = t, !.cwnd = c, !.incr = i]
        BY <2>3
      <3> HIDE DEF c, i, a
      <3>2. a = WithWindow(k, c, i, t)
        BY <1>2, <1>4, <2>1, <3>1 DEF WithWindow, KcpType
      <3> QED
        BY <1>4, <2>1, <3>2, WindowChange
    <2> QED
      BY <2>2, <2>3
  <1>7. KcpRight(b) /\ SameSchedule(b, k) /\ b.snd_buf = k.snd_buf
    <2>1. CASE ~lost
      BY <1>6, <2>1
    <2>2. CASE lost
      <3> DEFINE h == thresh(w)
      <3>1. b = [a EXCEPT !.ssthresh = h, !.cwnd = 1, !.incr = mss]
        BY <2>2
      <3>2. h \in Nat /\ 1 \in Nat /\ mss \in Nat /\ 1 * mss <= mss
        BY <1>5, WindowConstants
      <3>3. a \in KcpType
        BY <1>6 DEF KcpRight
      <3> HIDE DEF a, b, h
      <3>4. b = WithWindow(a, 1, mss, h)
        BY <3>1, <3>2, <3>3 DEF WithWindow, KcpType
      <3>5. KcpRight(b) /\ SameSchedule(b, a) /\ b.snd_buf = a.snd_buf
        BY <1>6, <3>2, <3>4, WindowChange
      <3> QED
        BY <1>6, <3>5 DEF SameSchedule
    <2> QED
      BY <2>1, <2>2
  <1> HIDE DEF a, b
  <1>8. b \in KcpType /\ b.cwnd \in Nat
    BY <1>7 DEF KcpRight, KcpType
  <1>9. CASE b.cwnd < 1
    <2>1. n = [b EXCEPT !.cwnd = 1, !.incr = mss]
      BY <1>9 DEF AtLeastOne
    <2>2. mss \in Nat /\ 1 * mss <= mss /\ b.ssthresh \in Nat /\ 1 \in Nat
      BY <1>8, WindowConstants DEF KcpType
    <2> HIDE DEF n
    <2> DEFINE h == b.ssthresh
    <2>3. n = WithWindow(b, 1, mss, h) /\ h \in Nat
      BY <1>8, <2>1, <2>2, SameThreshold
    <2> HIDE DEF h
    <2>4. KcpRight(n) /\ SameSchedule(n, b) /\ n.snd_buf = b.snd_buf /\ n.cwnd = 1
      <3>1. KcpRight(b)
        BY <1>7
      <3>2. 1 \in Nat /\ mss \in Nat /\ h \in Nat /\ 1 * mss <= mss
        BY <2>2, <2>3
      <3>3. n = WithWindow(b, 1, mss, h)
        BY <2>3
      <3> QED
        BY <3>1, <3>2, <3>3, WindowChange
    <2> QED
      BY <1>1, <1>7, <2>4 DEF SameSchedule
  <1>10. CASE ~(b.cwnd < 1)
    <2>1. n = b
      BY <1>10 DEF AtLeastOne
    <2> QED
      BY <1>1, <1>7, <1>8, <1>10, <2>1
  <1> QED
    BY <1>9, <1>10

\* ikcp_flush sends segments with the time of the update.
LEMMA FlushFacts ==
    ASSUME NEW k, KcpRight(k)
    PROVE  LET n == ikcp_flush(k)
           IN  /\ KcpRight(n) /\ SameSchedule(n, k) /\ n.cwnd >= 1
               /\ \A i \in Sent(k) : n.snd_buf[i].sn \in Nat /\ n.snd_buf[i].ts = k.current
  <1> DEFINE b == [i \in DOMAIN k.snd_buf |-> Transmit(k, k.snd_buf[i])]
             why == {Reason(k, k.snd_buf[i]) : i \in DOMAIN k.snd_buf}
             dead == \E i \in Sent(k) : b[i].xmit >= IKCP_DEADLINK
             st == IF dead THEN -1 ELSE k.state
             m == [k EXCEPT !.snd_buf = b, !.state = st]
             n == ikcp_flush(k)
  <1>1. k \in KcpType /\ k.snd_buf \in Seq(SegmentType) /\ st \in Int
    BY DEF KcpRight, KcpType
  <1>2. n = Congestion(m, "fast" \in why, "timeout" \in why, FlushWindow(k))
    BY <1>1 DEF ikcp_flush
  <1>3. ASSUME NEW i \in DOMAIN k.snd_buf
        PROVE  /\ b[i] \in SegmentType /\ SegmentRight(k, b[i])
               /\ i \in Sent(k) => b[i].sn \in Nat /\ b[i].ts = k.current
    <2> DEFINE s == k.snd_buf[i]
    <2>1. s \in SegmentType /\ SegmentRight(k, s)
      BY <1>1 DEF KcpRight, SegmentsRight
    <2>2. b[i] = Transmit(k, s)
      OBVIOUS
    <2>3. i \in Sent(k) => Reason(k, s) # "none"
      BY DEF Sent
    <2> HIDE DEF s, b
    <2>4. /\ b[i] \in SegmentType /\ SegmentRight(k, b[i]) /\ b[i].sn = s.sn
          /\ Reason(k, s) # "none" => b[i].ts = k.current
      BY <2>1, <2>2, TransmitFacts
    <2>5. s.sn \in Nat
      BY <2>1 DEF SegmentType
    <2> QED
      BY <2>3, <2>4, <2>5
  <1>4. b \in Seq(SegmentType) /\ DOMAIN b = DOMAIN k.snd_buf
    <2> DEFINE o == k.snd_buf
    <2>1. o \in Seq(SegmentType) /\ DOMAIN o = 1 .. Len(o) /\ Len(o) \in Nat
      BY <1>1
    <2>2. b \in [DOMAIN o -> SegmentType]
      BY <1>3
    <2> HIDE DEF o, b
    <2>3. b \in Seq(SegmentType) /\ DOMAIN b = DOMAIN o
      BY <2>1, <2>2
    <2> QED
      BY <2>3 DEF o
  <1> HIDE DEF b, st
  <1>5. m \in KcpType
    BY <1>1, <1>4 DEF KcpType
  <1>6. /\ m.snd_buf = b /\ m.snd_una = k.snd_una /\ m.snd_nxt = k.snd_nxt
        /\ m.rx_srtt = k.rx_srtt /\ m.rx_rttval = k.rx_rttval /\ m.rx_rto = k.rx_rto
        /\ m.rx_minrto = k.rx_minrto /\ m.cwnd = k.cwnd /\ m.incr = k.incr
        /\ SameSchedule(m, k)
    BY <1>1 DEF KcpType, SameSchedule
  <1> HIDE DEF m
  <1>7. ShortestRto(m) = ShortestRto(k)
    BY <1>6 DEF ShortestRto
  <1>8. RtoRight(m) /\ EstimateRight(m) /\ WindowRight(m) /\ m.snd_una <= m.snd_nxt
    BY <1>6, <1>7 DEF KcpRight, RtoRight, EstimateRight, WindowRight
  <1>9. SegmentsRight(m)
    BY <1>3, <1>4, <1>6, <1>7 DEF SegmentsRight, SegmentRight
  <1>10. KcpRight(m)
    BY <1>5, <1>8, <1>9 DEF KcpRight
  <1> HIDE DEF why, n
  <1>11. ("fast" \in why) \in BOOLEAN /\ ("timeout" \in why) \in BOOLEAN /\ FlushWindow(k) \in Nat
    BY <1>1, FlushWindowType
  <1>12. KcpRight(n) /\ SameSchedule(n, m) /\ n.cwnd >= 1 /\ n.snd_buf = m.snd_buf
    <2> DEFINE change == "fast" \in why
               lost == "timeout" \in why
               w == FlushWindow(k)
    <2>1. change \in BOOLEAN /\ lost \in BOOLEAN /\ w \in Nat
      BY <1>11
    <2>2. n = Congestion(m, change, lost, w)
      BY <1>2
    <2> HIDE DEF change, lost, w
    <2> QED
      BY <1>10, <2>1, <2>2, CongestionFacts
  <1>13. \A i \in Sent(k) : i \in DOMAIN k.snd_buf
    BY DEF Sent
  <1>14. \A i \in Sent(k) : n.snd_buf[i].sn \in Nat /\ n.snd_buf[i].ts = k.current
    BY <1>3, <1>6, <1>12, <1>13
  <1> QED
    BY <1>6, <1>12, <1>14 DEF SameSchedule, n

\* The next flush is within one interval, whatever the last one was.
LEMMA NextFlushFacts ==
    ASSUME NEW t \in Nat, NEW b \in Nat, b <= t, t - b <= MaxStall,
           NEW d \in MinInterval .. MaxInterval
    PROVE  \E x \in 1 .. d : NextFlush(ClockAt(b), ClockAt(t), d) = ClockAt(t + x)
  <1>1. d \in Nat /\ d >= 1 /\ d <= MaxInterval /\ b + d \in Nat /\ t + d \in Nat
    BY TimerConstants
  <1>2. Plus(ClockAt(b), d) = ClockAt(b + d) /\ Plus(ClockAt(t), d) = ClockAt(t + d)
    BY <1>1, ClockFacts
  <1>3. t - (b + d) < Wrap \div 2 /\ (b + d) - t <= Wrap \div 2
    BY <1>1, TimerConstants
  <1>4. itimediff(ClockAt(t), ClockAt(b + d)) = t - (b + d)
    BY <1>1, <1>3, DiffIsTrue
  <1>5. NextFlush(ClockAt(b), ClockAt(t), d)
          = IF t - (b + d) >= 0 THEN ClockAt(t + d) ELSE ClockAt(b + d)
    BY <1>2, <1>4 DEF NextFlush
  <1>6. CASE t - (b + d) >= 0
    BY <1>1, <1>5, <1>6
  <1>7. CASE ~(t - (b + d) >= 0)
    <2> DEFINE x == b + d - t
    <2>1. x \in 1 .. d /\ t + x = b + d
      BY <1>1, <1>7
    <2> HIDE DEF x
    <2> QED
      BY <1>5, <1>7, <2>1
  <1> QED
    BY <1>6, <1>7

\* ikcp_update up to the flush: current and ts_flush are of this call.
LEMMA ScheduledFacts ==
    ASSUME NEW k, KcpRight(k), NEW u \in Nat, NEW t \in Nat, u <= t, t - u <= MaxStall,
           k.updated => FlushRight(k, u)
    PROVE  LET s == Scheduled(k, ClockAt(t))
           IN  /\ KcpRight(s.kcp) /\ s.kcp.updated /\ FlushRight(s.kcp, t)
               /\ s.kcp.cwnd = k.cwnd
               /\ ~s.flush => k.updated
  <1> DEFINE cur == ClockAt(t)
             tf == IF k.updated THEN k.ts_flush ELSE cur
             a == [k EXCEPT !.current = cur, !.updated = TRUE, !.ts_flush = tf]
             d == itimediff(cur, tf)
             reset == d >= Resync \/ d < -Resync
             base == IF reset THEN cur ELSE tf
             nf == NextFlush(base, cur, k.interval)
             s == Scheduled(k, cur)
  <1>1. /\ k \in KcpType /\ k.interval \in MinInterval .. MaxInterval /\ k.ts_flush \in Times
        /\ k.updated \in BOOLEAN
    BY DEF KcpRight, KcpType
  <1>2. a.ts_flush = tf /\ a.interval = k.interval
    BY <1>1 DEF KcpType
  <1>3. s = IF ~reset /\ d < 0 THEN [flush |-> FALSE, kcp |-> a]
            ELSE [flush |-> TRUE, kcp |-> [a EXCEPT !.ts_flush = nf]]
    BY <1>2 DEF Scheduled
  <1>4. cur \in Times
    BY ClockFacts
  <1>5. k.interval \in Nat /\ k.interval >= 1 /\ k.interval <= MaxInterval
    BY <1>1, TimerConstants
  <1>6. PICK b \in Nat : /\ tf = ClockAt(b) /\ t - b <= MaxStall /\ b - t <= k.interval
                         /\ b <= t \/ k.updated
    <2>1. CASE k.updated
      <3>1. PICK x \in 1 .. k.interval : k.ts_flush = ClockAt(u + x)
        BY <2>1 DEF FlushRight
      <3>2. u + x \in Nat /\ t - (u + x) <= MaxStall /\ (u + x) - t <= k.interval
        BY <1>5, <3>1, TimerConstants
      <3> QED
        BY <2>1, <3>1, <3>2
    <2>2. CASE ~k.updated
      <3>1. t - t <= MaxStall /\ t - t <= k.interval /\ t <= t
        BY <1>5, TimerConstants
      <3> QED
        BY <2>2, <3>1
    <2> QED
      BY <2>1, <2>2
  <1>7. d = t - b
    <2>1. t - b < Wrap \div 2 /\ b - t <= Wrap \div 2
      BY <1>5, <1>6, TimerConstants
    <2> QED
      BY <1>6, <2>1, DiffIsTrue
  <1>8. \E x \in 1 .. k.interval : s.kcp.ts_flush = ClockAt(t + x)
    <2>1. CASE ~reset /\ d < 0
      <3>1. s.kcp.ts_flush = ClockAt(b)
        <4>1. s.kcp = a
          BY <1>3, <2>1
        <4> HIDE DEF a, s
        <4> QED
          BY <1>2, <1>6, <4>1
      <3> DEFINE x == b - t
      <3>2. x \in 1 .. k.interval /\ t + x = b
        BY <1>5, <1>6, <1>7, <2>1
      <3> HIDE DEF x
      <3> QED
        BY <3>1, <3>2
    <2>2. CASE ~(~reset /\ d < 0)
      <3>1. s.kcp.ts_flush = nf
        <4>1. s.kcp = [a EXCEPT !.ts_flush = nf]
          BY <1>3, <2>2
        <4> HIDE DEF nf, tf, cur
        <4> QED
          BY <1>1, <4>1 DEF KcpType
      <3>2. PICK z \in Nat : z <= t /\ t - z <= MaxStall /\ base = ClockAt(z)
        <4>1. CASE reset
          <5>1. t <= t /\ t - t <= MaxStall
            BY TimerConstants
          <5> QED
            BY <4>1, <5>1
        <4>2. CASE ~reset
          <5>1. b <= t
            BY <1>6, <1>7, <2>2, <4>2
          <5> QED
            BY <1>6, <4>2, <5>1
        <4> QED
          BY <4>1, <4>2
      <3>3. nf = NextFlush(ClockAt(z), ClockAt(t), k.interval)
        BY <3>2
      <3> HIDE DEF nf, s
      <3>4. \E x \in 1 .. k.interval : nf = ClockAt(t + x)
        BY <1>1, <3>2, <3>3, NextFlushFacts
      <3> QED
        BY <3>1, <3>4
    <2> QED
      BY <2>1, <2>2
  <1> DEFINE n == s.kcp
  <1>9. PICK f \in Times : n = [k EXCEPT !.current = cur, !.updated = TRUE, !.ts_flush = f]
    <2>1. tf \in Times
      BY <1>1, <1>4
    <2>2. nf \in Times
      <3>1. base \in Int /\ cur \in Int /\ k.interval \in Int
        BY <1>4, <1>5, <2>1, TimerConstants DEF Times
      <3> QED
        BY <3>1, PlusType DEF NextFlush
    <2>3. CASE ~reset /\ d < 0
      <3>1. n = a
        BY <1>3, <2>3
      <3> QED
        BY <2>1, <3>1
    <2>4. CASE ~(~reset /\ d < 0)
      <3>1. n = [a EXCEPT !.ts_flush = nf]
        BY <1>3, <2>4
      <3> HIDE DEF n, nf, tf, cur
      <3>2. n = [k EXCEPT !.current = cur, !.updated = TRUE, !.ts_flush = nf]
        BY <1>1, <1>4, <2>1, <2>2, <3>1 DEF KcpType
      <3> QED
        BY <2>2, <3>2
    <2> QED
      BY <2>3, <2>4
  <1>10. ~s.flush => k.updated
    <2>1. ASSUME ~k.updated PROVE s.flush
      <3>1. b <= t
        BY <1>6, <2>1
      <3>2. ~(d < 0)
        BY <1>6, <1>7, <3>1
      <3> QED
        BY <1>3, <3>2
    <2> QED
      BY <2>1
  <1> HIDE DEF n, cur, s
  <1>11. n \in KcpType
    BY <1>1, <1>4, <1>9 DEF KcpType
  <1>12. /\ n.snd_buf = k.snd_buf /\ n.snd_una = k.snd_una /\ n.snd_nxt = k.snd_nxt
         /\ n.rx_srtt = k.rx_srtt /\ n.rx_rttval = k.rx_rttval /\ n.rx_rto = k.rx_rto
         /\ n.rx_minrto = k.rx_minrto /\ n.cwnd = k.cwnd /\ n.incr = k.incr
         /\ n.updated = TRUE /\ n.current = cur /\ n.interval = k.interval
    BY <1>1, <1>9 DEF KcpType
  <1>13. ShortestRto(n) = ShortestRto(k)
    BY <1>12 DEF ShortestRto
  <1>14. RtoRight(n) /\ EstimateRight(n) /\ WindowRight(n) /\ n.snd_una <= n.snd_nxt
    BY <1>12, <1>13 DEF KcpRight, RtoRight, EstimateRight, WindowRight
  <1>15. SegmentsRight(n)
    BY <1>12, <1>13 DEF KcpRight, SegmentsRight, SegmentRight
  <1>16. FlushRight(n, t)
    BY <1>8, <1>12 DEF FlushRight, n, cur
  <1> QED
    BY <1>10, <1>11, <1>12, <1>14, <1>15, <1>16 DEF KcpRight, n, s, cur

\* A time reached by waiting c from x is not after one that is e away, if c
\* is not longer.
LEMMA NotAfter ==
    ASSUME NEW x \in Times, NEW y \in Times, NEW c \in Nat, c <= itimediff(y, x)
    PROVE  itimediff(Plus(x, c), y) <= 0
  <1> DEFINE e == itimediff(y, x)
  <1>1. e \in Int /\ e < Wrap \div 2 /\ Plus(x, e) = y
    BY DiffFacts
  <1>2. c <= e
    OBVIOUS
  <1> HIDE DEF e
  <1>3. e \in Nat /\ c - e < Wrap \div 2 /\ e - c <= Wrap \div 2
    BY <1>1, <1>2, TimerConstants
  <1>4. itimediff(Plus(x, c), Plus(x, e)) = c - e
    BY <1>3, DiffOfWaits
  <1> QED
    BY <1>1, <1>2, <1>3, <1>4

\* ikcp_check says to wait for the first of what is due, or not at all.
LEMMA CheckFacts ==
    ASSUME NEW k \in KcpType, NEW cur \in Times, itimediff(k.ts_flush, cur) >= 0
    PROVE  LET c == ikcp_check(k, cur)
           IN  /\ c \in Nat /\ c <= itimediff(k.ts_flush, cur)
               /\ c = 0 \/ \A i \in DOMAIN k.snd_buf : c <= itimediff(k.snd_buf[i].resendts, cur)
  <1> DEFINE d == itimediff(k.ts_flush, cur)
             due == {itimediff(s.resendts, cur) : s \in {k.snd_buf[i] : i \in DOMAIN k.snd_buf}}
             now0 == ~k.updated \/ d <= -Resync \/ d > Resync \/ d <= 0 \/ \E x \in due : x <= 0
             all == {d} \cup due
             c == ikcp_check(k, cur)
  <1>1. k.ts_flush \in Times /\ k.snd_buf \in Seq(SegmentType) /\ k.interval \in MinInterval .. MaxInterval
    BY DEF KcpType
  <1>2. d \in Int /\ d >= 0
    BY <1>1, DiffFacts
  <1>3. c = IF now0 THEN 0 ELSE imin(Min(all), k.interval)
    BY DEF ikcp_check
  <1>4. ASSUME NEW i \in DOMAIN k.snd_buf
        PROVE  itimediff(k.snd_buf[i].resendts, cur) \in due
    OBVIOUS
  <1>5. ASSUME NEW x \in due PROVE x \in Int
    <2>1. PICK i \in DOMAIN k.snd_buf : x = itimediff(k.snd_buf[i].resendts, cur)
      OBVIOUS
    <2>2. k.snd_buf[i] \in SegmentType
      BY <1>1
    <2>3. k.snd_buf[i].resendts \in Times
      BY <2>2 DEF SegmentType
    <2> QED
      BY <2>1, <2>3, DiffFacts
  <1>6. CASE now0
    BY <1>2, <1>3, <1>6
  <1>7. CASE ~now0
    <2> HIDE DEF c, due
    <2>1. \A x \in due : x > 0
      BY <1>5, <1>7
    <2>2. all \subseteq Nat /\ all # {}
      BY <1>2, <1>5, <2>1
    <2> DEFINE m == Min(all)
    <2>3. m \in Nat /\ \A y \in all : m <= y
      BY <2>2, MinFacts
    <2>4. d \in all /\ due \subseteq all
      OBVIOUS
    <2>5. c = imin(m, k.interval)
      BY <1>3, <1>7
    <2>6. k.interval \in Nat
      BY <1>1, TimerConstants
    <2> HIDE DEF m, all
    <2>7. c \in Nat /\ c <= m
      BY <2>3, <2>5, <2>6 DEF imin
    <2>8. c <= d
      BY <1>2, <2>3, <2>4, <2>7
    <2>9. ASSUME NEW i \in DOMAIN k.snd_buf
          PROVE  c <= itimediff(k.snd_buf[i].resendts, cur)
      <3> DEFINE y == itimediff(k.snd_buf[i].resendts, cur)
      <3>1. y \in all /\ y \in Int
        BY <1>4, <1>5, <2>4
      <3> HIDE DEF y
      <3>2. c <= y
        BY <2>3, <2>7, <3>1
      <3> QED
        BY <3>2 DEF y
    <2> QED
      BY <2>7, <2>8, <2>9 DEF c
  <1> QED
    BY <1>6, <1>7

\* ikcp_check never says to wait past a flush or a timeout.
LEMMA CheckIsSafe == TimingIInv => CheckMissesNothing
  <1> SUFFICES ASSUME TimingIInv, kcp.updated, itimediff(iclock, kcp.ts_flush) < 0
               PROVE  LET t == Plus(iclock, ikcp_check(kcp, iclock))
                      IN  /\ itimediff(t, kcp.ts_flush) <= 0
                          /\ \A i \in DOMAIN kcp.snd_buf :
                               \/ itimediff(t, kcp.snd_buf[i].resendts) <= 0
                               \/ t = iclock
    BY DEF CheckMissesNothing
  <1> DEFINE c == ikcp_check(kcp, iclock)
             t == Plus(iclock, c)
  <1>1. kcp \in KcpType /\ now \in Nat /\ lastUpdate \in Nat /\ lastUpdate <= now
        /\ now - lastUpdate <= MaxStall
    BY TimerConstants DEF TimingIInv, KcpRight
  <1>2. iclock = ClockAt(now) /\ iclock \in Times
    BY <1>1, ClockFacts DEF iclock, ClockAt
  <1>3. kcp.ts_flush \in Times /\ kcp.interval \in MinInterval .. MaxInterval
        /\ kcp.snd_buf \in Seq(SegmentType)
    BY <1>1 DEF KcpType
  <1>4. itimediff(kcp.ts_flush, iclock) >= 0
    <2>1. PICK x \in 1 .. kcp.interval : kcp.ts_flush = ClockAt(lastUpdate + x)
      BY DEF TimingIInv, FlushRight
    <2> DEFINE f == lastUpdate + x
    <2>2. f \in Nat /\ now - f < Wrap \div 2 /\ f - now < Wrap \div 2
          /\ f - now <= Wrap \div 2 /\ now - f <= Wrap \div 2
      BY <1>1, <1>3, <2>1, TimerConstants
    <2>3. kcp.ts_flush = ClockAt(f)
      BY <2>1
    <2> HIDE DEF f
    <2>4. itimediff(iclock, kcp.ts_flush) = now - f
      BY <1>1, <1>2, <2>2, <2>3, DiffIsTrue
    <2>5. itimediff(kcp.ts_flush, iclock) = f - now
      BY <1>1, <1>2, <2>2, <2>3, DiffIsTrue
    <2> QED
      BY <1>1, <2>2, <2>4, <2>5
  <1>5. /\ c \in Nat /\ c <= itimediff(kcp.ts_flush, iclock)
        /\ c = 0 \/ \A i \in DOMAIN kcp.snd_buf : c <= itimediff(kcp.snd_buf[i].resendts, iclock)
    BY <1>1, <1>2, <1>4, CheckFacts
  <1> HIDE DEF c
  <1>6. itimediff(t, kcp.ts_flush) <= 0
    BY <1>2, <1>3, <1>5, NotAfter
  <1>7. ASSUME NEW i \in DOMAIN kcp.snd_buf
        PROVE  itimediff(t, kcp.snd_buf[i].resendts) <= 0 \/ t = iclock
    <2>1. CASE c = 0
      <3>1. t = Plus(ClockAt(now), 0) /\ now + 0 = now
        BY <1>1, <1>2, <2>1
      <3>2. Plus(ClockAt(now), 0) = ClockAt(now + 0)
        BY <1>1, ClockFacts
      <3> QED
        BY <1>2, <3>1, <3>2
    <2>2. CASE c # 0
      <3>1. kcp.snd_buf[i] \in SegmentType
        BY <1>3
      <3>2. kcp.snd_buf[i].resendts \in Times
        BY <3>1 DEF SegmentType
      <3>3. c <= itimediff(kcp.snd_buf[i].resendts, iclock)
        BY <1>5, <2>2
      <3> QED
        BY <1>2, <1>5, <3>2, <3>3, NotAfter
    <2> QED
      BY <2>1, <2>2
  <1> QED
    BY <1>6, <1>7 DEF c

\* The wait of a segment, while it fits the clock.
LEMMA BackoffIsBounded == TimingIInv => BackoffInBounds
  <1> SUFFICES ASSUME TimingIInv, NEW i \in DOMAIN kcp.snd_buf, kcp.snd_buf[i].xmit > 0,
                      kcp.snd_buf[i].rto + IKCP_RTO_MAX < Wrap \div 2
               PROVE  LET s == kcp.snd_buf[i]
                          wait == itimediff(s.resendts, s.ts)
                      IN  /\ wait >= imin(kcp.rx_minrto, IKCP_RTO_DEF)
                          /\ wait <= (s.xmit + 1) * IKCP_RTO_MAX
    BY DEF BackoffInBounds
  <1> DEFINE s == kcp.snd_buf[i]
             M == IKCP_RTO_MAX
             lo == ShortestRto(kcp)
  <1>1. kcp \in KcpType /\ SegmentRight(kcp, s)
    BY DEF TimingIInv, KcpRight, SegmentsRight
  <1>2. s \in SegmentType
    <2>1. kcp.snd_buf \in Seq(SegmentType)
      BY <1>1 DEF KcpType
    <2> QED
      BY <2>1
  <1>3. s.ts \in Times /\ s.rto \in Nat /\ s.xmit \in Nat
    BY <1>2 DEF SegmentType
  <1>4. lo <= s.rto /\ s.rto <= s.xmit * M /\ Waits(s) /\ s.rto + M < Wrap \div 2
    BY <1>1 DEF SegmentRight
  <1>5. lo \in Nat /\ M \in Nat
    BY <1>1, RtoFacts, TimerConstants
  <1> DEFINE p == s.xmit * M
  <1>6. p \in Nat /\ (s.xmit + 1) * M = p + M /\ s.rto <= p
    <2>1. \A y \in Nat, m \in Nat : y * m \in Nat /\ (y + 1) * m = y * m + m
      OBVIOUS
    <2> QED
      BY <1>3, <1>4, <1>5, <2>1
  <1>7. PICK w \in Nat : s.rto <= w /\ w <= s.rto + M /\ s.resendts = Plus(s.ts, w)
    BY <1>4 DEF Waits
  <1>8. itimediff(s.resendts, s.ts) = w
    <2>1. w - 0 < Wrap \div 2 /\ 0 - w <= Wrap \div 2 /\ w - 0 = w
      BY <1>3, <1>4, <1>5, <1>7, TimerConstants
    <2>2. itimediff(Plus(s.ts, w), Plus(s.ts, 0)) = w - 0
      BY <1>3, <2>1, DiffOfWaits
    <2>3. Plus(s.ts, 0) = s.ts
      BY <1>3, TimerConstants DEF Plus, Times
    <2> QED
      BY <1>7, <2>1, <2>2, <2>3
  <1> HIDE DEF p, M
  <1>9. lo <= w /\ w <= p + M
    BY <1>3, <1>4, <1>5, <1>6, <1>7
  <1> QED
    BY <1>6, <1>8, <1>9 DEF ShortestRto, M

\* The inductive invariant gives all that the timing promises.
LEMMA TimingConsequences == TimingIInv => TimingInv
  <1> SUFFICES ASSUME TimingIInv PROVE TimingInv
    OBVIOUS
  <1>1. KcpRight(kcp) /\ now \in 0 .. MaxTime /\ lastUpdate \in Nat
        /\ (kcp.updated => FlushRight(kcp, lastUpdate) /\ kcp.cwnd >= 1)
    BY DEF TimingIInv
  <1>2. kcp \in KcpType
    BY <1>1 DEF KcpRight
  <1>3. kcp.current \in Times /\ kcp.ts_flush \in Times /\ kcp.rx_rto \in Nat
        /\ kcp.interval \in MinInterval .. MaxInterval
    BY <1>2 DEF KcpType
  <1>4. KcpTimerTypeOK
    <2>1. kcp.rx_rto \in ShortestRto(kcp) .. IKCP_RTO_MAX
      BY <1>1, <1>2, <1>3, RtoFacts, TimerConstants DEF KcpRight, RtoRight
    <2> QED
      BY <1>1, <1>3, <2>1 DEF KcpTimerTypeOK, Times, ShortestRto, KcpRight
  <1>5. FlushWithinInterval
    <2> SUFFICES ASSUME kcp.updated
                 PROVE  itimediff(kcp.ts_flush, kcp.current) \in 1 .. kcp.interval
      BY DEF FlushWithinInterval
    <2>1. PICK x \in 1 .. kcp.interval : kcp.ts_flush = ClockAt(lastUpdate + x)
      BY <1>1 DEF FlushRight
    <2>2. kcp.current = ClockAt(lastUpdate)
      BY <1>1 DEF FlushRight
    <2> DEFINE f == lastUpdate + x
    <2>3. f \in Nat /\ f - lastUpdate = x /\ f - lastUpdate < Wrap \div 2
          /\ lastUpdate - f <= Wrap \div 2
      BY <1>1, <1>3, <2>1, TimerConstants
    <2>4. kcp.ts_flush = ClockAt(f)
      BY <2>1
    <2> HIDE DEF f
    <2>5. itimediff(ClockAt(f), ClockAt(lastUpdate)) = f - lastUpdate
      BY <1>1, <2>3, DiffIsTrue
    <2> QED
      BY <2>1, <2>2, <2>3, <2>4, <2>5
  <1>6. EstimateIsOfOneCopy
    BY <1>1 DEF EstimateIsOfOneCopy, KcpRight, EstimateRight
  <1>7. WindowIsBacked
    BY <1>1 DEF WindowIsBacked, KcpRight, WindowRight
  <1> QED
    BY <1>4, <1>5, <1>6, <1>7, CheckIsSafe, BackoffIsBounded DEF TimingInv

\* ikcp_create and ikcp_nodelay begin right.
LEMMA TimingInit == TimerInit => TimingIInv
  <1> SUFFICES ASSUME TimerInit PROVE TimingIInv
    OBVIOUS
  <1>1. PICK c \in Configs : kcp = ikcp_create(c)
    BY DEF TimerInit
  <1>2. c[1] \in Int /\ c[2] \in Int /\ c[3] \in Int /\ c[4] \in Int
    BY KcpTimerAssumption DEF KcpTimerAssumption
  <1> DEFINE int == IF c[2] < 0 THEN IKCP_INTERVAL ELSE ibound(MinInterval, c[2], MaxInterval)
             min == IF c[1] > 0 THEN IKCP_RTO_NDL ELSE IKCP_RTO_MIN
             nod == imax(0, c[1])
             res == imax(0, c[3])
             noc == imax(0, c[4])
  <1>3. int \in MinInterval .. MaxInterval
    <2>1. IKCP_INTERVAL \in MinInterval .. MaxInterval
      BY KcpTimerAssumption DEF KcpTimerAssumption
    <2>2. ibound(MinInterval, c[2], MaxInterval) \in MinInterval .. MaxInterval
      BY <1>2, TimerConstants DEF ibound, imin, imax
    <2> QED
      BY <2>1, <2>2
  <1>4. min \in {IKCP_RTO_MIN, IKCP_RTO_NDL} /\ nod \in Nat /\ res \in Nat /\ noc \in Nat
    BY <1>2 DEF imax
  <1>5. 0 \in Times /\ IKCP_RTO_DEF \in Nat /\ IKCP_RTO_DEF <= IKCP_RTO_MAX
        /\ IKCP_THRESH_INIT \in Nat /\ IKCP_WND_RCV \in Nat
    <2>1. 0 \in Times
      BY TimerConstants DEF Times
    <2>2. IKCP_RTO_DEF \in Nat /\ IKCP_RTO_DEF <= IKCP_RTO_MAX
      BY TimerConstants
    <2>3. IKCP_THRESH_INIT \in Nat /\ IKCP_WND_RCV \in Nat
      BY KcpTimerAssumption DEF KcpTimerAssumption
    <2> QED
      BY <2>1, <2>2, <2>3
  <1>6. kcp = [current |-> 0, updated |-> FALSE, ts_flush |-> 0,
               rx_srtt |-> 0, rx_rttval |-> 0, rx_rto |-> IKCP_RTO_DEF,
               rx_minrto |-> min, nodelay |-> nod, interval |-> int,
               fastresend |-> res, nocwnd |-> noc,
               rmt_wnd |-> IKCP_WND_RCV, snd_buf |-> <<>>, nsnd_que |-> 0, snd_una |-> 0, snd_nxt |-> 0,
               cwnd |-> 0, incr |-> 0, ssthresh |-> IKCP_THRESH_INIT, state |-> 0]
    BY <1>1 DEF ikcp_create
  <1> HIDE DEF int, min, nod, res, noc
  <1>7. kcp \in KcpType
    <2>1. << >> \in Seq(SegmentType)
      OBVIOUS
    <2> QED
      BY <1>3, <1>4, <1>5, <1>6, <2>1 DEF KcpType
  <1>8. /\ kcp.rx_srtt = 0 /\ kcp.rx_rttval = 0 /\ kcp.rx_rto = IKCP_RTO_DEF
        /\ kcp.snd_buf = << >> /\ kcp.snd_una = 0 /\ kcp.snd_nxt = 0
        /\ kcp.cwnd = 0 /\ kcp.incr = 0 /\ kcp.updated = FALSE
    BY <1>6
  <1>9. RtoRight(kcp)
    BY <1>5, <1>7, <1>8, RtoFacts DEF RtoRight
  <1>10. EstimateRight(kcp)
    BY <1>8, TimerConstants DEF EstimateRight, imax
  <1>11. WindowRight(kcp)
    BY <1>8, WindowConstants DEF WindowRight
  <1>12. SegmentsRight(kcp)
    BY <1>8 DEF SegmentsRight
  <1>13. KcpRight(kcp)
    BY <1>7, <1>8, <1>9, <1>10, <1>11, <1>12 DEF KcpRight
  <1>14. input \in InputType
    BY DEF TimerInit, NoInput, InputType
  <1> QED
    BY <1>8, <1>13, <1>14, TimerConstants DEF TimingIInv, TimerInit

\* Whatever leaves the schedule as it is leaves it right.
LEMMA SameScheduleRight ==
    ASSUME NEW n, NEW k, NEW t, SameSchedule(n, k), FlushRight(k, t)
    PROVE  FlushRight(n, t)
  BY DEF SameSchedule, FlushRight

\* Time, ikcp_send, ikcp_input and ikcp_update keep the timing right.
LEMMA TimingStep == TimingIInv /\ [TimerNext]_timerVars => TimingIInv'
  <1> SUFFICES ASSUME TimingIInv, [TimerNext]_timerVars PROVE TimingIInv'
    OBVIOUS
  <1>1. /\ now \in Nat /\ now <= MaxTime /\ lastUpdate \in Nat
        /\ lastUpdate <= now /\ now - lastUpdate <= MaxStall
        /\ KcpRight(kcp) /\ (kcp.updated => FlushRight(kcp, lastUpdate) /\ kcp.cwnd >= 1)
        /\ (copies # {} => kcp.updated) /\ copies \subseteq CopyType
        /\ input \in InputType
        /\ \A c \in copies :
             c.ts = ClockAt(c.at) /\ c.at <= lastUpdate /\ now - c.at <= MaxDelay
    BY TimerConstants DEF TimingIInv
  <1>2. kcp \in KcpType /\ kcp.updated \in BOOLEAN
    BY <1>1 DEF KcpRight, KcpType
  <1>3. \A c \in copies : c.at \in Nat
    BY <1>1 DEF CopyType
  <1>4. CASE Tick
    <2>1. PICK d \in Steps : /\ now + d <= MaxTime /\ now + d - lastUpdate <= MaxStall
                             /\ now' = now + d
                             /\ copies' = {c \in copies : now + d - c.at <= MaxDelay}
                             /\ kcp' = kcp /\ lastUpdate' = lastUpdate /\ input' = input
      BY <1>4 DEF Tick
    <2>2. d \in Nat
      BY KcpTimerAssumption DEF KcpTimerAssumption
    <2>3. now' \in 0 .. MaxTime /\ lastUpdate' <= now' /\ now' - lastUpdate' <= MaxStall
      BY <1>1, <2>1, <2>2, TimerConstants
    <2>4. copies' \subseteq copies /\ \A c \in copies' : now' - c.at <= MaxDelay
      <3>1. copies' \subseteq copies /\ \A c \in copies' : now + d - c.at <= MaxDelay
        BY <2>1, Zenon
      <3>2. now' = now + d
        BY <2>1
      <3> QED
        BY <1>1, <1>3, <2>2, <3>1, <3>2
    <2> QED
      BY <1>1, <2>1, <2>3, <2>4 DEF TimingIInv
  <1>5. CASE Send
    <2>1. kcp' = [kcp EXCEPT !.nsnd_que = kcp.nsnd_que + 1]
          /\ now' = now /\ lastUpdate' = lastUpdate /\ copies' = copies /\ input' = input
      BY <1>2, <1>5 DEF Send
    <2> DEFINE n == [kcp EXCEPT !.nsnd_que = kcp.nsnd_que + 1]
    <2>2. n \in KcpType
      <3>1. kcp.nsnd_que \in Nat
        BY <1>2, SMTT(40) DEF KcpType
      <3>2. kcp.nsnd_que + 1 \in Nat
        BY <3>1
      <3> QED
        BY <1>2, <3>2, ZenonT(60) DEF KcpType
    <2>3. /\ n.snd_buf = kcp.snd_buf /\ n.snd_una = kcp.snd_una /\ n.snd_nxt = kcp.snd_nxt
          /\ n.rx_srtt = kcp.rx_srtt /\ n.rx_rttval = kcp.rx_rttval /\ n.rx_rto = kcp.rx_rto
          /\ n.rx_minrto = kcp.rx_minrto /\ n.cwnd = kcp.cwnd /\ n.incr = kcp.incr
          /\ SameSchedule(n, kcp)
      BY <1>2 DEF KcpType, SameSchedule
    <2> HIDE DEF n
    <2>4. ShortestRto(n) = ShortestRto(kcp)
      BY <2>3 DEF ShortestRto
    <2>5. RtoRight(n) /\ EstimateRight(n) /\ WindowRight(n) /\ n.snd_una <= n.snd_nxt
      BY <1>1, <2>3, <2>4 DEF KcpRight, RtoRight, EstimateRight, WindowRight
    <2>6. SegmentsRight(n)
      BY <1>1, <2>3, <2>4 DEF KcpRight, SegmentsRight, SegmentRight
    <2>7. KcpRight(n)
      BY <2>2, <2>5, <2>6 DEF KcpRight
    <2>8. n.updated = kcp.updated /\ (n.updated => FlushRight(n, lastUpdate) /\ n.cwnd >= 1)
      BY <1>1, <2>3, SameScheduleRight DEF SameSchedule
    <2>9. kcp' = n /\ now \in 0 .. MaxTime
      BY <1>1, <2>1, TimerConstants DEF n
    <2> QED
      BY <1>1, <2>1, <2>7, <2>8, <2>9 DEF TimingIInv
  <1>6. ASSUME NEW c \in copies
        PROVE  /\ c \in CopyType /\ kcp.updated
               /\ itimediff(kcp.current, c.ts) \in 0 .. MaxDelay
    <2>2. /\ c \in CopyType /\ c.at \in Nat /\ c.ts = ClockAt(c.at) /\ c.at <= lastUpdate
          /\ now - c.at <= MaxDelay /\ kcp.updated
      BY <1>1, <1>3
    <2>3. kcp.current = ClockAt(lastUpdate)
      BY <1>1, <2>2 DEF FlushRight
    <2>4. lastUpdate - c.at \in 0 .. MaxDelay
      BY <1>1, <2>2, TimerConstants
    <2>5. itimediff(kcp.current, c.ts) \in 0 .. MaxDelay
      <3>1. lastUpdate - c.at < Wrap \div 2 /\ c.at - lastUpdate <= Wrap \div 2
        BY <1>1, <2>2, <2>4, TimerConstants
      <3>2. itimediff(ClockAt(lastUpdate), ClockAt(c.at)) = lastUpdate - c.at
        BY <1>1, <2>2, <3>1, DiffIsTrue
      <3> QED
        BY <2>2, <2>3, <2>4, <3>2
    <2> QED
      BY <2>2, <2>5
  <1>9. ASSUME NEW n, KcpRight(n), SameSchedule(n, kcp), kcp.cwnd >= 1 => n.cwnd >= 1,
               kcp' = n, now' = now, lastUpdate' = lastUpdate, copies' \subseteq copies,
               input' \in InputType
        PROVE  TimingIInv'
    <2>1. n.updated = kcp.updated /\ (n.updated => FlushRight(n, lastUpdate) /\ n.cwnd >= 1)
      BY <1>1, <1>9, SameScheduleRight DEF SameSchedule
    <2>2. now \in 0 .. MaxTime
      BY <1>1, TimerConstants
    <2>3. /\ (copies' # {} => n.updated) /\ copies' \subseteq CopyType
          /\ \A c \in copies' :
               c.ts = ClockAt(c.at) /\ c.at <= lastUpdate /\ now - c.at <= MaxDelay
      BY <1>1, <1>9, <2>1
    <2> QED
      BY <1>1, <1>9, <2>1, <2>2, <2>3 DEF TimingIInv
  <1>10. CASE BeginInput
    <2>1. PICK una \in 0 .. kcp.snd_nxt, w \in Windows :
             input' = [on |-> TRUE, old |-> kcp.snd_una, una |-> una, wnd |-> w,
                       maxack |-> -1]
      BY <1>10 DEF BeginInput
    <2>2. kcp.snd_nxt \in Nat /\ kcp.snd_una \in Nat
      BY <1>2 DEF KcpType
    <2>3. w \in Nat
      BY KcpTimerAssumption DEF KcpTimerAssumption
    <2>4. una \in Nat
      BY <2>2
    <2>5. input' \in InputType
      BY <2>1, <2>2, <2>3, <2>4 DEF InputType
    <2>6. SameSchedule(kcp, kcp)
      BY DEF SameSchedule
    <2> QED
      BY <1>1, <1>9, <1>10, <2>5, <2>6 DEF BeginInput
  <1>11. CASE OtherSegment
    <2> DEFINE n == InputUna(kcp, input)
    <2>1. KcpRight(n) /\ SameSchedule(n, kcp) /\ n.cwnd = kcp.cwnd
      BY <1>1, InputUnaFacts
    <2>2. kcp' = n /\ now' = now /\ lastUpdate' = lastUpdate /\ copies' = copies
          /\ input' = input
      BY <1>11 DEF OtherSegment
    <2> HIDE DEF n
    <2> QED
      BY <1>1, <1>9, <2>1, <2>2
  <1>12. CASE AckSegment
    <2>1. PICK c \in copies :
             /\ kcp' = InputAck(InputUna(kcp, input), c)
             /\ input' = [input EXCEPT !.maxack = imax(input.maxack, c.sn)]
             /\ copies' = copies \ {c} /\ now' = now /\ lastUpdate' = lastUpdate
      BY <1>1, <1>12 DEF AckSegment, InputType
    <2> DEFINE u == InputUna(kcp, input)
               n == InputAck(u, c)
    <2>2. KcpRight(u) /\ SameSchedule(u, kcp) /\ u.cwnd = kcp.cwnd
      BY <1>1, InputUnaFacts
    <2> HIDE DEF u
    <2>3. c \in CopyType /\ itimediff(u.current, c.ts) \in 0 .. MaxDelay
      BY <1>6, <2>2 DEF SameSchedule
    <2>4. KcpRight(n) /\ SameSchedule(n, u) /\ n.cwnd = u.cwnd
      BY <2>2, <2>3, InputAckFacts
    <2>5. kcp' = n
      BY <2>1 DEF u
    <2> HIDE DEF n
    <2>6. SameSchedule(n, kcp) /\ n.cwnd = kcp.cwnd
      BY <2>2, <2>4 DEF SameSchedule
    <2> DEFINE x == imax(input.maxack, c.sn)
    <2>7. x \in Int
      BY <1>1, <2>3 DEF InputType, CopyType, imax
    <2>8. input' = [input EXCEPT !.maxack = x]
      BY <2>1
    <2> HIDE DEF x
    <2>9. input' \in InputType
      BY <1>1, <2>7, <2>8 DEF InputType
    <2> QED
      BY <1>9, <2>1, <2>4, <2>5, <2>6, <2>9
  <1>13. CASE EndInput
    <2> DEFINE n == InputEnd(kcp, input)
    <2>1. KcpRight(n) /\ SameSchedule(n, kcp) /\ (kcp.cwnd >= 1 => n.cwnd >= 1)
      BY <1>1, InputEndFacts
    <2>2. kcp' = n /\ now' = now /\ lastUpdate' = lastUpdate /\ copies' = copies
          /\ input' = NoInput
      BY <1>13 DEF EndInput
    <2>3. NoInput \in InputType
      BY DEF NoInput, InputType
    <2> HIDE DEF n
    <2> QED
      BY <1>9, <2>1, <2>2, <2>3
  <1>7. CASE Update
    <2> DEFINE s == Scheduled(kcp, iclock)
               m == Moved(s.kcp)
               f == ikcp_flush(m)
    <2>1. /\ kcp' = (IF s.flush THEN f ELSE s.kcp)
          /\ copies' = (IF s.flush
                        THEN copies \cup {[sn |-> f.snd_buf[i].sn, ts |-> f.snd_buf[i].ts,
                                           at |-> now] : i \in Sent(m)}
                        ELSE copies)
          /\ lastUpdate' = now /\ now' = now /\ input' = input
      BY <1>7 DEF Update
    <2>2. iclock = ClockAt(now)
      BY DEF iclock, ClockAt
    <2>3. /\ KcpRight(s.kcp) /\ s.kcp.updated /\ FlushRight(s.kcp, now)
          /\ s.kcp.cwnd = kcp.cwnd /\ (~s.flush => kcp.updated)
      BY <1>1, <2>2, ScheduledFacts
    <2> HIDE DEF s
    <2>4. KcpRight(m) /\ SameSchedule(m, s.kcp)
      BY <2>3, MovedFacts
    <2> HIDE DEF m
    <2>5. /\ KcpRight(f) /\ SameSchedule(f, m) /\ f.cwnd >= 1
          /\ \A i \in Sent(m) : f.snd_buf[i].sn \in Nat /\ f.snd_buf[i].ts = m.current
      BY <2>4, FlushFacts
    <2> HIDE DEF f
    <2>6. FlushRight(f, now) /\ f.updated /\ m.current = ClockAt(now)
      <3>1. FlushRight(m, now)
        BY <2>3, <2>4, SameScheduleRight
      <3>2. FlushRight(f, now)
        BY <2>5, <3>1, SameScheduleRight
      <3> QED
        BY <2>3, <2>4, <2>5, <3>1, <3>2 DEF SameSchedule, FlushRight
    <2>7. KcpRight(kcp') /\ kcp'.updated /\ FlushRight(kcp', now) /\ kcp'.cwnd >= 1
      <3>1. CASE s.flush
        BY <2>1, <2>5, <2>6, <3>1
      <3>2. CASE ~s.flush
        BY <1>1, <2>1, <2>3, <3>2
      <3> QED
        BY <3>1, <3>2
    <2>8. ASSUME NEW c \in copies'
          PROVE  c \in CopyType /\ c.ts = ClockAt(c.at) /\ c.at <= now /\ now - c.at <= MaxDelay
      <3>1. CASE c \in copies
        BY <1>1, <1>3, <3>1
      <3>2. CASE c \notin copies
        <4>1. PICK i \in Sent(m) : c = [sn |-> f.snd_buf[i].sn, ts |-> f.snd_buf[i].ts, at |-> now]
          BY <2>1, <3>2
        <4>2. c.ts = ClockAt(now) /\ c.at = now /\ f.snd_buf[i].sn \in Nat
              /\ f.snd_buf[i].ts = ClockAt(now)
          BY <2>5, <2>6, <4>1
        <4>3. ClockAt(now) \in Times
          BY <1>1, ClockFacts
        <4>4. c \in CopyType
          BY <1>1, <4>1, <4>2, <4>3 DEF CopyType
        <4> QED
          BY <1>1, <4>2, <4>4, TimerConstants
      <3> QED
        BY <3>1, <3>2
    <2>9. now \in 0 .. MaxTime /\ now - now <= MaxStall /\ now <= now
      BY <1>1, TimerConstants
    <2> QED
      BY <1>1, <2>1, <2>7, <2>8, <2>9 DEF TimingIInv
  <1>8. CASE UNCHANGED timerVars
    BY <1>8 DEF timerVars, TimingIInv
  <1> QED
    BY <1>4, <1>5, <1>7, <1>8, <1>10, <1>11, <1>12, <1>13 DEF TimerNext

\* The timing of a kcp sender is right for every clock width, timeout bound,
\* interval and network delay that the assumption allows.
THEOREM TimersAreRight == TimerSpec => []TimingInv
<1>1. TimerInit => TimingIInv
  BY TimingInit
<1>2. TimingIInv /\ [TimerNext]_timerVars => TimingIInv'
  BY TimingStep
<1>3. TimingIInv => TimingInv
  BY TimingConsequences
<1> QED
  BY <1>1, <1>2, <1>3, PTL DEF TimerSpec

-----------------------------------------------------------------------------
(* Dates                                                                     *)

(* n is q times 400 years, r centuries, s cycles of four years and t years *)
Parts(n, q, r, s, t) ==
  /\ n = 400 * q + 100 * r + 4 * s + t /\ r <= 3 /\ s <= 24 /\ t <= 3
  /\ leapDays(n) = 97 * q + 24 * r + s
  /\ Leap(n + 1) <=> t = 3 /\ (s = 24 => r = 3)

\* A year as centuries, leap cycles and years, and the leap days before it.
LEMMA YearParts ==
    ASSUME NEW n \in Nat
    PROVE  \E q, r, s, t \in Nat : Parts(n, q, r, s, t)
  <1> DEFINE q == n \div 400
             c == n - 400 * q
             r == c \div 100
             f == c - 100 * r
             s == f \div 4
             t == f - 4 * s
  <1>1. q \in Nat /\ c \in Nat /\ n = 400 * q + c /\ c <= 399
    OBVIOUS
  <1> HIDE DEF q, c
  <1>2. r \in Nat /\ f \in Nat /\ c = 100 * r + f /\ f <= 99 /\ r <= 3
    BY <1>1
  <1> HIDE DEF r, f
  <1>3. s \in Nat /\ t \in Nat /\ f = 4 * s + t /\ t <= 3 /\ s <= 24
    BY <1>2
  <1> HIDE DEF s, t
  <1>4. n = 400 * q + 100 * r + 4 * s + t
    BY <1>1, <1>2, <1>3
  <1>5. n \div 4 = 100 * q + 25 * r + s /\ n \div 100 = 4 * q + r /\ n \div 400 = q
    BY <1>1, <1>2, <1>3, <1>4
  <1>6. leapDays(n) = 97 * q + 24 * r + s
    BY <1>1, <1>2, <1>3, <1>5 DEF leapDays
  <1>7. (n + 1) % 4 = (t + 1) % 4 /\ (n + 1) % 100 = (4 * s + t + 1) % 100
        /\ (n + 1) % 400 = (100 * r + 4 * s + t + 1) % 400
    BY <1>1, <1>2, <1>3, <1>4
  <1>8. Leap(n + 1) <=> t = 3 /\ (s = 24 => r = 3)
    BY <1>1, <1>2, <1>3, <1>7 DEF Leap
  <1>9. Parts(n, q, r, s, t)
    BY <1>2, <1>3, <1>4, <1>6, <1>8 DEF Parts
  <1> QED
    BY <1>1, <1>2, <1>3, <1>9

(* the days before month m of a year that begins in March, both from 0 *)
MonthStart(m) == (153 * m + 2) \div 5

(* the day e of the year y that begins in March, both counted from 0 *)
DayOfMonth(y, m, e) ==
  [year |-> y - 4800 + m \div 10, month |-> m + 3 - 12 * (m \div 10),
   day |-> e - MonthStart(m) + 1]
DayOfYear(y, e) == DayOfMonth(y, (5 * e + 2) \div 153, e)

\* The quotient of a multiple and a rest
LEMMA QuotientIs ==
    ASSUME NEW c \in Nat, NEW k \in Int, NEW h \in Nat, h < c
    PROVE  (c * k + h) \div c = k
  OBVIOUS

\* The quotients of getYearMonthDay: centuries,
LEMMA Centuries ==
    ASSUME NEW q \in Nat, NEW r \in 0 .. 3, NEW g \in Nat, g <= 36524, g = 36524 => r = 3
    PROVE  LET a == 146097 * q + 36524 * r + g
               b == (4 * a + 3) \div 146097
           IN  b = 4 * q + r /\ a - ((b * 146097) \div 4) = g
  <1> DEFINE a == 146097 * q + 36524 * r + g
             b == (4 * a + 3) \div 146097
             k == 4 * q + r
             h == 4 * g + 3 - r
             u == 146097 * q + 36524 * r
  <1>1. k \in Int /\ u \in Int
    OBVIOUS
  <1>2. h \in Nat /\ h < 146097
    <2>1. CASE g = 36524
      BY <2>1
    <2>2. CASE g # 36524
      <3>1. g <= 36523 /\ g \in Nat
        BY <2>2
      <3> QED
        BY <3>1
    <2> QED
      BY <2>1, <2>2
  <1>3. 4 * a + 3 = 146097 * k + h
    OBVIOUS
  <1>4. b = k
    <2> HIDE DEF k, h
    <2>1. 146097 \in Nat
      OBVIOUS
    <2>2. (146097 * k + h) \div 146097 = k
      BY <1>1, <1>2, <2>1, QuotientIs
    <2> QED
      BY <1>3, <2>2
  <1>5. k * 146097 = 4 * u + r /\ a - u = g
    OBVIOUS
  <1>6. (4 * u + r) \div 4 = u
    <2> HIDE DEF u
    <2> QED
      BY <1>1
  <1> HIDE DEF a, b, u
  <1>7. b = 4 * q + r /\ a - ((b * 146097) \div 4) = g
    BY <1>4, <1>5, <1>6
  <1> QED
    BY <1>7 DEF a, b

\* and years.
LEMMA YearsOfCentury ==
    ASSUME NEW s \in 0 .. 24, NEW t \in 0 .. 3, NEW e \in Nat, e <= 365, e = 365 => t = 3
    PROVE  LET c == 1461 * s + 365 * t + e
               d == (4 * c + 3) \div 1461
           IN  d = 4 * s + t /\ c - ((1461 * d) \div 4) = e
  <1> DEFINE c == 1461 * s + 365 * t + e
             d == (4 * c + 3) \div 1461
             k == 4 * s + t
             h == 4 * e + 3 - t
             u == 1461 * s + 365 * t
  <1>1. k \in Int /\ u \in Int
    OBVIOUS
  <1>2. h \in Nat /\ h < 1461
    OBVIOUS
  <1>3. 4 * c + 3 = 1461 * k + h
    OBVIOUS
  <1>4. d = k
    <2> HIDE DEF k, h
    <2>1. 1461 \in Nat
      OBVIOUS
    <2>2. (1461 * k + h) \div 1461 = k
      BY <1>1, <1>2, <2>1, QuotientIs
    <2> QED
      BY <1>3, <2>2
  <1>5. 1461 * k = 4 * u + t /\ c - u = e
    OBVIOUS
  <1>6. (4 * u + t) \div 4 = u
    <2> HIDE DEF u
    <2> QED
      BY <1>1
  <1> HIDE DEF c, d, u
  <1>7. d = 4 * s + t /\ c - ((1461 * d) \div 4) = e
    BY <1>4, <1>5, <1>6
  <1> QED
    BY <1>7 DEF c, d

(* the parts of the day j: centuries, cycles, years and days *)
Counted(q, r, s, t, e, j) ==
  /\ q \in Nat /\ r \in 0 .. 3 /\ s \in 0 .. 24 /\ t \in 0 .. 3
  /\ e \in Nat /\ e <= 365 /\ (e = 365 => t = 3 /\ (s = 24 => r = 3))
  /\ j \in Int /\ j + 32044 = 146097 * q + 36524 * r + 1461 * s + 365 * t + e

\* getYearMonthDay takes the number apart as it was put together.
LEMMA TakenApart ==
    ASSUME NEW q, NEW r, NEW s, NEW t, NEW e, NEW j, Counted(q, r, s, t, e, j)
    PROVE  getYearMonthDay(j) = DayOfYear(400 * q + 100 * r + 4 * s + t, e)
  <1> USE DEF Counted
  <1> DEFINE a == j + 32044
             b == (4 * a + 3) \div 146097
             c == a - ((b * 146097) \div 4)
             d == (4 * c + 3) \div 1461
             f == c - ((1461 * d) \div 4)
             g == 1461 * s + 365 * t + e
  <1>1. getYearMonthDay(j) = DayOfYear(b * 100 + d, f)
    BY DEF getYearMonthDay, DayOfYear, DayOfMonth, MonthStart
  <1>2. g \in Nat /\ g <= 36524 /\ (g = 36524 => r = 3)
    <2>1. CASE s = 24 /\ e = 365
      BY <2>1
    <2>2. CASE s = 24 /\ e # 365
      <3>1. e <= 364
        BY <2>2
      <3> QED
        BY <2>2, <3>1
    <2>3. CASE s # 24
      <3>1. s <= 23
        BY <2>3
      <3> QED
        BY <3>1
    <2> QED
      BY <2>1, <2>2, <2>3
  <1>3. a = 146097 * q + 36524 * r + g
    OBVIOUS
  <1>4. b = 4 * q + r /\ c = g
    <2> HIDE DEF g
    <2>1. LET x == 146097 * q + 36524 * r + g
              y == (4 * x + 3) \div 146097
          IN  y = 4 * q + r /\ x - ((y * 146097) \div 4) = g
      BY <1>2, Centuries
    <2> HIDE DEF a
    <2> QED
      BY <1>3, <2>1
  <1>5. d = 4 * s + t /\ f = e
    <2>1. LET x == 1461 * s + 365 * t + e
              y == (4 * x + 3) \div 1461
          IN  y = 4 * s + t /\ x - ((1461 * y) \div 4) = e
      BY YearsOfCentury
    <2> HIDE DEF c
    <2> QED
      BY <1>4, <2>1
  <1> HIDE DEF b, d, f
  <1>6. b * 100 + d = 400 * q + 100 * r + 4 * s + t
    BY <1>4, <1>5
  <1> QED
    BY <1>1, <1>5, <1>6

(* month m of a year that begins in March can have a day d *)
MonthHas(m, d) == /\ m \in 0 .. 11 /\ d \in 1 .. 31
                  /\ m \in {1, 3, 6, 8} => d <= 30
                  /\ m = 11 => d <= 29

\* The month of a day in a year that begins in March
LEMMA MonthOfDay ==
    ASSUME NEW m, NEW d, MonthHas(m, d)
    PROVE  LET e == d - 1 + MonthStart(m)
           IN  /\ e \in Nat /\ e <= 365 /\ (e = 365 => m = 11 /\ d = 29)
               /\ (5 * e + 2) \div 153 = m
  <1> USE DEF MonthHas
  <1> DEFINE e == d - 1 + MonthStart(m)
  <1>1. /\ MonthStart(0) = 0 /\ MonthStart(1) = 31 /\ MonthStart(2) = 61
        /\ MonthStart(3) = 92 /\ MonthStart(4) = 122 /\ MonthStart(5) = 153
        /\ MonthStart(6) = 184 /\ MonthStart(7) = 214 /\ MonthStart(8) = 245
        /\ MonthStart(9) = 275 /\ MonthStart(10) = 306 /\ MonthStart(11) = 337
    BY DEF MonthStart
  <1>2. CASE m \in {0, 1, 2}
    BY <1>1, <1>2
  <1>3. CASE m \in {3, 4, 5}
    BY <1>1, <1>3
  <1>4. CASE m \in {6, 7, 8}
    BY <1>1, <1>4
  <1>5. CASE m \in {9, 10, 11}
    BY <1>1, <1>5
  <1> QED
    BY <1>2, <1>3, <1>4, <1>5

(* years and months as getJulianDayNumber counts them *)
MarchYear(y, m) == IF m > 2 THEN y + 4800 ELSE y + 4799
MarchMonth(m) == IF m > 2 THEN m - 3 ELSE m + 9

\* getJulianDayNumber, with the year that begins in March
LEMMA NumberOfDay ==
    ASSUME NEW y \in Nat, NEW m \in 1 .. 12, NEW d \in Int
    PROVE  getJulianDayNumber(y, m, d) =
             d + MonthStart(MarchMonth(m)) + 365 * MarchYear(y, m)
               + leapDays(MarchYear(y, m)) - 32045
  <1>1. CASE m > 2
    <2>1. (14 - m) \div 12 = 0
      BY <1>1
    <2>2. y + 4800 - 0 = y + 4800 /\ m + 12 * 0 - 3 = m - 3 /\ (y + 4800) * 365 = 365 * (y + 4800)
      OBVIOUS
    <2> QED
      BY <1>1, <2>1, <2>2 DEF getJulianDayNumber, MarchYear, MarchMonth, MonthStart
  <1>2. CASE ~(m > 2)
    <2>1. (14 - m) \div 12 = 1
      BY <1>2
    <2>2. y + 4800 - 1 = y + 4799 /\ m + 12 * 1 - 3 = m + 9 /\ (y + 4799) * 365 = 365 * (y + 4799)
      OBVIOUS
    <2> QED
      BY <1>2, <2>1, <2>2 DEF getJulianDayNumber, MarchYear, MarchMonth, MonthStart
  <1> QED
    BY <1>1, <1>2

\* The calendar comes back every 400 years.
LEMMA LeapRepeats ==
    ASSUME NEW y \in Nat
    PROVE  Leap(y + 4800) <=> Leap(y)
  <1>1. (y + 4800) % 4 = y % 4 /\ (y + 4800) % 100 = y % 100 /\ (y + 4800) % 400 = y % 400
    OBVIOUS
  <1> QED
    BY <1>1 DEF Leap

\* leapDays counts the leap years.
LEMMA LeapStep ==
    ASSUME NEW n \in Nat
    PROVE  leapDays(n) \in Int /\ leapDays(n + 1) = leapDays(n) + (IF Leap(n + 1) THEN 1 ELSE 0)
  <1>1. \A k \in {4, 100, 400} : /\ n \div k \in Int
                                 /\ (n + 1) \div k = n \div k + (IF (n + 1) % k = 0 THEN 1 ELSE 0)
    OBVIOUS
  <1>2. ((n + 1) % 400 = 0 => (n + 1) % 100 = 0) /\ ((n + 1) % 100 = 0 => (n + 1) % 4 = 0)
    OBVIOUS
  <1> QED
    BY <1>1, <1>2 DEF leapDays, Leap

\* The days of a month, by its place after March
LEMMA DaysOfMonth ==
    ASSUME NEW y \in Nat, NEW m \in 1 .. 12
    PROVE  /\ DaysIn(y, m) \in 28 .. 31
           /\ m \in {4, 6, 9, 11} => DaysIn(y, m) = 30
           /\ m = 2 => DaysIn(y, m) = (IF Leap(y) THEN 29 ELSE 28)
           /\ m \in {1, 3, 5, 7, 8, 10, 12} => DaysIn(y, m) = 31
  <1>1. CASE m = 2
    BY <1>1 DEF DaysIn
  <1>2. CASE m \in {4, 6, 9, 11}
    BY <1>2 DEF DaysIn
  <1>3. CASE m \in {1, 3, 5, 7, 8, 10, 12}
    BY <1>3 DEF DaysIn
  <1> QED
    BY <1>1, <1>2, <1>3

\* getYearMonthDay undoes getJulianDayNumber.
LEMMA NumberThereAndBack ==
    ASSUME NEW y \in Nat, NEW m \in 1 .. 12, NEW d \in 1 .. 31, d <= DaysIn(y, m)
    PROVE  getYearMonthDay(getJulianDayNumber(y, m, d)) = [year |-> y, month |-> m, day |-> d]
  <1> DEFINE n == MarchYear(y, m)
             k == MarchMonth(m)
             e == d - 1 + MonthStart(k)
             j == getJulianDayNumber(y, m, d)
  <1>1. n \in Nat /\ k \in 0 .. 11
    BY DEF MarchYear, MarchMonth
  <1>2. (k \in {1, 3, 6, 8} => d <= 30) /\ (k = 11 => d <= 29 /\ m = 2)
    BY DaysOfMonth DEF MarchMonth
  <1>3. /\ e \in Nat /\ e <= 365 /\ (e = 365 => k = 11 /\ d = 29)
        /\ (5 * e + 2) \div 153 = k
    <2> HIDE DEF k
    <2>1. MonthHas(k, d)
      BY <1>1, <1>2 DEF MonthHas
    <2> QED
      BY <2>1, MonthOfDay
  <1>4. MonthStart(k) \in Int
    BY <1>1 DEF MonthStart
  <1>5. e = 365 => Leap(n + 1)
    <2> SUFFICES ASSUME e = 365 PROVE Leap(n + 1)
      OBVIOUS
    <2>1. m = 2 /\ d = 29
      BY <1>2, <1>3
    <2>2. Leap(y)
      BY <2>1, DaysOfMonth
    <2>3. n + 1 = y + 4800
      BY <2>1 DEF MarchYear
    <2> QED
      BY <2>2, <2>3, LeapRepeats
  <1>6. j = d + MonthStart(k) + 365 * n + leapDays(n) - 32045
    BY NumberOfDay
  <1>7. PICK q, r, s, t \in Nat : Parts(n, q, r, s, t)
    BY <1>1, YearParts
  <1> HIDE DEF n, k, j
  <1>8. /\ n = 400 * q + 100 * r + 4 * s + t /\ r <= 3 /\ s <= 24 /\ t <= 3
        /\ leapDays(n) = 97 * q + 24 * r + s
        /\ (e = 365 => t = 3 /\ (s = 24 => r = 3))
    BY <1>5, <1>7 DEF Parts
  <1>9. r \in 0 .. 3 /\ s \in 0 .. 24 /\ t \in 0 .. 3
    BY <1>8
  <1>10. j \in Int /\ j + 32044 = 146097 * q + 36524 * r + 1461 * s + 365 * t + e
    BY <1>1, <1>4, <1>6, <1>8
  <1> HIDE DEF e
  <1>11. getYearMonthDay(j) = DayOfYear(400 * q + 100 * r + 4 * s + t, e)
    <2>1. e \in Nat /\ e <= 365
      BY <1>3
    <2>2. e = 365 => t = 3 /\ (s = 24 => r = 3)
      BY <1>8
    <2>3. Counted(q, r, s, t, e, j)
      BY <1>9, <1>10, <2>1, <2>2 DEF Counted
    <2> QED
      BY <2>3, TakenApart
  <1>12. getYearMonthDay(j) = DayOfYear(n, e)
    BY <1>8, <1>11
  <1>13. DayOfYear(n, e) = [year |-> n - 4800 + k \div 10, month |-> k + 3 - 12 * (k \div 10),
                            day |-> e - MonthStart(k) + 1]
    <2>1. (5 * e + 2) \div 153 = k
      BY <1>3
    <2>2. DayOfYear(n, e) = DayOfMonth(n, k, e)
      BY <2>1, Zenon DEF DayOfYear
    <2> QED
      BY <2>2 DEF DayOfMonth
  <1>14. n - 4800 + k \div 10 = y /\ k + 3 - 12 * (k \div 10) = m
    BY DEF n, k, MarchYear, MarchMonth
  <1>15. e - MonthStart(k) + 1 = d
    BY <1>4 DEF e
  <1> QED
    BY <1>12, <1>13, <1>14, <1>15 DEF j

\* The number of the next day is the next number.
LEMMA NumberOfNextDay ==
    ASSUME NEW y \in Nat, NEW m \in 1 .. 12, NEW d \in 1 .. 31
    PROVE  LET J == getJulianDayNumber(y, m, d)
           IN  /\ J \in Int
               /\ getJulianDayNumber(y, m, d + 1) = J + 1
               /\ d = DaysIn(y, m) /\ m < 12 => getJulianDayNumber(y, m + 1, 1) = J + 1
               /\ d = DaysIn(y, m) /\ m = 12 => getJulianDayNumber(y + 1, 1, 1) = J + 1
  <1> DEFINE J == getJulianDayNumber(y, m, d)
             n == MarchYear(y, m)
             k == MarchMonth(m)
  <1>1. /\ MonthStart(0) = 0 /\ MonthStart(1) = 31 /\ MonthStart(2) = 61
        /\ MonthStart(3) = 92 /\ MonthStart(4) = 122 /\ MonthStart(5) = 153
        /\ MonthStart(6) = 184 /\ MonthStart(7) = 214 /\ MonthStart(8) = 245
        /\ MonthStart(9) = 275 /\ MonthStart(10) = 306 /\ MonthStart(11) = 337
    BY DEF MonthStart
  <1>2. n \in Nat /\ k \in 0 .. 11 /\ MonthStart(k) \in Int /\ leapDays(n) \in Int
    <2>1. n \in Nat /\ k \in 0 .. 11
      BY DEF MarchYear, MarchMonth
    <2> HIDE DEF n, k
    <2> QED
      BY <2>1, LeapStep DEF MonthStart
  <1>3. J = d + MonthStart(k) + 365 * n + leapDays(n) - 32045
    BY NumberOfDay
  <1>4. J \in Int /\ getJulianDayNumber(y, m, d + 1) = J + 1
    <2>1. d + 1 \in Int
      OBVIOUS
    <2>2. getJulianDayNumber(y, m, d + 1)
            = (d + 1) + MonthStart(k) + 365 * n + leapDays(n) - 32045
      BY <2>1, NumberOfDay
    <2> HIDE DEF n, k, J
    <2> QED
      BY <1>2, <1>3, <2>2
  <1>5. ASSUME d = DaysIn(y, m), m < 12
        PROVE  getJulianDayNumber(y, m + 1, 1) = J + 1
    <2> DEFINE o == MarchYear(y, m + 1)
               l == MarchMonth(m + 1)
    <2>1. m + 1 \in 1 .. 12
      BY <1>5
    <2>2. getJulianDayNumber(y, m + 1, 1) = 1 + MonthStart(l) + 365 * o + leapDays(o) - 32045
      BY <2>1, NumberOfDay
    <2>3. CASE m = 2
      <3>1. n = y + 4799 /\ o = n + 1 /\ k = 11 /\ l = 0 /\ o = y + 4800
        BY <2>3 DEF MarchYear, MarchMonth
      <3>2. leapDays(o) = leapDays(n) + (IF Leap(o) THEN 1 ELSE 0) /\ (Leap(o) <=> Leap(y))
        BY <1>2, <3>1, LeapStep, LeapRepeats
      <3>3. d = (IF Leap(y) THEN 29 ELSE 28)
        BY <1>5, <2>3, DaysOfMonth
      <3> HIDE DEF n, o, k, l, J
      <3> QED
        BY <1>1, <1>2, <1>3, <2>2, <3>1, <3>2, <3>3
    <2>4. CASE m # 2
      <3>1. n = o /\ l = k + 1
        BY <1>5, <2>4 DEF MarchYear, MarchMonth
      <3>2. MonthStart(l) = MonthStart(k) + d
        BY <1>1, <1>5, <2>4, DaysOfMonth DEF MarchMonth
      <3> HIDE DEF n, o, k, l, J
      <3> QED
        BY <1>2, <1>3, <2>2, <3>1, <3>2
    <2> QED
      BY <2>3, <2>4
  <1>6. ASSUME d = DaysIn(y, m), m = 12
        PROVE  getJulianDayNumber(y + 1, 1, 1) = J + 1
    <2> DEFINE o == MarchYear(y + 1, 1)
    <2>1. getJulianDayNumber(y + 1, 1, 1) = 1 + MonthStart(10) + 365 * o + leapDays(o) - 32045
      BY NumberOfDay DEF MarchMonth
    <2>2. n = y + 4800 /\ o = n /\ k = 9
      BY <1>6 DEF MarchYear, MarchMonth
    <2>3. d = 31
      BY <1>6, DaysOfMonth
    <2> HIDE DEF n, o, k, J
    <2> QED
      BY <1>1, <1>2, <1>3, <2>1, <2>2, <2>3
  <1> QED
    BY <1>4, <1>5, <1>6

\* The first of January of each year, counted from 1600
LEMMA FirstOfYear ==
    ASSUME NEW n \in Nat
    PROVE  /\ getJulianDayNumber(1600 + n, 1, 1) \in Int
           /\ FirstJulian(1600 + n) = getJulianDayNumber(1600 + n, 1, 1)
  <1> DEFINE base == 2305448
             L(k) == {z \in 1600 .. 1600 + k - 1 : Leap(z)}
             J(k) == getJulianDayNumber(1600 + k, 1, 1)
             Right(k) == /\ IsFiniteSet(L(k)) /\ Cardinality(L(k)) \in Nat
                         /\ J(k) = base + 365 * k + Cardinality(L(k))
             T == {k \in Nat : Right(k)}
  <1>1. J(0) = base
    <2>1. leapDays(6399) = 1551
      BY DEF leapDays
    <2>2. MarchYear(1600, 1) = 6399 /\ MarchMonth(1) = 10 /\ MonthStart(10) = 306
      BY DEF MarchYear, MarchMonth, MonthStart
    <2>3. J(0) = 1 + MonthStart(10) + 365 * 6399 + leapDays(6399) - 32045
      <3>1. J(0) = getJulianDayNumber(1600, 1, 1)
        OBVIOUS
      <3> QED
        BY <2>2, <3>1, NumberOfDay
    <2> QED
      BY <2>1, <2>2, <2>3, SMT
  <1> base \in Int
    BY SMT
  <1>2. Right(0)
    <2>1. L(0) = {}
      OBVIOUS
    <2> HIDE DEF base, J
    <2> QED
      BY <1>1, <2>1, FS_EmptySet
  <1> HIDE DEF base
  <1>3. ASSUME NEW k \in Nat, Right(k) PROVE Right(k + 1)
    <2> DEFINE y == 1600 + k
    <2>1. L(k + 1) = L(k) \cup (IF Leap(y) THEN {y} ELSE {})
      <3>1. 1600 .. 1600 + (k + 1) - 1 = (1600 .. 1600 + k - 1) \cup {y}
        OBVIOUS
      <3> QED
        BY <3>1
    <2>2. y \notin L(k)
      OBVIOUS
    <2>3. /\ IsFiniteSet(L(k + 1)) /\ Cardinality(L(k + 1)) \in Nat
          /\ Cardinality(L(k + 1)) = Cardinality(L(k)) + (IF Leap(y) THEN 1 ELSE 0)
      <3> HIDE DEF L, y
      <3>1. CASE Leap(y)
        <4>1. L(k + 1) = L(k) \cup {y}
          BY <2>1, <3>1
        <4>2. /\ IsFiniteSet(L(k) \cup {y})
              /\ Cardinality(L(k) \cup {y}) = Cardinality(L(k)) + 1
          BY <1>3, <2>2, FS_AddElement
        <4>3. /\ IsFiniteSet(L(k + 1))
              /\ Cardinality(L(k + 1)) = Cardinality(L(k)) + 1
          BY <4>1, <4>2, Zenon
        <4>4. Cardinality(L(k)) \in Nat
          BY <1>3
        <4>5. Cardinality(L(k)) + 1 \in Nat
          BY <4>4
        <4>6. (IF Leap(y) THEN 1 ELSE 0) = 1
          BY <3>1
        <4> QED
          BY <4>3, <4>5, <4>6, Zenon
      <3>2. CASE ~Leap(y)
        <4>1. L(k + 1) = L(k)
          BY <2>1, <3>2
        <4> QED
          BY <1>3, <3>2, <4>1
      <3> QED
        BY <3>1, <3>2
    <2>4. /\ J(k) = 1 + MonthStart(10) + 365 * (y + 4799) + leapDays(y + 4799) - 32045
          /\ J(k + 1) = 1 + MonthStart(10) + 365 * (y + 4800) + leapDays(y + 4800) - 32045
      <3>1. y \in Nat /\ y + 1 \in Nat /\ 1600 + (k + 1) = y + 1 /\ 1 \in 1 .. 12 /\ 1 \in Int
        OBVIOUS
      <3>2. /\ MarchYear(y, 1) = y + 4799 /\ MarchYear(y + 1, 1) = y + 4800
            /\ MarchMonth(1) = 10
        BY <3>1 DEF MarchYear, MarchMonth
      <3> HIDE DEF y
      <3>3. J(k) = getJulianDayNumber(y, 1, 1) /\ J(k + 1) = getJulianDayNumber(y + 1, 1, 1)
        BY <3>1 DEF y
      <3> HIDE DEF J
      <3>4. getJulianDayNumber(y, 1, 1) = 1 + MonthStart(10) + 365 * (y + 4799)
                                            + leapDays(y + 4799) - 32045
        BY <3>1, <3>2, NumberOfDay
      <3>5. getJulianDayNumber(y + 1, 1, 1) = 1 + MonthStart(10) + 365 * (y + 4800)
                                            + leapDays(y + 4800) - 32045
        BY <3>1, <3>2, NumberOfDay
      <3> QED
        BY <3>3, <3>4, <3>5
    <2>5. /\ leapDays(y + 4799) \in Int
          /\ leapDays(y + 4800) = leapDays(y + 4799) + (IF Leap(y) THEN 1 ELSE 0)
      <3>1. y \in Nat /\ y + 4799 \in Nat /\ (y + 4799) + 1 = y + 4800
        OBVIOUS
      <3> HIDE DEF y
      <3> QED
        BY <3>1, LeapStep, LeapRepeats
    <2>6. MonthStart(10) = 306
      BY DEF MonthStart
    <2>7. J(k + 1) = base + 365 * (k + 1) + Cardinality(L(k + 1))
      <3>1. J(k) = base + 365 * k + Cardinality(L(k)) /\ Cardinality(L(k)) \in Nat
        BY <1>3
      <3>2. y \in Nat
        OBVIOUS
      <3> HIDE DEF J, L, y
      <3> QED
        BY <2>3, <2>4, <2>5, <2>6, <3>1, <3>2
    <2> HIDE DEF J, L
    <2> QED
      BY <2>3, <2>7
  <1>4. n \in T
    <2> HIDE DEF Right
    <2>1. T \subseteq Nat /\ 0 \in T /\ \A k \in T : k + 1 \in T
      BY <1>2, <1>3
    <2> HIDE DEF T
    <2> QED
      BY <2>1, SetInduction
  <1>5. FirstJulian(1600 + n) = base + 365 * n + Cardinality(L(n))
    <2>1. (1600 + n) - 1600 = n
      OBVIOUS
    <2> QED
      BY <2>1, SMT DEF FirstJulian, base
  <1> QED
    BY <1>4, <1>5

\* The quotient and the rest of a time, before 1970 as after, repaired
LEMMA TimeSplits ==
    ASSUME NEW D \in Int, NEW s \in Nat, s < kSecondsPerDay
    PROVE  LET t == D * kSecondsPerDay + s
               rest == CRem(t, kSecondsPerDay)
           IN  /\ rest + borrow(rest) * kSecondsPerDay = s
               /\ CQuot(t, kSecondsPerDay) - borrow(rest) = D
  <1> DEFINE c == kSecondsPerDay
             t == D * c + s
             rest == CRem(t, c)
  <1>1. c = 86400
    BY SMT DEF kSecondsPerDay
  <1>2. CASE D >= 0
    <2>1. t >= 0 /\ t \in Int /\ t \div 86400 = D /\ t % 86400 = s
      BY <1>1, <1>2, SMT
    <2>2. CRem(t, c) = s /\ CQuot(t, c) = D
      BY <1>1, <2>1, SMT DEF CRem, CQuot
    <2> HIDE DEF t
    <2> QED
      BY <1>1, <2>2, SMT DEF borrow, t
  <1>3. CASE D < 0 /\ s = 0
    <2>1. t < 0 /\ t \in Int /\ (-t) \div 86400 = -D /\ (-t) % 86400 = 0
      BY <1>1, <1>3, SMT
    <2>2. CRem(t, c) = s /\ CQuot(t, c) = D
      BY <1>1, <1>3, <2>1, SMT DEF CRem, CQuot
    <2> QED
      BY <1>1, <1>3, <2>2, SMT DEF borrow
  <1>4. CASE D < 0 /\ s > 0
    <2>1. t < 0 /\ t \in Int /\ (-t) \div 86400 = -D - 1 /\ (-t) % 86400 = 86400 - s
      BY <1>1, <1>4, SMT
    <2>2. CRem(t, c) = s - 86400 /\ CQuot(t, c) = D + 1
      BY <1>1, <1>4, <2>1, SMT DEF CRem, CQuot
    <2>3. s < 86400
      BY <1>1
    <2> QED
      BY <1>1, <1>4, <2>2, <2>3, SMT DEF borrow
  <1> QED
    BY <1>2, <1>3, <1>4, SMT

\* Hours, minutes and seconds add up.
LEMMA SecondsAddUp ==
    ASSUME NEW s \in Nat, s < kSecondsPerDay
    PROVE  /\ 3600 * fillHMS(s).hour + 60 * fillHMS(s).min + fillHMS(s).sec = s
           /\ fillHMS(s).hour * 3600 + fillHMS(s).min * 60 + fillHMS(s).sec = s
           /\ fillHMS(s).hour < 24
  <1> DEFINE m == s \div 60
             h == m \div 60
  <1>1. s < 86400
    BY SMT DEF kSecondsPerDay
  <1>2. m \in Nat /\ s = 60 * m + (s % 60) /\ s % 60 \in Nat /\ m < 1440
    BY <1>1, SMT
  <1> HIDE DEF m
  <1>3. h \in Nat /\ m = 60 * h + (m % 60) /\ m % 60 \in Nat /\ h < 24
    BY <1>2, SMT
  <1> HIDE DEF h
  <1>4. fillHMS(s).hour = h /\ fillHMS(s).min = m % 60 /\ fillHMS(s).sec = s % 60
    BY SMT DEF fillHMS, h, m
  <1> QED
    BY <1>2, <1>3, <1>4, SMT

\* A time on the day j is taken apart into that day and its seconds.
LEMMA TimeOnDay ==
    ASSUME NEW j \in Int, NEW s \in Nat, s < kSecondsPerDay
    PROVE  toUtcTime((j - kJulianDayOf1970_01_01) * kSecondsPerDay + s)
             = [ymd |-> getYearMonthDay(j), hms |-> fillHMS(s), wday |-> weekDay(j),
                yday |-> j - getJulianDayNumber(getYearMonthDay(j).year, 1, 1)]
  <1> DEFINE D == j - kJulianDayOf1970_01_01
             t == D * kSecondsPerDay + s
             rest == CRem(t, kSecondsPerDay)
  <1>1. kJulianDayOf1970_01_01 \in Int
    <2>1. 1970 \in Nat /\ 1 \in 1 .. 12 /\ 1 \in 1 .. 31
      BY SMT
    <2> QED
      BY <2>1, NumberOfNextDay, SMT DEF kJulianDayOf1970_01_01
  <1>2. D \in Int /\ D + kJulianDayOf1970_01_01 = j
    BY <1>1, SMT
  <1> HIDE DEF D
  <1>3. /\ rest + borrow(rest) * kSecondsPerDay = s
        /\ CQuot(t, kSecondsPerDay) - borrow(rest) = D
    BY <1>2, TimeSplits, SMT
  <1> HIDE DEF rest
  <1>4. toUtcTime(t) =
          [ymd |-> getYearMonthDay((CQuot(t, kSecondsPerDay) - borrow(rest)) + kJulianDayOf1970_01_01),
           hms |-> fillHMS(rest + borrow(rest) * kSecondsPerDay),
           wday |-> weekDay((CQuot(t, kSecondsPerDay) - borrow(rest)) + kJulianDayOf1970_01_01),
           yday |-> ((CQuot(t, kSecondsPerDay) - borrow(rest)) + kJulianDayOf1970_01_01)
             - getJulianDayNumber(getYearMonthDay((CQuot(t, kSecondsPerDay) - borrow(rest))
                 + kJulianDayOf1970_01_01).year, 1, 1)]
    BY SMT DEF toUtcTime, rest
  <1>5. toUtcTime(t) = [ymd |-> getYearMonthDay(j), hms |-> fillHMS(s), wday |-> weekDay(j),
                        yday |-> j - getJulianDayNumber(getYearMonthDay(j).year, 1, 1)]
    <2> HIDE DEF t
    <2> QED
      BY <1>2, <1>3, <1>4, SMT
  <1> QED
    BY <1>5, SMT DEF D

(* What the proof carries from day to day: the counted number is the one   *)
(* that getJulianDayNumber gives, and so is that of the first of January.  *)
DateIInv ==
  /\ civil \in [year : Nat, month : 1 .. 12, day : 1 .. 31]
  /\ civil.day <= DaysIn(civil.year, civil.month)
  /\ julian = getJulianDayNumber(civil.year, civil.month, civil.day)
  /\ yday = julian - getJulianDayNumber(civil.year, 1, 1)

\* The first of January
LEMMA DateInitIInv ==
    ASSUME DateInit
    PROVE  DateIInv
  <1>1. PICK y \in Years : /\ civil = [year |-> y, month |-> 1, day |-> 1]
                           /\ yday = 0 /\ julian = FirstJulian(y)
    BY DEF DateInit
  <1>2. y \in Nat /\ y >= 1600
    BY DateAssumption
  <1>3. y - 1600 \in Nat /\ 1600 + (y - 1600) = y
    BY <1>2
  <1>4. FirstJulian(y) = getJulianDayNumber(y, 1, 1) /\ getJulianDayNumber(y, 1, 1) \in Int
    BY <1>3, FirstOfYear
  <1>5. civil.year = y /\ civil.month = 1 /\ civil.day = 1
    BY <1>1
  <1>6. civil \in [year : Nat, month : 1 .. 12, day : 1 .. 31]
    BY <1>1, <1>2
  <1>7. DaysIn(y, 1) \in 28 .. 31
    BY <1>2, DaysOfMonth
  <1> QED
    BY <1>1, <1>4, <1>5, <1>6, <1>7 DEF DateIInv

\* The next day
LEMMA NextDayIInv ==
    ASSUME DateIInv, NextDay
    PROVE  DateIInv'
  <1> DEFINE y == civil.year
             m == civil.month
             d == civil.day
             J(a, b, c) == getJulianDayNumber(a, b, c)
  <1>1. /\ y \in Nat /\ m \in 1 .. 12 /\ d \in 1 .. 31 /\ d <= DaysIn(y, m)
        /\ civil = [year |-> y, month |-> m, day |-> d]
    BY DEF DateIInv
  <1>2. julian = J(y, m, d) /\ yday = julian - J(y, 1, 1) /\ julian' = julian + 1
    BY DEF DateIInv, NextDay
  <1>3. /\ J(y, m, d) \in Int
        /\ J(y, m, d + 1) = J(y, m, d) + 1
        /\ d = DaysIn(y, m) /\ m < 12 => J(y, m + 1, 1) = J(y, m, d) + 1
        /\ d = DaysIn(y, m) /\ m = 12 => J(y + 1, 1, 1) = J(y, m, d) + 1
    BY <1>1, NumberOfNextDay
  <1>4. J(y, 1, 1) \in Int /\ J(y + 1, 1, 1) \in Int
    <2>1. y \in Nat /\ y + 1 \in Nat /\ 1 \in 1 .. 12 /\ 1 \in 1 .. 31
      BY <1>1
    <2> QED
      BY <2>1, NumberOfNextDay
  <1>5. \A a \in Nat, b \in 1 .. 12 : DaysIn(a, b) \in 28 .. 31
    BY DaysOfMonth
  <1> HIDE DEF y, m, d, J
  <1>6. CASE d = DaysIn(y, m) /\ m = 12
    <2>1. civil' = [year |-> y + 1, month |-> 1, day |-> 1] /\ yday' = 0
      BY <1>6 DEF NextDay, y, m, d
    <2>2. civil'.year = y + 1 /\ civil'.month = 1 /\ civil'.day = 1
      BY <2>1
    <2>3. civil' \in [year : Nat, month : 1 .. 12, day : 1 .. 31]
      BY <1>1, <2>1
    <2>4. 1 <= DaysIn(y + 1, 1)
      BY <1>1, <1>5
    <2>5. julian' = J(y + 1, 1, 1) /\ yday' = julian' - J(y + 1, 1, 1)
      BY <1>2, <1>3, <1>4, <1>6, <2>1
    <2> QED
      BY <2>2, <2>3, <2>4, <2>5 DEF DateIInv, J
  <1>7. CASE d = DaysIn(y, m) /\ m # 12
    <2>1. civil' = [year |-> y, month |-> m + 1, day |-> 1] /\ yday' = yday + 1
      BY <1>1, <1>7 DEF NextDay, y, m, d
    <2>2. civil'.year = y /\ civil'.month = m + 1 /\ civil'.day = 1
      BY <2>1
    <2>3. civil' \in [year : Nat, month : 1 .. 12, day : 1 .. 31] /\ m < 12
      BY <1>1, <1>7, <2>1
    <2>4. 1 <= DaysIn(y, m + 1)
      BY <1>1, <1>5, <1>7
    <2>5. julian' = J(y, m + 1, 1) /\ yday' = julian' - J(y, 1, 1)
      BY <1>2, <1>3, <1>4, <1>7, <2>1, <2>3
    <2> QED
      BY <2>2, <2>3, <2>4, <2>5 DEF DateIInv, J
  <1>8. CASE d # DaysIn(y, m)
    <2>1. civil' = [year |-> y, month |-> m, day |-> d + 1] /\ yday' = yday + 1
      BY <1>1, <1>8 DEF NextDay, y, m, d
    <2>2. civil'.year = y /\ civil'.month = m /\ civil'.day = d + 1
      BY <2>1
    <2>3. DaysIn(y, m) \in 28 .. 31
      BY <1>1, <1>5
    <2>4. d + 1 <= DaysIn(y, m) /\ d + 1 \in 1 .. 31
      BY <1>1, <1>8, <2>3
    <2>5. civil' \in [year : Nat, month : 1 .. 12, day : 1 .. 31]
      BY <1>1, <2>1, <2>4
    <2>6. julian' = J(y, m, d + 1) /\ yday' = julian' - J(y, 1, 1)
      BY <1>2, <1>3, <1>4, <2>1
    <2> QED
      BY <2>2, <2>4, <2>5, <2>6 DEF DateIInv, J
  <1> QED
    BY <1>6, <1>7, <1>8

\* The invariant gives both conversions.
LEMMA DateIInvGives ==
    ASSUME DateIInv
    PROVE  DateInv
  <1> DEFINE y == civil.year
             m == civil.month
             d == civil.day
             K == kJulianDayOf1970_01_01
  <1>1. /\ y \in Nat /\ m \in 1 .. 12 /\ d \in 1 .. 31 /\ d <= DaysIn(y, m)
        /\ civil = [year |-> y, month |-> m, day |-> d]
    BY DEF DateIInv
  <1>2. julian = getJulianDayNumber(y, m, d) /\ yday = julian - getJulianDayNumber(y, 1, 1)
    BY DEF DateIInv
  <1>3. getYearMonthDay(julian) = civil
    <2> HIDE DEF y, m, d
    <2>1. getYearMonthDay(getJulianDayNumber(y, m, d)) = [year |-> y, month |-> m, day |-> d]
      BY <1>1, NumberThereAndBack
    <2> QED
      BY <1>1, <1>2, <2>1, Zenon
  <1>4. julian \in Int
    <2> HIDE DEF y, m, d
    <2> QED
      BY <1>1, <1>2, NumberOfNextDay
  <1>5. JulianAgrees
    BY <1>2, <1>3 DEF JulianAgrees
  <1>6. K \in Int
    <2>1. 1970 \in Nat /\ 1 \in 1 .. 12 /\ 1 \in 1 .. 31
      BY SMT
    <2> QED
      BY <2>1, NumberOfNextDay, SMT DEF kJulianDayOf1970_01_01
  <1>7. FirstJulian(1600) = 2305448
    <2>1. 1600 .. 1600 - 1 = {}
      BY SMT
    <2>2. {z \in 1600 .. 1600 - 1 : Leap(z)} = {}
      BY <2>1, SMT
    <2>3. Cardinality({z \in 1600 .. 1600 - 1 : Leap(z)}) = 0
      BY <2>2, FS_EmptySet, SMT
    <2> QED
      BY <2>3, SMT DEF FirstJulian
  <1>8. weekDay(julian) = (Saturday + julian - FirstJulian(1600)) % 7
    BY <1>4, <1>7, SMT DEF weekDay, Saturday
  <1>9. ASSUME NEW s \in SecondsOfDay
        PROVE  LET t == (julian - K) * kSecondsPerDay + s
                   utc == toUtcTime(t)
               IN  /\ utc.ymd = civil /\ utc.yday = yday
                   /\ utc.wday = (Saturday + julian - FirstJulian(1600)) % 7
                   /\ 3600 * utc.hms.hour + 60 * utc.hms.min + utc.hms.sec = s
                   /\ utc.hms.hour < 24
                   /\ fromUtcTime(utc.ymd, utc.hms) = t
    <2> DEFINE t == (julian - K) * kSecondsPerDay + s
               utc == toUtcTime(t)
               h == fillHMS(s)
    <2>1. s \in Nat /\ s < kSecondsPerDay
      BY DateAssumption
    <2>2. utc = [ymd |-> civil, hms |-> h, wday |-> weekDay(julian),
                 yday |-> julian - getJulianDayNumber(civil.year, 1, 1)]
      BY <1>3, <1>4, <2>1, TimeOnDay, Zenon
    <2> HIDE DEF utc
    <2>3. utc.ymd = civil /\ utc.hms = h /\ utc.wday = weekDay(julian) /\ utc.yday = yday
      BY <1>2, <2>2, Zenon
    <2>4. /\ 3600 * h.hour + 60 * h.min + h.sec = s
          /\ h.hour * 3600 + h.min * 60 + h.sec = s
          /\ h.hour < 24
      BY <2>1, SecondsAddUp
    <2>5. fromUtcTime(utc.ymd, utc.hms) = t
      <3>1. fromUtcTime(utc.ymd, utc.hms)
              = (julian - K) * kSecondsPerDay + h.hour * 3600 + h.min * 60 + h.sec
        <4>1. utc.ymd = civil /\ utc.hms = h
          BY <2>3
        <4>2. getJulianDayNumber(civil.year, civil.month, civil.day) = julian
          BY <1>2
        <4> HIDE DEF h
        <4> QED
          BY <4>1, <4>2, SMT DEF fromUtcTime
      <3>2. h.hour \in Int /\ h.min \in Int /\ h.sec \in Int
        BY <2>1, SMT DEF fillHMS
      <3>3. (julian - K) * kSecondsPerDay \in Int
        BY <1>4, <1>6, SMT DEF kSecondsPerDay
      <3> HIDE DEF h, K
      <3> DEFINE x == (julian - K) * kSecondsPerDay
      <3> HIDE DEF x
      <3>4. x + h.hour * 3600 + h.min * 60 + h.sec = x + s
        BY <2>4, <3>2, <3>3, SMT DEF x
      <3> QED
        BY <3>1, <3>4, SMT DEF x
    <2> HIDE DEF h, t
    <2>6. /\ utc.ymd = civil /\ utc.yday = yday
          /\ utc.wday = (Saturday + julian - FirstJulian(1600)) % 7
          /\ 3600 * utc.hms.hour + 60 * utc.hms.min + utc.hms.sec = s
          /\ utc.hms.hour < 24
          /\ fromUtcTime(utc.ymd, utc.hms) = t
      BY <1>8, <2>3, <2>4, <2>5, SMT
    <2> QED
      BY <2>6, SMT DEF utc, t
  <1>10. UtcRoundTrip
    BY <1>9, Zenon DEF UtcRoundTrip
  <1> QED
    BY <1>5, <1>10 DEF DateInv

\* For every year from 1600 on, days and times are converted both ways as the
\* calendar says.
THEOREM DatesAreRight == DateSpec => []DateInv
  <1>1. DateInit => DateIInv
    BY DateInitIInv
  <1>2. DateIInv /\ [NextDay]_dateVars => DateIInv'
    <2>1. ASSUME DateIInv, UNCHANGED dateVars PROVE DateIInv'
      BY <2>1 DEF DateIInv, dateVars
    <2> QED
      BY <2>1, NextDayIInv
  <1>3. DateIInv => DateInv
    BY DateIInvGives
  <1> QED
    BY <1>1, <1>2, <1>3, PTL DEF DateSpec

-----------------------------------------------------------------------------
(* Time zones                                                                *)

(* x lies after p transitions, by time or by local time *)
After(data, x, compareGmt, p) ==
  LET T == data.transitions
  IN  /\ p \in 0 .. Len(T)
      /\ p > 0 => Key(T[p], compareGmt) <= x
      /\ p < Len(T) => x < Key(T[p + 1], compareGmt)

(* Two transitions are far enough apart: their times g and h, and the offsets *)
(* before, between and after them                                             *)
Spaced(g, h, a, b, c) ==
  g < h /\ g + b < h + c /\ g + a < h + c /\ g + (a - b) < h

(* What is known of the table of a zone *)
ZoneRight(data) ==
  LET T == data.transitions
      n == Len(T)
  IN  /\ n \in Nat /\ DOMAIN T = 1 .. n /\ (T = << >> <=> n = 0)
      /\ \A p \in 0 .. n : TypeAfter(data, p).off \in Int /\ TypeAfter(data, p).dst \in BOOLEAN
      /\ \A i \in 1 .. n : /\ T[i].gmttime \in Int
                           /\ T[i].localtime = T[i].gmttime + TypeAfter(data, i).off
      /\ \A i \in 1 .. n - 1 : Spaced(T[i].gmttime, T[i + 1].gmttime, TypeAfter(data, i - 1).off,
                                       TypeAfter(data, i).off, TypeAfter(data, i + 1).off)

\* A function that grows from each number to the next grows.
LEMMA Grows ==
    ASSUME NEW n \in Nat, NEW f, \A i \in 1 .. n : f[i] \in Int,
           \A i \in 1 .. n - 1 : f[i] < f[i + 1]
    PROVE  \A i, j \in 1 .. n : i < j => f[i] < f[j]
  <1> DEFINE T == {k \in Nat : \A i \in 1 .. n : i + k + 1 <= n => f[i] < f[i + k + 1]}
  <1>1. 0 \in T
    OBVIOUS
  <1>2. ASSUME NEW k \in T PROVE k + 1 \in T
    <2> SUFFICES ASSUME NEW i \in 1 .. n, i + (k + 1) + 1 <= n
                 PROVE  f[i] < f[i + (k + 1) + 1]
      BY <1>2
    <2> DEFINE m == i + k + 1
    <2>1. m \in 1 .. n - 1 /\ m + 1 = i + (k + 1) + 1 /\ m + 1 \in 1 .. n
      BY <1>2
    <2>2. f[i] < f[m]
      BY <1>2, <2>1
    <2>3. f[m] < f[m + 1]
      BY <2>1
    <2>4. f[i] \in Int /\ f[m] \in Int /\ f[m + 1] \in Int
      BY <2>1
    <2> QED
      BY <2>1, <2>2, <2>3, <2>4
  <1>3. T = Nat
    <2>1. T \subseteq Nat
      OBVIOUS
    <2> HIDE DEF T
    <2> QED
      BY <1>1, <1>2, <2>1, SetInduction
  <1> SUFFICES ASSUME NEW i \in 1 .. n, NEW j \in 1 .. n, i < j
               PROVE  f[i] < f[j]
    OBVIOUS
  <1>4. j - i - 1 \in T
    <2>1. j - i - 1 \in Nat
      OBVIOUS
    <2> HIDE DEF T
    <2> QED
      BY <1>3, <2>1
  <1>5. i + (j - i - 1) + 1 = j
    OBVIOUS
  <1> QED
    BY <1>4, <1>5

\* The keys are sorted, which std::lower_bound needs.
LEMMA KeysSorted ==
    ASSUME NEW data, ZoneRight(data), NEW b \in BOOLEAN
    PROVE  LET T == data.transitions
           IN  /\ \A i \in 1 .. Len(T) : Key(T[i], b) \in Int
               /\ \A i, j \in 1 .. Len(T) : i < j => Key(T[i], b) < Key(T[j], b)
  <1> DEFINE T == data.transitions
             n == Len(T)
             f == [i \in 1 .. n |-> Key(T[i], b)]
             o(i) == TypeAfter(data, i).off
  <1>1. n \in Nat
    BY DEF ZoneRight
  <1>2. \A i \in 1 .. n : T[i].gmttime \in Int /\ T[i].localtime = T[i].gmttime + o(i) /\ o(i) \in Int
    BY DEF ZoneRight
  <1>3. \A i \in 1 .. n - 1 :
          Spaced(T[i].gmttime, T[i + 1].gmttime, o(i - 1), o(i), o(i + 1))
    BY DEF ZoneRight
  <1> HIDE DEF o, n, T
  <1>5. \A i \in 1 .. n : f[i] \in Int
    BY <1>2 DEF Key
  <1>6. ASSUME NEW i \in 1 .. n - 1 PROVE f[i] < f[i + 1]
    <2>1. i \in 1 .. n /\ i + 1 \in 1 .. n
      BY <1>1
    <2>2. T[i].gmttime \in Int /\ T[i + 1].gmttime \in Int /\ o(i) \in Int /\ o(i + 1) \in Int
      BY <1>2, <2>1
    <2>3. T[i].localtime = T[i].gmttime + o(i) /\ T[i + 1].localtime = T[i + 1].gmttime + o(i + 1)
      BY <1>2, <2>1
    <2>4. Spaced(T[i].gmttime, T[i + 1].gmttime, o(i - 1), o(i), o(i + 1))
      BY <1>3
    <2>5. T[i].gmttime < T[i + 1].gmttime /\ T[i].localtime < T[i + 1].localtime
      BY <2>2, <2>3, <2>4 DEF Spaced
    <2> QED
      BY <2>1, <2>5 DEF Key
  <1>7. \A i, j \in 1 .. n : i < j => f[i] < f[j]
    <2> HIDE DEF f
    <2> QED
      BY <1>1, <1>5, <1>6, Grows
  <1>8. \A i \in 1 .. n : Key(T[i], b) = f[i]
    OBVIOUS
  <1> HIDE DEF f
  <1>9. /\ \A i \in 1 .. n : Key(T[i], b) \in Int
        /\ \A i, j \in 1 .. n : i < j => Key(T[i], b) < Key(T[j], b)
    BY <1>5, <1>7, <1>8
  <1> QED
    BY <1>9 DEF n, T

\* findLocaltime gives the type of the transitions passed.
LEMMA FindsType ==
    ASSUME NEW data, ZoneRight(data), NEW b \in BOOLEAN, NEW x \in Int, NEW p,
           After(data, x, b, p)
    PROVE  findLocaltime(data, x, b) = TypeAfter(data, p)
  <1> DEFINE T == data.transitions
             n == Len(T)
             key(i) == Key(T[i], b)
             lower == {i \in DOMAIN T : key(i) >= x}
             i == Min(lower)
  <1>1. /\ \A k \in 1 .. n : key(k) \in Int
        /\ \A k, j \in 1 .. n : k < j => key(k) < key(j)
    BY KeysSorted
  <1>2. n \in Nat /\ DOMAIN T = 1 .. n /\ (T = << >> <=> n = 0)
    BY DEF ZoneRight
  <1>3. p \in 0 .. n /\ (p > 0 => key(p) <= x) /\ (p < n => x < key(p + 1))
    BY DEF After
  <1>4. findLocaltime(data, x, b) =
          IF T = << >> \/ x < key(1) THEN data.localtimes[1]
          ELSE IF lower = {} THEN data.localtimes[T[n].localtimeIdx]
          ELSE IF key(i) = x THEN data.localtimes[T[i].localtimeIdx]
          ELSE data.localtimes[T[i - 1].localtimeIdx]
    BY DEF findLocaltime
  <1>5. lower \subseteq 1 .. n /\ lower \subseteq Nat /\ \A k \in 1 .. n : k \in lower <=> key(k) >= x
    BY <1>2
  <1>6. lower # {} => i \in lower /\ \A k \in lower : i <= k
    <2> HIDE DEF lower
    <2> QED
      BY <1>5, MinFacts
  <1>7. TypeAfter(data, p) = IF p = 0 THEN data.localtimes[1] ELSE data.localtimes[T[p].localtimeIdx]
    BY DEF TypeAfter
  <1> HIDE DEF i, lower, key, n, T
  <1>8. CASE p = 0
    <2>1. T = << >> \/ x < key(1)
      BY <1>2, <1>3, <1>8
    <2> QED
      BY <1>4, <1>7, <1>8, <2>1
  <1>9. CASE p # 0
    <2>1. p \in 1 .. n /\ key(p) <= x /\ T # << >>
      BY <1>2, <1>3, <1>9
    <2>2. ~(x < key(1))
      <3>1. 1 \in 1 .. n /\ (1 < p \/ p = 1)
        BY <1>2, <2>1
      <3>2. key(1) <= key(p)
        BY <1>1, <2>1, <3>1
      <3> QED
        BY <1>1, <2>1, <3>1, <3>2
    <2>3. CASE key(p) = x
      <3>1. p \in lower
        BY <1>1, <1>5, <2>1, <2>3
      <3>2. i \in lower /\ i <= p /\ i \in 1 .. n /\ key(i) >= x
        BY <1>5, <1>6, <3>1
      <3>3. i = p
        <4>1. CASE i < p
          <5>1. key(i) < key(p)
            BY <1>1, <2>1, <3>2, <4>1
          <5> QED
            BY <1>1, <2>1, <2>3, <3>2, <5>1
        <4> QED
          BY <2>1, <3>2, <4>1
      <3> QED
        BY <1>4, <1>7, <1>9, <2>1, <2>2, <2>3, <3>1, <3>3
    <2>4. CASE key(p) # x
      <3>1. key(p) < x
        BY <1>1, <2>1, <2>4
      <3>2. \A k \in 1 .. n : k <= p => k \notin lower
        <4> SUFFICES ASSUME NEW k \in 1 .. n, k <= p PROVE k \notin lower
          OBVIOUS
        <4>1. k = p \/ k < p
          BY <2>1
        <4>2. key(k) <= key(p)
          BY <1>1, <2>1, <4>1
        <4> QED
          BY <1>1, <1>5, <2>1, <3>1, <4>2
      <3>3. CASE p = n
        <4>1. lower = {}
          BY <1>2, <1>5, <3>2, <3>3
        <4> QED
          BY <1>4, <1>7, <1>9, <2>1, <2>2, <3>3, <4>1
      <3>4. CASE p # n
        <4>1. p + 1 \in 1 .. n /\ x < key(p + 1)
          BY <1>2, <1>3, <2>1, <3>4
        <4>2. p + 1 \in lower
          BY <1>1, <1>5, <4>1
        <4>3. i \in lower /\ i <= p + 1 /\ i \in 1 .. n
          BY <1>5, <1>6, <4>2
        <4>4. i = p + 1
          BY <2>1, <3>2, <4>3
        <4>5. key(i) # x /\ i - 1 = p /\ lower # {}
          BY <1>1, <2>1, <4>1, <4>2, <4>4
        <4> QED
          BY <1>4, <1>7, <1>9, <2>1, <2>2, <4>5
      <3> QED
        BY <3>3, <3>4
    <2> QED
      BY <2>3, <2>4
  <1> QED
    BY <1>8, <1>9

\* Every time lies after some number of transitions.
LEMMA TimeHasPlace ==
    ASSUME NEW data, ZoneRight(data), NEW b \in BOOLEAN, NEW x \in Int
    PROVE  \E p \in 0 .. Len(data.transitions) : After(data, x, b, p)
  <1> DEFINE T == data.transitions
             n == Len(T)
             key(i) == Key(T[i], b)
             S == {i \in 1 .. n : x < key(i)}
  <1>1. n \in Nat
    BY DEF ZoneRight
  <1>2. \A i \in 1 .. n : key(i) \in Int
    BY KeysSorted
  <1> HIDE DEF n
  <1>3. CASE S = {}
    <2>1. n \in 0 .. n /\ (n > 0 => key(n) <= x)
      BY <1>1, <1>2, <1>3
    <2>2. After(data, x, b, n)
      BY <1>1, <2>1 DEF After, n
    <2> QED
      BY <2>1, <2>2 DEF n
  <1>4. CASE S # {}
    <2> DEFINE m == Min(S)
               p == m - 1
    <2>1. m \in S /\ \A i \in S : m <= i
      <3>1. S \subseteq Nat
        OBVIOUS
      <3> HIDE DEF S
      <3> QED
        BY <1>4, <3>1, MinFacts
    <2> HIDE DEF m
    <2>2. m \in 1 .. n /\ x < key(m)
      BY <2>1
    <2>3. p \in 0 .. n /\ p + 1 = m
      BY <1>1, <2>2
    <2>4. p > 0 => key(p) <= x
      <3> SUFFICES ASSUME p > 0 PROVE key(p) <= x
        OBVIOUS
      <3>1. p \in 1 .. n /\ p \notin S
        BY <1>1, <2>1, <2>2
      <3> QED
        BY <1>2, <3>1
    <2> HIDE DEF p
    <2>5. After(data, x, b, p)
      BY <2>2, <2>3, <2>4 DEF After, n
    <2> QED
      BY <2>3, <2>5 DEF n
  <1> QED
    BY <1>3, <1>4

\* Local time is the time with the offset in force.
LEMMA LocalIsShifted ==
    ASSUME NEW data, ZoneRight(data), NEW t \in Int, NEW p, After(data, t, TRUE, p)
    PROVE  toLocalTime(data, t) = [seconds |-> t + TypeAfter(data, p).off,
                                   isdst |-> TypeAfter(data, p).dst]
  <1>1. findLocaltime(data, t, TRUE) = TypeAfter(data, p)
    BY FindsType
  <1> QED
    BY <1>1 DEF toLocalTime

\* Local time leads back to the time, but where it comes again after a transition
\* that does not end summer time.
LEMMA LocalLeadsBack ==
    ASSUME ZoneRight(zone), gmt \in Int
    PROVE  LocalRoundTrip
  <1> DEFINE t == gmt
             T == zone.transitions
             n == Len(T)
             G(i) == T[i].gmttime
             o(i) == TypeAfter(zone, i).off
  <1>1. PICK p \in 0 .. n : After(zone, t, TRUE, p)
    BY TimeHasPlace
  <1>2. n \in Nat /\ DOMAIN T = 1 .. n
    BY DEF ZoneRight
  <1>3. /\ \A i \in 1 .. n : G(i) \in Int /\ T[i].localtime = G(i) + o(i)
        /\ \A i \in 0 .. n : o(i) \in Int
        /\ \A i \in 1 .. n - 1 : Spaced(G(i), G(i + 1), o(i - 1), o(i), o(i + 1))
    BY DEF ZoneRight
  <1>4. \A i \in 0 .. n : TypeAfter(zone, i).dst \in BOOLEAN
    BY DEF ZoneRight
  <1>5. (p > 0 => G(p) <= t) /\ (p < n => t < G(p + 1))
    BY <1>1 DEF After, Key
  <1> DEFINE s == t + o(p)
             tm == [seconds |-> s, isdst |-> TypeAfter(zone, p).dst]
             again == {i \in DOMAIN T : t < G(i) /\ T[i].localtime <= s}
  <1>6. toLocalTime(zone, t) = tm
    BY <1>1, LocalIsShifted
  <1>7. tm.seconds = s /\ tm.isdst = TypeAfter(zone, p).dst
    OBVIOUS
  <1>8. fromLocalTime(zone, tm) =
          LET local == findLocaltime(zone, s, FALSE)
              tryTm == toLocalTime(zone, s - local.off)
          IN  IF tm.isdst /\ ~tryTm.isdst /\ Minute(tryTm.seconds) = Minute(s)
              THEN s - Hour - local.off
              ELSE s - local.off
    BY <1>7 DEF fromLocalTime
  <1>9. s \in Int /\ o(p) \in Int
    BY <1>1, <1>3
  <1>10. SUFFICES fromLocalTime(zone, tm) = t <=> \A i \in again : SummerEnds(zone, i)
    <2> HIDE DEF s, G
    <2>1. again = {i \in DOMAIN zone.transitions : gmt < zone.transitions[i].gmttime
                      /\ zone.transitions[i].localtime <= toLocalTime(zone, gmt).seconds}
      BY <1>6, <1>7, Zenon DEF G
    <2> HIDE DEF again, tm, T
    <2> QED
      BY <1>6, <1>10, <2>1, Zenon DEF LocalRoundTrip
  <1> HIDE DEF n, tm
  <1>11. \A i \in 1 .. n : (p < i /\ T[p + 1].localtime <= T[i].localtime) \/ (i <= p /\ G(i) <= t)
    <2> SUFFICES ASSUME NEW i \in 1 .. n
                 PROVE  (p < i /\ T[p + 1].localtime <= T[i].localtime) \/ (i <= p /\ G(i) <= t)
      OBVIOUS
    <2>1. CASE p < i
      <3>1. p + 1 \in 1 .. n /\ (p + 1 = i \/ p + 1 < i)
        BY <1>1, <1>2, <2>1
      <3>2. T[p + 1].localtime \in Int /\ T[i].localtime \in Int
            /\ (p + 1 < i => T[p + 1].localtime < T[i].localtime)
        BY <3>1, KeysSorted DEF Key, n
      <3> QED
        BY <2>1, <3>1, <3>2
    <2>2. CASE ~(p < i)
      <3>1. i <= p /\ p \in 1 .. n /\ (i = p \/ i < p)
        BY <1>1, <1>2, <2>2
      <3>2. G(i) \in Int /\ G(p) \in Int /\ (i < p => G(i) < G(p))
        BY <3>1, KeysSorted DEF Key, n
      <3>3. G(p) <= t
        BY <1>1, <1>2, <1>5, <3>1
      <3> HIDE DEF G
      <3> QED
        BY <3>1, <3>2, <3>3
    <2> QED
      BY <2>1, <2>2
  <1>12. CASE p = n \/ s < T[p + 1].localtime
    <2>1. After(zone, s, FALSE, p)
      <3>1. p > 0 => T[p].localtime <= s
        BY <1>1, <1>3, <1>5, <1>9
      <3> QED
        BY <1>1, <1>12, <3>1 DEF After, Key, n
    <2>2. findLocaltime(zone, s, FALSE) = TypeAfter(zone, p)
      BY <1>9, <2>1, FindsType
    <2>3. s - o(p) = t
      BY <1>9
    <2>4. toLocalTime(zone, s - TypeAfter(zone, p).off) = tm
      BY <1>6, <2>3
    <2>5. fromLocalTime(zone, tm) = s - TypeAfter(zone, p).off
      <3> HIDE DEF s, o
      <3> QED
        BY <1>8, <2>2, <2>4
    <2>6. again = {}
      <3> SUFFICES ASSUME NEW i \in 1 .. n, t < G(i), T[i].localtime <= s PROVE FALSE
        BY <1>2
      <3>1. G(i) \in Int /\ T[i].localtime \in Int
        BY <1>3, KeysSorted DEF Key, n
      <3>2. p < i /\ T[p + 1].localtime <= T[i].localtime
        BY <1>11, <3>1
      <3>3. p + 1 \in 1 .. n /\ p # n
        BY <1>1, <1>2, <3>2
      <3>4. T[p + 1].localtime \in Int
        BY <3>3, KeysSorted DEF Key, n
      <3> HIDE DEF s
      <3> QED
        BY <1>9, <1>12, <3>1, <3>2, <3>3, <3>4
    <2> HIDE DEF again, s
    <2> QED
      BY <2>3, <2>5, <2>6
  <1>13. CASE p # n /\ ~(s < T[p + 1].localtime)
    <2>1. p \in 0 .. n - 1 /\ p + 1 \in 1 .. n /\ p + 1 \in 0 .. n
      BY <1>1, <1>2, <1>13
    <2>2. /\ G(p + 1) \in Int /\ o(p + 1) \in Int /\ t < G(p + 1)
          /\ T[p + 1].localtime = G(p + 1) + o(p + 1)
          /\ ~(s < G(p + 1) + o(p + 1))
      <3>1. G(p + 1) \in Int /\ T[p + 1].localtime = G(p + 1) + o(p + 1)
        BY <1>3, <2>1
      <3>2. o(p + 1) \in Int
        BY <1>3, <2>1
      <3>3. t < G(p + 1)
        BY <1>1, <1>2, <1>5, <1>13
      <3> HIDE DEF G, o, s
      <3> QED
        BY <1>13, <3>1, <3>2, <3>3
    <2> DEFINE back == o(p) - o(p + 1)
    <2>3. back \in Int /\ back > 0
      <3> HIDE DEF G, o
      <3> QED
        BY <1>9, <2>2
    <2>4. p + 1 < n => /\ Spaced(G(p + 1), G(p + 2), o(p), o(p + 1), o(p + 2))
                       /\ G(p + 2) \in Int /\ o(p + 2) \in Int /\ p + 2 \in 1 .. n
                       /\ T[p + 2].localtime = G(p + 2) + o(p + 2)
      <3> SUFFICES ASSUME p + 1 < n
                   PROVE  /\ Spaced(G(p + 1), G(p + 2), o(p), o(p + 1), o(p + 2))
                          /\ G(p + 2) \in Int /\ o(p + 2) \in Int /\ p + 2 \in 1 .. n
                          /\ T[p + 2].localtime = G(p + 2) + o(p + 2)
        OBVIOUS
      <3>1. p + 1 \in 1 .. n - 1 /\ p + 2 \in 1 .. n /\ p + 2 \in 0 .. n
            /\ (p + 1) + 1 = p + 2 /\ (p + 1) - 1 = p
        BY <1>2, <2>1
      <3>2. Spaced(G(p + 1), G((p + 1) + 1), o((p + 1) - 1), o(p + 1), o((p + 1) + 1))
        BY <1>3, <3>1
      <3> QED
        BY <1>3, <3>1, <3>2
    <2>5. again = {p + 1}
      <3>1. p + 1 \in again
        <4> HIDE DEF s, G, o
        <4> QED
          BY <1>2, <1>9, <2>1, <2>2
      <3>2. ASSUME NEW i \in 1 .. n, t < G(i), T[i].localtime <= s PROVE i = p + 1
        <4>1. G(i) \in Int
          BY <1>3
        <4>2. p < i
          BY <1>11, <3>2, <4>1
        <4>3. CASE i # p + 1
          <5>1. p + 1 < n /\ p + 2 \in 1 .. n /\ (i = p + 2 \/ p + 2 < i)
            BY <1>1, <1>2, <4>2, <4>3
          <5>2. T[p + 2].localtime \in Int /\ T[i].localtime \in Int
                /\ (p + 2 < i => T[p + 2].localtime < T[i].localtime)
            BY <5>1, KeysSorted DEF Key, n
          <5> HIDE DEF G, o
          <5>3. s < T[p + 2].localtime
            BY <1>9, <2>2, <2>4, <5>1 DEF Spaced
          <5> HIDE DEF s
          <5> QED
            BY <1>9, <3>2, <5>1, <5>2, <5>3
        <4> QED
          BY <4>3
      <3> QED
        BY <1>2, <3>1, <3>2
    <2> HIDE DEF G, o, again
    <2>6. After(zone, s, FALSE, p + 1)
      <3>1. T[p + 1].localtime <= s
        BY <1>9, <2>2
      <3>2. p + 1 < n => s < T[p + 2].localtime
        BY <1>9, <2>2, <2>4 DEF Spaced
      <3>3. (p + 1) + 1 = p + 2
        BY <2>1
      <3> HIDE DEF T, s
      <3> QED
        BY <2>1, <3>1, <3>2, <3>3 DEF After, Key, n, T
    <2>7. findLocaltime(zone, s, FALSE) = TypeAfter(zone, p + 1)
      BY <1>9, <2>6, FindsType
    <2>8. s - o(p + 1) = t + back
      BY <1>9, <2>2
    <2>9. t + back \in Int /\ After(zone, t + back, TRUE, p + 1)
      <3>1. G(p + 1) <= t + back
        BY <1>9, <2>2
      <3>2. p + 1 < n => t + back < G(p + 2)
        BY <1>9, <2>2, <2>4 DEF Spaced
      <3>3. (p + 1) + 1 = p + 2
        BY <2>1
      <3> HIDE DEF T, back
      <3>4. After(zone, t + back, TRUE, p + 1)
        BY <2>1, <3>1, <3>2, <3>3 DEF After, Key, n, T, G
      <3>5. t + back \in Int
        BY <2>3
      <3> QED
        BY <3>4, <3>5
    <2>10. toLocalTime(zone, t + back) = [seconds |-> (t + back) + o(p + 1),
                                          isdst |-> TypeAfter(zone, p + 1).dst]
      <3> HIDE DEF back
      <3> QED
        BY <2>9, LocalIsShifted DEF o
    <2>11. /\ (t + back) + o(p + 1) = s /\ Hour \in Int
           /\ s - o(p + 1) # t
           /\ s - Hour - o(p + 1) = t <=> back = Hour
      BY <1>9, <2>2, <2>3, HourAssumption
    <2> HIDE DEF s
    <2>12. toLocalTime(zone, s - TypeAfter(zone, p + 1).off)
             = [seconds |-> s, isdst |-> TypeAfter(zone, p + 1).dst]
      <3> HIDE DEF back
      <3> QED
        BY <2>8, <2>10, <2>11, Zenon DEF o
    <2> DEFINE q == TypeAfter(zone, p + 1)
               r == TypeAfter(zone, p)
    <2>13. fromLocalTime(zone, tm) = IF r.dst /\ ~q.dst THEN s - Hour - q.off ELSE s - q.off
      <3> DEFINE tryTm == toLocalTime(zone, s - q.off)
      <3>1. tm.isdst = r.dst
        BY <1>7
      <3> HIDE DEF q, r
      <3>2. fromLocalTime(zone, tm) =
              IF tm.isdst /\ ~tryTm.isdst /\ Minute(tryTm.seconds) = Minute(s)
              THEN s - Hour - q.off ELSE s - q.off
        BY <1>8, <2>7, Zenon DEF q
      <3>3. tryTm = [seconds |-> s, isdst |-> q.dst]
        BY <2>12 DEF q
      <3> HIDE DEF tryTm
      <3>4. tryTm.seconds = s /\ tryTm.isdst = q.dst
        BY <3>3
      <3> QED
        BY <3>1, <3>2, <3>4
    <2>14. SummerEnds(zone, p + 1) <=> r.dst /\ ~q.dst /\ back = Hour
      <3>1. (p + 1) - 1 = p
        BY <2>1
      <3> QED
        BY <3>1 DEF SummerEnds, o
    <2>15. o(p + 1) = q.off
      BY DEF o
    <2> HIDE DEF q, r, back
    <2>16. fromLocalTime(zone, tm) = t <=> r.dst /\ ~q.dst /\ back = Hour
      BY <2>11, <2>13, <2>15
    <2> QED
      BY <2>5, <2>14, <2>16
  <1> QED
    BY <1>12, <1>13

\* The clock moves on, and shows the local time of the table at a transition.
LEMMA ClockMoves ==
    ASSUME ZoneRight(zone), gmt \in Int
    PROVE  ClockFollowsTransitions
  <1> DEFINE T == zone.transitions
             n == Len(T)
             G(i) == T[i].gmttime
             o(i) == TypeAfter(zone, i).off
             shown == toLocalTime(zone, gmt).seconds
             later == toLocalTime(zone, gmt + 1).seconds
             at == {i \in DOMAIN T : G(i) = gmt + 1}
  <1>1. PICK p \in 0 .. n : After(zone, gmt, TRUE, p)
    BY TimeHasPlace
  <1>2. n \in Nat /\ DOMAIN T = 1 .. n
    BY DEF ZoneRight
  <1>3. /\ \A i \in 1 .. n : G(i) \in Int /\ T[i].localtime = G(i) + o(i)
        /\ \A i \in 0 .. n : o(i) \in Int
    BY DEF ZoneRight
  <1>4. \A i, j \in 1 .. n : i < j => G(i) < G(j)
    BY KeysSorted DEF Key
  <1>5. (p > 0 => G(p) <= gmt) /\ (p < n => gmt < G(p + 1))
    BY <1>1 DEF After, Key
  <1>6. shown = gmt + o(p)
    <2>1. toLocalTime(zone, gmt) = [seconds |-> gmt + TypeAfter(zone, p).off,
                                    isdst |-> TypeAfter(zone, p).dst]
      BY <1>1, LocalIsShifted, Zenon
    <2> QED
      BY <2>1
  <1>7. ASSUME NEW r, After(zone, gmt + 1, TRUE, r)
        PROVE  later = gmt + 1 + o(r)
    <2>1. gmt + 1 \in Int
      OBVIOUS
    <2>2. toLocalTime(zone, gmt + 1) = [seconds |-> (gmt + 1) + TypeAfter(zone, r).off,
                                        isdst |-> TypeAfter(zone, r).dst]
      BY <1>7, <2>1, LocalIsShifted, Zenon
    <2> QED
      BY <2>2
  <1> HIDE DEF n
  <1>8. ASSUME NEW i \in at PROVE later = T[i].localtime
    <2>1. i \in 1 .. n /\ G(i) = gmt + 1 /\ i \in 0 .. n
      BY <1>2
    <2>2. i < n => gmt + 1 < G(i + 1)
      <3> SUFFICES ASSUME i < n PROVE gmt + 1 < G(i + 1)
        OBVIOUS
      <3>1. i + 1 \in 1 .. n /\ i < i + 1
        BY <1>2, <2>1
      <3> QED
        BY <1>4, <2>1, <3>1
    <2>3. After(zone, gmt + 1, TRUE, i)
      BY <2>1, <2>2 DEF After, Key, n
    <2>4. later = gmt + 1 + o(i) /\ T[i].localtime = G(i) + o(i)
      BY <1>3, <1>7, <2>1, <2>3
    <2> HIDE DEF later, G, o
    <2> QED
      BY <2>1, <2>4
  <1>9. ASSUME at = {} PROVE later = shown + 1
    <2>1. p < n => gmt + 1 < G(p + 1)
      <3> SUFFICES ASSUME p < n PROVE gmt + 1 < G(p + 1)
        OBVIOUS
      <3>1. p + 1 \in 1 .. n
        BY <1>1, <1>2
      <3>2. G(p + 1) \in Int /\ G(p + 1) # gmt + 1
        BY <1>2, <1>3, <1>9, <3>1
      <3> HIDE DEF G
      <3> QED
        BY <1>5, <3>2
    <2>2. p > 0 => G(p) <= gmt + 1
      <3> SUFFICES ASSUME p > 0 PROVE G(p) <= gmt + 1
        OBVIOUS
      <3>1. p \in 1 .. n /\ G(p) \in Int
        BY <1>1, <1>2, <1>3
      <3> HIDE DEF G
      <3> QED
        BY <1>5, <3>1
    <2>3. After(zone, gmt + 1, TRUE, p)
      BY <1>1, <2>1, <2>2 DEF After, Key, n
    <2>4. later = gmt + 1 + o(p) /\ o(p) \in Int
      BY <1>1, <1>3, <1>7, <2>3
    <2> HIDE DEF o, shown, later
    <2> QED
      BY <1>6, <2>4
  <1> HIDE DEF shown, later
  <1>10. IF at = {} THEN later = shown + 1 ELSE \A i \in at : later = T[i].localtime
    BY <1>8, <1>9
  <1> QED
    BY <1>10, Zenon DEF ClockFollowsTransitions, shown, later

(* The table is that of a file and stays so. *)
ZoneIInv == ZoneRight(zone) /\ gmt \in Int

\* What readTimeZoneFile makes of a file
LEMMA FileIsRead ==
    ASSUME NEW f \in ZoneFiles
    PROVE  ZoneRight(readTimeZoneFile(f))
  <1> DEFINE data == readTimeZoneFile(f)
             F == f.trans
             T == data.transitions
             n == Len(F)
             typ(p) == IF p = 0 THEN f.types[1] ELSE f.types[f.idx[p]]
  <1>1. /\ f.types \in Seq([off : Int, dst : BOOLEAN]) /\ f.types # << >>
        /\ F \in Seq(Int) /\ f.idx \in [DOMAIN F -> DOMAIN f.types]
        /\ \A i \in 1 .. Len(F) - 1 : F[i] + Move(f, i) + Move(f, i + 1) < F[i + 1]
    BY ZoneAssumption, Zenon
  <1>2. n \in Nat /\ DOMAIN F = 1 .. n /\ \A i \in 1 .. n : F[i] \in Int
    BY <1>1
  <1>3. T = [i \in DOMAIN F |-> [gmttime |-> F[i], localtime |-> F[i] + f.types[f.idx[i]].off,
                                 localtimeIdx |-> f.idx[i]]]
        /\ data.localtimes = f.types
    BY DEF readTimeZoneFile
  <1>4. DOMAIN T = 1 .. n /\ Len(T) = n
    BY <1>2, <1>3
  <1>5. \A i \in 1 .. n : /\ T[i].gmttime = F[i] /\ T[i].localtimeIdx = f.idx[i]
                          /\ T[i].localtime = F[i] + f.types[f.idx[i]].off
    BY <1>2, <1>3
  <1> HIDE DEF T, data
  <1>6. \A p \in 0 .. n : TypeAfter(data, p) = typ(p)
    <2> SUFFICES ASSUME NEW p \in 0 .. n PROVE TypeAfter(data, p) = typ(p)
      OBVIOUS
    <2>1. CASE p = 0
      BY <1>3, <2>1 DEF TypeAfter
    <2>2. CASE p # 0
      <3>1. p \in 1 .. n
        BY <1>2, <2>2
      <3>2. data.transitions[p].localtimeIdx = f.idx[p]
        BY <1>5, <3>1 DEF T
      <3> QED
        BY <1>3, <2>2, <3>2 DEF TypeAfter
    <2> QED
      BY <2>1, <2>2
  <1>7. \A p \in 0 .. n : typ(p) \in [off : Int, dst : BOOLEAN]
    <2>1. \A k \in DOMAIN f.types : f.types[k] \in [off : Int, dst : BOOLEAN]
      <3> DEFINE R == [off : Int, dst : BOOLEAN]
                 ty == f.types
      <3>1. ty \in Seq(R)
        BY <1>1
      <3> HIDE DEF R, ty
      <3>2. \A k \in DOMAIN ty : ty[k] \in R
        BY <3>1
      <3> QED
        BY <3>2 DEF R, ty
    <2>2. 1 \in DOMAIN f.types
      BY <1>1
    <2>3. \A p \in 1 .. n : f.idx[p] \in DOMAIN f.types
      BY <1>1, <1>2
    <2>4. \A p \in 0 .. n : p = 0 \/ p \in 1 .. n
      BY <1>2
    <2> QED
      BY <2>1, <2>2, <2>3, <2>4
  <1>8. T = << >> <=> n = 0
    <2>1. T = << >> => DOMAIN T = {}
      OBVIOUS
    <2>2. DOMAIN T = {} => T = << >>
      BY <1>3, <1>4
    <2> QED
      BY <1>2, <1>4, <2>1, <2>2
  <1>9. \A p \in 0 .. n : OffsetAfter(f, p) = TypeAfter(data, p).off
    BY <1>6 DEF OffsetAfter
  <1>10. \A p \in 0 .. n : TypeAfter(data, p).off \in Int /\ TypeAfter(data, p).dst \in BOOLEAN
    <2> HIDE DEF typ
    <2> QED
      BY <1>6, <1>7
  <1>11. \A i \in 1 .. n : /\ T[i].gmttime \in Int
                           /\ T[i].localtime = T[i].gmttime + TypeAfter(data, i).off
    <2> SUFFICES ASSUME NEW i \in 1 .. n
                 PROVE  /\ T[i].gmttime \in Int
                        /\ T[i].localtime = T[i].gmttime + TypeAfter(data, i).off
      OBVIOUS
    <2>1. i \in 0 .. n /\ i # 0
      BY <1>2
    <2>2. TypeAfter(data, i) = f.types[f.idx[i]]
      BY <1>6, <2>1
    <2>3. T[i].gmttime = F[i] /\ T[i].localtime = F[i] + f.types[f.idx[i]].off /\ F[i] \in Int
      BY <1>2, <1>5
    <2> QED
      BY <2>2, <2>3, Zenon
  <1>12. ASSUME NEW i \in 1 .. n - 1
         PROVE  Spaced(T[i].gmttime, T[i + 1].gmttime, TypeAfter(data, i - 1).off,
                       TypeAfter(data, i).off, TypeAfter(data, i + 1).off)
    <2> DEFINE a == OffsetAfter(f, i - 1)
               b == OffsetAfter(f, i)
               c == OffsetAfter(f, i + 1)
               g == F[i]
               h == F[i + 1]
               j == i + 1
    <2>1. i \in 1 .. n /\ j \in 1 .. n /\ i - 1 \in 0 .. n /\ i \in 0 .. n /\ j \in 0 .. n /\ j - 1 = i
      BY <1>2
    <2>2. TypeAfter(data, i - 1).off = a /\ TypeAfter(data, i).off = b /\ TypeAfter(data, j).off = c
      BY <1>9, <2>1
    <2>3. a \in Int /\ b \in Int /\ c \in Int /\ g \in Int /\ h \in Int
      BY <1>2, <1>10, <2>1, <2>2
    <2>4. T[i].gmttime = g /\ T[j].gmttime = h
      BY <1>5, <2>1
    <2>5. Move(f, i) = (IF b - a < 0 THEN -(b - a) ELSE b - a)
      BY DEF Move
    <2>6. Move(f, j) = (IF c - b < 0 THEN -(c - b) ELSE c - b)
      BY <2>1 DEF Move
    <2>7. g + Move(f, i) + Move(f, j) < h
      BY <1>1, <1>2
    <2> HIDE DEF a, b, c, g, h
    <2>8. Spaced(g, h, a, b, c)
      BY <2>3, <2>5, <2>6, <2>7 DEF Spaced
    <2> QED
      BY <2>2, <2>4, <2>8
  <1> HIDE DEF n
  <1>14. ZoneRight(data)
    BY <1>2, <1>4, <1>8, <1>10, <1>11, <1>12 DEF ZoneRight, T
  <1> QED
    BY <1>14 DEF data

\* In every zone whose transitions are further apart than they move the clock,
\* the clock follows the transitions and local time leads back to the time, but
\* where it comes again after a transition that does not end summer time.
THEOREM ZonesAreRight == ZoneSpec => []ZoneInv
  <1>1. ZoneInit => ZoneIInv
    <2> SUFFICES ASSUME ZoneInit PROVE ZoneIInv
      OBVIOUS
    <2>1. PICK f \in ZoneFiles : zone = readTimeZoneFile(f)
      BY DEF ZoneInit
    <2>2. ZoneRight(zone)
      BY <2>1, FileIsRead
    <2> QED
      BY <2>2, HourAssumption DEF ZoneInit, ZoneIInv
  <1>2. ZoneIInv /\ [GmtPasses]_zoneVars => ZoneIInv'
    <2> SUFFICES ASSUME ZoneIInv, [GmtPasses]_zoneVars PROVE ZoneIInv'
      OBVIOUS
    <2>1. zone' = zone /\ gmt' \in Int
      BY DEF ZoneIInv, GmtPasses, zoneVars
    <2> QED
      BY <2>1 DEF ZoneIInv
  <1>3. ZoneIInv => ZoneInv
    BY LocalLeadsBack, ClockMoves DEF ZoneIInv, ZoneInv
  <1> QED
    BY <1>1, <1>2, <1>3, PTL DEF ZoneSpec

\* Dates, times and local times are converted both ways as the calendar and
\* the table of the zone say, for every year from 1600 on and every zone
\* whose transitions are further apart than they move the clock.
THEOREM CalendarIsRight == DateSpec /\ ZoneSpec => []CalendarInv
  <1>1. DateInv /\ ZoneInv => CalendarInv
    BY DEF CalendarInv
  <1> QED
    BY <1>1, DatesAreRight, ZonesAreRight, PTL

-----------------------------------------------------------------------------
(* Log lines                                                                 *)

\* The value before a turn of convert, from the value after it and the digit
LEMMA DigitFacts ==
    ASSUME NEW x \in Int, NEW base \in Nat, base >= 2
    PROVE  /\ Quotient(x, base) \in Int /\ lsd(x, base) \in 0 .. base - 1
           /\ Abs(x) = Abs(Quotient(x, base)) * base + lsd(x, base)
  <1> DEFINE q == Quotient(x, base)
             w == q * base
             c == Abs(q) * base
             a == lsd(x, base)
  <1>1. a = Abs(x - w)
    BY DEF lsd
  <1>2. CASE x < 0
    <2> DEFINE y == -x
               p == y \div base
               r == y % base
               z == base * p
    <2>1. y \in Nat /\ x = -y /\ q = -p
      BY <1>2 DEF Quotient
    <2>2. p \in Nat /\ y = base * p + (y % base) /\ y % base \in 0 .. base - 1
      BY <2>1
    <2> HIDE DEF y, p, q
    <2>3. base * p \in Nat /\ q * base = -(base * p) /\ p * base = base * p
      BY <2>1, <2>2
    <2>4. Abs(x) = y /\ Abs(q) = p
      BY <1>2, <2>1, <2>2 DEF Abs
    <2>5. z \in Nat /\ w = -z /\ c = z
      BY <2>3, <2>4
    <2>6. y = z + r /\ r \in 0 .. base - 1 /\ q \in Int
      BY <2>1, <2>2
    <2> HIDE DEF w, z, c, a, r
    <2>7. x - w = -r
      BY <2>1, <2>5, <2>6
    <2>8. a = r
      BY <1>1, <2>6, <2>7 DEF Abs
    <2>9. q \in Int /\ a \in 0 .. base - 1 /\ Abs(x) = c + a
      BY <2>4, <2>5, <2>6, <2>8
    <2> QED
      BY <2>9 DEF q, a, c
  <1>3. CASE ~(x < 0)
    <2> DEFINE r == x % base
               z == base * q
    <2>1. x \in Nat /\ q = x \div base
      BY <1>3 DEF Quotient
    <2> HIDE DEF q
    <2>2. q \in Nat /\ x = z + r /\ r \in 0 .. base - 1
      BY <2>1
    <2>3. z \in Nat /\ w = z
      BY <2>2
    <2>4. Abs(x) = x /\ Abs(q) = q
      BY <2>1, <2>2 DEF Abs
    <2>5. c = z
      BY <2>2, <2>4
    <2> HIDE DEF w, z, c, a, r
    <2>6. x - w = r
      BY <2>2, <2>3
    <2>7. a = r
      BY <1>1, <2>2, <2>6 DEF Abs
    <2>8. q \in Int /\ a \in 0 .. base - 1 /\ Abs(x) = c + a
      BY <2>2, <2>3, <2>4, <2>5, <2>7
    <2> QED
      BY <2>8 DEF q, a, c
  <1> QED
    BY <1>2, <1>3

\* A digit
LEMMA DigitIsInt ==
    ASSUME NEW x \in Int, NEW base \in Nat, base >= 2
    PROVE  lsd(x, base) \in Int
  <1>1. lsd(x, base) \in 0 .. base - 1
    BY DigitFacts
  <1> QED
    BY <1>1

\* What is left of a value after each turn of convert
LEMMA QuotientsFacts ==
    ASSUME NEW x \in Int, NEW base \in Nat, base >= 2
    PROVE  LET i == Quotients(x, base)
           IN  i[0] = x /\ \A k \in Nat : i[k] \in Int /\ i[k + 1] = Quotient(i[k], base)
  <1> DEFINE Q(m) == Quotient(m, base)
             step == [n \in Nat |-> [m \in Int |-> Q(m)]]
  <1>1. \A m \in Int : Q(m) \in Int
    BY DigitFacts
  <1> HIDE DEF Q
  <1>2. step \in [Nat -> [Int -> Int]]
    BY <1>1
  <1>3. PICK f \in [Nat -> Int] : Recurses(f, x, step)
    <2> HIDE DEF step
    <2> QED
      BY <1>2, Recursion
  <1>4. f[0] = x /\ \A k \in Nat : f[k + 1] = Q(f[k])
    BY <1>3 DEF Recurses
  <1>5. f = [k \in Nat |-> IF k = 0 THEN x ELSE Q(f[k - 1])]
    <2>1. ASSUME NEW k \in Nat PROVE f[k] = IF k = 0 THEN x ELSE Q(f[k - 1])
      <3>1. CASE k # 0
        <4>1. k - 1 \in Nat /\ (k - 1) + 1 = k
          BY <3>1
        <4> QED
          BY <1>4, <3>1, <4>1
      <3> QED
        BY <1>4, <3>1
    <2> QED
      BY <2>1
  <1> DEFINE i == Quotients(x, base)
  <1>6. i = [k \in Nat |-> IF k = 0 THEN x ELSE Q(i[k - 1])]
    <2> HIDE DEF step
    <2> QED
      BY <1>5 DEF Quotients, Q
  <1> HIDE DEF i
  <1>7. i[0] = x /\ \A k \in Nat : i[k + 1] = Q(i[k])
    BY <1>6
  <1> DEFINE V == {k \in Nat : i[k] \in Int}
  <1>8. V = Nat
    <2>1. 0 \in V /\ V \subseteq Nat
      BY <1>7
    <2>2. ASSUME NEW k \in V PROVE k + 1 \in V
      BY <1>1, <1>7
    <2> HIDE DEF V
    <2> QED
      BY <2>1, <2>2, SetInduction
  <1>9. \A k \in Nat : i[k] \in Int /\ i[k + 1] = Q(i[k])
    BY <1>7, <1>8
  <1> QED
    BY <1>7, <1>9 DEF i, Q

\* The digits of a number
LEMMA DigitsFacts ==
    ASSUME NEW x \in Int, NEW base \in Nat, base >= 2, NEW m \in Nat, m >= 1,
           m <= kMaxNumericSize, Quotients(x, base)[m] = 0, kMaxNumericSize \in Nat
    PROVE  \E n \in 1 .. m :
             LET i == Quotients(x, base)
             IN  /\ i[n] = 0
                 /\ Digits(x, base) = [j \in 1 .. n |-> lsd(i[n - j], base)]
  <1> DEFINE i == Quotients(x, base)
             S == {k \in 1 .. kMaxNumericSize : i[k] = 0}
             n == Min(S)
  <1>1. m \in S /\ S \subseteq Nat
    OBVIOUS
  <1>2. n \in S /\ n <= m
    <2> HIDE DEF S
    <2> QED
      BY <1>1, MinFacts
  <1>3. n \in 1 .. m /\ i[n] = 0
    BY <1>2
  <1>4. Digits(x, base) = [j \in 1 .. n |-> lsd(i[n - j], base)]
    BY DEF Digits
  <1> HIDE DEF n
  <1> QED
    BY <1>3, <1>4

\* The value of a text, digit by digit
LEMMA ReadFacts ==
    ASSUME NEW text \in Seq(Int), NEW base \in Nat
    PROVE  LET v == ReadDigits(text, base)
           IN  /\ v[0] = 0
               /\ \A j \in 1 .. Len(text) :
                    v[j] = IF text[j] = Minus THEN v[j - 1] ELSE v[j - 1] * base + text[j]
  <1> DEFINE n == Len(text)
             next(j, m) == IF j + 1 \in 1 .. n /\ text[j + 1] # Minus
                           THEN m * base + text[j + 1] ELSE m
             step == [j \in Nat |-> [m \in Int |-> next(j, m)]]
  <1>1. \A j \in Nat, m \in Int : next(j, m) \in Int
    OBVIOUS
  <1>2. \A j \in Nat, m \in Int : j + 1 \in 1 .. n =>
          next(j, m) = IF text[j + 1] = Minus THEN m ELSE m * base + text[j + 1]
    OBVIOUS
  <1> HIDE DEF next
  <1>3. step \in [Nat -> [Int -> Int]] /\ 0 \in Int
    BY <1>1
  <1>4. PICK f \in [Nat -> Int] : Recurses(f, 0, step)
    <2> HIDE DEF step
    <2> QED
      BY <1>3, Recursion
  <1>5. f[0] = 0 /\ \A j \in Nat : f[j + 1] = next(j, f[j])
    BY <1>4 DEF Recurses
  <1>6. n \in Nat
    OBVIOUS
  <1> HIDE DEF n
  <1> DEFINE g == [j \in 0 .. n |-> f[j]]
  <1>7. g = [j \in 0 .. n |-> IF j = 0 THEN 0 ELSE IF text[j] = Minus THEN g[j - 1]
                              ELSE g[j - 1] * base + text[j]]
    <2>1. ASSUME NEW j \in 0 .. n
          PROVE  f[j] = IF j = 0 THEN 0 ELSE IF text[j] = Minus THEN g[j - 1]
                        ELSE g[j - 1] * base + text[j]
      <3>1. CASE j # 0
        <4>1. j - 1 \in Nat /\ (j - 1) + 1 = j /\ j - 1 \in 0 .. n /\ j \in 1 .. n
          BY <1>6, <3>1
        <4>2. f[j] = next(j - 1, f[j - 1]) /\ f[j - 1] \in Int
          BY <1>5, <4>1
        <4>3. next(j - 1, f[j - 1]) = IF text[j] = Minus THEN f[j - 1] ELSE f[j - 1] * base + text[j]
          BY <1>2, <4>1, <4>2
        <4>4. g[j - 1] = f[j - 1]
          BY <4>1
        <4> HIDE DEF g
        <4> QED
          BY <3>1, <4>2, <4>3, <4>4
      <3> QED
        BY <1>5, <3>1
    <2> QED
      BY <2>1
  <1> HIDE DEF g
  <1> DEFINE v == ReadDigits(text, base)
  <1>8. v = [j \in 0 .. n |-> IF j = 0 THEN 0 ELSE IF text[j] = Minus THEN v[j - 1]
                              ELSE v[j - 1] * base + text[j]]
    <2> HIDE DEF step
    <2> QED
      BY <1>7 DEF ReadDigits, n
  <1> HIDE DEF v
  <1>9. v[0] = 0
    BY <1>6, <1>8
  <1>10. ASSUME NEW j \in 1 .. n
         PROVE  v[j] = IF text[j] = Minus THEN v[j - 1] ELSE v[j - 1] * base + text[j]
    <2>1. j \in 0 .. n /\ j # 0
      BY <1>6
    <2> QED
      BY <1>8, <2>1
  <1> QED
    BY <1>9, <1>10 DEF v, n

\* The text has o signs and then the n digits of x.
DigitText(text, o, n, x, base) ==
    /\ Len(text) = o + n
    /\ o = 1 => text[1] = Minus
    /\ \A j \in 1 .. n : text[o + j] = lsd(Quotients(x, base)[n - j], base)

\* The digits of a number, after its sign or alone, read back as its magnitude.
LEMMA DigitsReadBack ==
    ASSUME NEW x \in Int, NEW base \in Nat, base >= 2, NEW n \in Nat, n >= 1,
           Quotients(x, base)[n] = 0,
           NEW text \in Seq(Int), NEW o \in {0, 1}, DigitText(text, o, n, x, base)
    PROVE  ReadDigits(text, base)[Len(text)] = Abs(x) /\ text[o + 1] # Minus
  <1> DEFINE i == Quotients(x, base)
             v == ReadDigits(text, base)
  <1>1. i[0] = x /\ \A k \in Nat : i[k] \in Int /\ i[k + 1] = Quotient(i[k], base)
    BY QuotientsFacts
  <1>2. v[0] = 0 /\ \A j \in 1 .. Len(text) :
                     v[j] = IF text[j] = Minus THEN v[j - 1] ELSE v[j - 1] * base + text[j]
    BY ReadFacts
  <1>3. /\ i[n] = 0 /\ \A j \in 1 .. n : text[o + j] = lsd(i[n - j], base)
        /\ Len(text) = o + n /\ (o = 1 => text[1] = Minus)
    BY DEF DigitText
  <1> HIDE DEF i, v
  <1>4. \A k \in Nat : /\ lsd(i[k], base) \in 0 .. base - 1
                       /\ Abs(i[k]) = Abs(i[k + 1]) * base + lsd(i[k], base)
    BY <1>1, DigitFacts
  <1>5. v[o] = 0
    <2>1. CASE o = 1
      <3>1. 1 \in 1 .. Len(text) /\ text[1] = Minus /\ 1 - 1 = 0
        BY <1>3, <2>1
      <3> QED
        BY <1>2, <2>1, <3>1
    <2> QED
      BY <1>2, <2>1
  <1> DEFINE A(k) == Abs(i[k])
             D(k) == lsd(i[k], base)
             V == {j \in Nat : j <= n => v[o + j] = A(n - j)}
  <1>12. \A j \in 1 .. n : text[o + j] = D(n - j)
    BY <1>3
  <1>13. \A k \in Nat : D(k) \in 0 .. base - 1
    BY <1>4
  <1>7. \A k \in Nat : A(k) = A(k + 1) * base + D(k)
    BY <1>4
  <1>8. A(n) = 0 /\ A(0) = Abs(x)
    BY <1>1, <1>3 DEF Abs
  <1> HIDE DEF A, D
  <1>6. \A j \in 1 .. n : text[o + j] = D(n - j) /\ D(n - j) \in 0 .. base - 1
    <2> TAKE j \in 1 .. n
    <2>1. n - j \in Nat
      OBVIOUS
    <2> QED
      BY <1>12, <1>13, <2>1
  <1>9. V = Nat
    <2>1. 0 \in V /\ V \subseteq Nat
      BY <1>5, <1>8
    <2>2. ASSUME NEW j \in V PROVE j + 1 \in V
      <3> SUFFICES ASSUME j + 1 <= n PROVE v[o + (j + 1)] = A(n - (j + 1))
        OBVIOUS
      <3>1. /\ j + 1 \in 1 .. n /\ o + (j + 1) \in 1 .. Len(text)
            /\ (o + (j + 1)) - 1 = o + j /\ n - (j + 1) \in Nat
            /\ (n - (j + 1)) + 1 = n - j /\ j <= n
        BY <1>3
      <3>2. v[o + j] = A(n - j)
        BY <3>1
      <3>7. text[o + (j + 1)] = D(n - (j + 1)) /\ D(n - (j + 1)) \in 0 .. base - 1
        BY <1>6, <3>1
      <3>3. text[o + (j + 1)] = D(n - (j + 1)) /\ D(n - (j + 1)) >= 0
        BY <3>7
      <3>4. text[o + (j + 1)] # Minus
        BY <3>3 DEF Minus
      <3>5. v[o + (j + 1)] = v[o + j] * base + text[o + (j + 1)]
        BY <1>2, <3>1, <3>4
      <3>6. A(n - (j + 1)) = A(n - j) * base + D(n - (j + 1))
        BY <1>7, <3>1
      <3> QED
        BY <3>2, <3>3, <3>5, <3>6
    <2> HIDE DEF V
    <2> QED
      BY <2>1, <2>2, SetInduction
  <1>10. v[o + n] = A(0)
    <2>1. n \in V
      <3> HIDE DEF V
      <3> QED
        BY <1>9
    <2>2. n <= n /\ n - n = 0
      OBVIOUS
    <2> QED
      BY <2>1, <2>2
  <1>11. text[o + 1] # Minus
    BY <1>6 DEF Minus
  <1> QED
    BY <1>3, <1>8, <1>10, <1>11 DEF v

\* A number reads back as the value, and has room with its sign and the NUL.
LEMMA ConvertFacts ==
    ASSUME LineAssumption, NEW x \in Ints \cup {1}
    PROVE  /\ convert(x) \in Seq(Int) /\ Number(convert(x), 10) = x /\ x \in Int
           /\ Len(convert(x)) + 1 <= kMaxNumericSize
  <1> DEFINE base == 10
  <1>0. base \in Nat /\ base >= 2
    OBVIOUS
  <1> HIDE DEF base
  <1> DEFINE i == Quotients(x, base)
             m == kMaxNumericSize - 2
             D(k) == lsd(i[k], base)
  <1>1. kMaxNumericSize \in Nat /\ m \in Nat /\ m >= 1 /\ m <= kMaxNumericSize
    BY DEF LineAssumption
  <1>2. x \in Int
    <2>1. Ints \subseteq -(2 ^ (LogBits - 1)) .. 2 ^ (LogBits - 1) - 1
      BY DEF LineAssumption
    <2> QED
      BY <2>1
  <1>3. i[m] = 0
    BY DEF LineAssumption, base
  <1>4. PICK n \in 1 .. m : i[n] = 0 /\ Digits(x, base) = [j \in 1 .. n |-> D(n - j)]
    BY <1>0, <1>1, <1>2, <1>3, DigitsFacts
  <1>5. \A k \in Nat : i[k] \in Int
    BY <1>0, <1>2, QuotientsFacts
  <1> HIDE DEF i, m
  <1>6. \A k \in Nat : D(k) \in Int
    BY <1>0, <1>5, DigitIsInt
  <1> HIDE DEF D
  <1> DEFINE d == Digits(x, base)
             t == convert(x)
  <1>7. d \in Seq(Int) /\ Len(d) = n /\ \A j \in 1 .. n : d[j] = D(n - j)
    BY <1>1, <1>4, <1>6
  <1> HIDE DEF d
  <1>8. CASE x < 0
    <2>1. t = <<Minus>> \o d
      BY <1>8 DEF convert, d, base
    <2> HIDE DEF t
    <2>2. <<Minus>> \in Seq(Int) /\ Len(<<Minus>>) = 1
      BY DEF Minus
    <2>3. t \in Seq(Int) /\ Len(t) = 1 + n /\ t[1] = Minus
      BY <1>1, <1>7, <2>1, <2>2
    <2>4. \A j \in 1 .. n : t[1 + j] = D(n - j)
      BY <1>1, <1>7, <2>1, <2>2
    <2>5. ReadDigits(t, base)[Len(t)] = Abs(x)
      <3>1. n \in Nat /\ n >= 1 /\ Quotients(x, base)[n] = 0
        BY <1>1, <1>4 DEF i
      <3>2. DigitText(t, 1, n, x, base) /\ 1 \in {0, 1}
        BY <2>3, <2>4 DEF D, i, DigitText
      <3> QED
        BY <1>0, <1>2, <2>3, <3>1, <3>2, DigitsReadBack
    <2>6. Number(t, base) = x
      BY <1>2, <1>8, <2>3, <2>5 DEF Number, Abs
    <2> QED
      BY <1>1, <1>2, <2>3, <2>6 DEF t, m, base
  <1>9. CASE ~(x < 0)
    <2>1. t = d
      BY <1>7, <1>9 DEF convert, d, base
    <2> HIDE DEF t
    <2>2. t \in Seq(Int) /\ Len(t) = 0 + n /\ \A j \in 1 .. n : t[0 + j] = D(n - j)
      BY <1>1, <1>7, <2>1
    <2>3. ReadDigits(t, base)[Len(t)] = Abs(x) /\ t[0 + 1] # Minus
      <3>1. n \in Nat /\ n >= 1 /\ Quotients(x, base)[n] = 0
        BY <1>1, <1>4 DEF i
      <3>2. DigitText(t, 0, n, x, base) /\ 0 \in {0, 1}
        BY <2>2 DEF D, i, DigitText
      <3> QED
        BY <1>0, <1>2, <2>2, <3>1, <3>2, DigitsReadBack
    <2>4. Number(t, base) = x
      BY <1>2, <1>9, <2>3 DEF Number, Abs
    <2> QED
      BY <1>1, <1>2, <2>2, <2>4 DEF t, m, base
  <1> QED
    BY <1>8, <1>9

\* A pointer reads back as the address, and has room with its 0x and the NUL.
LEMMA ConvertHexFacts ==
    ASSUME LineAssumption, NEW x \in Addresses
    PROVE  /\ convertHex(x) \in Seq(Int) /\ Number(convertHex(x), 16) = x /\ x \in Int
           /\ Len(convertHex(x)) + 3 <= kMaxNumericSize
  <1> DEFINE base == 16
  <1>0. base \in Nat /\ base >= 2
    OBVIOUS
  <1> HIDE DEF base
  <1> DEFINE i == Quotients(x, base)
             m == kMaxNumericSize - 3
             D(k) == lsd(i[k], base)
             t == convertHex(x)
  <1>1. kMaxNumericSize \in Nat /\ m \in Nat /\ m >= 1 /\ m <= kMaxNumericSize
    BY DEF LineAssumption
  <1>2. x \in Int /\ ~(x < 0)
    <2>1. Addresses \subseteq 0 .. 2 ^ LogBits - 1
      BY DEF LineAssumption
    <2> QED
      BY <2>1
  <1>3. i[m] = 0
    BY DEF LineAssumption, base
  <1>4. PICK n \in 1 .. m : i[n] = 0 /\ t = [j \in 1 .. n |-> D(n - j)]
    BY <1>0, <1>1, <1>2, <1>3, DigitsFacts DEF convertHex, base
  <1>5. \A k \in Nat : i[k] \in Int
    BY <1>0, <1>2, QuotientsFacts
  <1> HIDE DEF i, m
  <1>6. \A k \in Nat : D(k) \in Int
    BY <1>0, <1>5, DigitIsInt
  <1> HIDE DEF D, t
  <1>7. t \in Seq(Int) /\ Len(t) = 0 + n /\ \A j \in 1 .. n : t[0 + j] = D(n - j)
    BY <1>1, <1>4, <1>6
  <1>8. ReadDigits(t, base)[Len(t)] = Abs(x) /\ t[0 + 1] # Minus
    <2>1. n \in Nat /\ n >= 1 /\ Quotients(x, base)[n] = 0
      BY <1>1, <1>4 DEF i
    <2>2. DigitText(t, 0, n, x, base) /\ 0 \in {0, 1}
      BY <1>7 DEF D, i, DigitText
    <2> QED
      BY <1>0, <1>2, <1>7, <2>1, <2>2, DigitsReadBack
  <1>9. Number(t, base) = x
    BY <1>2, <1>8 DEF Number, Abs
  <1> QED
    BY <1>1, <1>2, <1>7, <1>9 DEF t, m, base

PlainKinds == {"tid", "level", "strerror", "errno", "errnoEnd", "func", "space", "text",
               "dash", "file", "colon", "newline"}
Kinds == PlainKinds \cup {"time", "micros", "int", "pointer"}
PieceSet == [kind : Kinds, size : Nat, text : Seq(Int), of : Int, local : BOOLEAN]
BufferSet == [data : Seq(PieceSet), cur : 0 .. kSmallBuffer - 1]

\* What a piece of a line that was begun in second built says, in a zone that
\* has not changed
PieceRight(p, built, changed, mark) ==
    /\ p.kind = "int" => Number(p.text, 10) = p.of
    /\ p.kind = "pointer" => Number(p.text, 16) = p.of
    /\ p.kind = "time" => p.of = built
    /\ ~changed /\ p.kind \in {"time", "micros"} => p.local = mark
StreamRight(b, built, changed, mark) ==
    b \in BufferSet /\ \A j \in 1 .. Len(b.data) : PieceRight(b.data[j], built, changed, mark)

\* A piece that has room is added to a line that is right.
LEMMA AddRight ==
    ASSUME LineAssumption, NEW built, NEW changed, NEW mark,
           NEW b, StreamRight(b, built, changed, mark),
           NEW p \in PieceSet, PieceRight(p, built, changed, mark),
           b.cur + p.size < kSmallBuffer
    PROVE  /\ StreamRight(add(b, p), built, changed, mark)
           /\ Last(add(b, p).data) = p
  <1> DEFINE c == add(b, p)
             d == Append(b.data, p)
  <1>1. b \in BufferSet /\ b.data \in Seq(PieceSet) /\ b.cur \in 0 .. kSmallBuffer - 1
    BY DEF StreamRight, BufferSet
  <1>2. kSmallBuffer \in Nat /\ p.size \in Nat
    BY DEF LineAssumption, PieceSet
  <1>3. c.data = d /\ c.cur = b.cur + p.size /\ c = [data |-> d, cur |-> b.cur + p.size]
    BY DEF add
  <1>4. /\ d \in Seq(PieceSet) /\ Len(d) = Len(b.data) + 1 /\ d[Len(d)] = p
        /\ \A j \in 1 .. Len(b.data) : d[j] = b.data[j]
    BY <1>1
  <1>5. c \in BufferSet
    BY <1>1, <1>2, <1>3, <1>4 DEF BufferSet
  <1>6. ASSUME NEW j \in 1 .. Len(d) PROVE PieceRight(d[j], built, changed, mark)
    <2>1. j \in 1 .. Len(b.data) \/ j = Len(d)
      BY <1>1, <1>4
    <2> QED
      BY <1>4, <2>1 DEF StreamRight
  <1>7. Last(c.data) = p
    BY <1>3, <1>4 DEF Last
  <1> QED
    BY <1>3, <1>5, <1>6, <1>7 DEF StreamRight

\* FixedBuffer::append, of a piece that is right
LEMMA AppendRight ==
    ASSUME LineAssumption, NEW built, NEW changed, NEW mark,
           NEW b, StreamRight(b, built, changed, mark),
           NEW p \in PieceSet, PieceRight(p, built, changed, mark)
    PROVE  StreamRight(appendText(b, p), built, changed, mark)
  <1>1. kSmallBuffer \in Nat /\ p.size \in Nat /\ b.cur \in Int
    BY DEF LineAssumption, PieceSet, StreamRight, BufferSet
  <1>2. CASE AppendFits(b, p.size)
    <2>1. b.cur + p.size < kSmallBuffer
      BY <1>1, <1>2 DEF AppendFits, avail
    <2>2. StreamRight(add(b, p), built, changed, mark)
      BY <2>1, AddRight
    <2> QED
      BY <1>2, <2>2 DEF appendText
  <1> QED
    BY <1>2 DEF appendText

\* The insertion of a text that no property reads
LEMMA PlainRight ==
    ASSUME LineAssumption, NEW built, NEW changed, NEW mark,
           NEW b, StreamRight(b, built, changed, mark), NEW size \in Nat,
           NEW kind \in PlainKinds
    PROVE  StreamRight(appendText(b, Piece(kind, size)), built, changed, mark)
  <1> DEFINE p == Piece(kind, size)
  <1>1. p \in PieceSet /\ p.kind = kind
    BY DEF Piece, PieceOf, PieceSet, Kinds
  <1>4. kind \notin {"int", "pointer", "time", "micros"}
    BY DEF PlainKinds
  <1> HIDE DEF p
  <1>2. PieceRight(p, built, changed, mark)
    BY <1>1, <1>4 DEF PieceRight
  <1>3. StreamRight(appendText(b, p), built, changed, mark)
    BY <1>1, <1>2, AppendRight
  <1> QED
    BY <1>3 DEF p

\* The insertion of a number
LEMMA IntegerRight ==
    ASSUME LineAssumption, NEW built, NEW changed, NEW mark,
           NEW b, StreamRight(b, built, changed, mark), NEW x \in Ints \cup {1}
    PROVE  StreamRight(formatInteger(b, x), built, changed, mark)
  <1> DEFINE t == convert(x)
             p == PieceOf("int", Len(t), t, x, FALSE)
  <1>1. t \in Seq(Int) /\ Number(t, 10) = x /\ x \in Int /\ Len(t) + 1 <= kMaxNumericSize
    BY ConvertFacts
  <1>2. kSmallBuffer \in Nat /\ kMaxNumericSize \in Nat /\ b.cur \in Int
    BY DEF LineAssumption, StreamRight, BufferSet
  <1>3. CASE NumberFits(b)
    <2>1. formatInteger(b, x) = add(b, p)
      BY <1>3 DEF formatInteger
    <2> HIDE DEF t
    <2>5. p = [kind |-> "int", size |-> Len(t), text |-> t, of |-> x, local |-> FALSE]
      BY DEF PieceOf
    <2> HIDE DEF p
    <2>2. p \in PieceSet /\ p.kind = "int" /\ p.text = t /\ p.of = x /\ p.size = Len(t)
      <3>1. Len(t) \in Nat /\ "int" \in Kinds
        BY <1>1 DEF Kinds
      <3> QED
        BY <1>1, <2>5, <3>1 DEF PieceSet
    <2>3. PieceRight(p, built, changed, mark)
      BY <1>1, <2>2 DEF PieceRight
    <2>4. b.cur + p.size < kSmallBuffer
      BY <1>1, <1>2, <1>3, <2>2 DEF NumberFits, avail
    <2> QED
      BY <2>1, <2>2, <2>3, <2>4, AddRight
  <1>4. CASE ~NumberFits(b)
    <2>1. formatInteger(b, x) = b
      BY <1>4 DEF formatInteger
    <2> QED
      BY <2>1
  <1> QED
    BY <1>3, <1>4

\* The insertion of a pointer
LEMMA PointerRight ==
    ASSUME LineAssumption, NEW built, NEW changed, NEW mark,
           NEW b, StreamRight(b, built, changed, mark), NEW x \in Addresses
    PROVE  StreamRight(formatPointer(b, x), built, changed, mark)
  <1> DEFINE t == convertHex(x)
             p == PieceOf("pointer", Len(t) + 2, t, x, FALSE)
  <1>1. t \in Seq(Int) /\ Number(t, 16) = x /\ x \in Int /\ Len(t) + 3 <= kMaxNumericSize
    BY ConvertHexFacts
  <1>2. kSmallBuffer \in Nat /\ kMaxNumericSize \in Nat /\ b.cur \in Int
    BY DEF LineAssumption, StreamRight, BufferSet
  <1>3. CASE NumberFits(b)
    <2>1. formatPointer(b, x) = add(b, p)
      BY <1>3 DEF formatPointer
    <2> HIDE DEF t
    <2>5. p = [kind |-> "pointer", size |-> Len(t) + 2, text |-> t, of |-> x, local |-> FALSE]
      BY DEF PieceOf
    <2> HIDE DEF p
    <2>2. p \in PieceSet /\ p.kind = "pointer" /\ p.text = t /\ p.of = x /\ p.size = Len(t) + 2
      <3>1. Len(t) + 2 \in Nat /\ "pointer" \in Kinds
        BY <1>1 DEF Kinds
      <3> QED
        BY <1>1, <2>5, <3>1 DEF PieceSet
    <2>3. PieceRight(p, built, changed, mark)
      BY <1>1, <2>2 DEF PieceRight
    <2>4. b.cur + p.size < kSmallBuffer
      BY <1>1, <1>2, <1>3, <2>2 DEF NumberFits, avail
    <2> QED
      BY <2>1, <2>2, <2>3, <2>4, AddRight
  <1>4. CASE ~NumberFits(b)
    <2>1. formatPointer(b, x) = b
      BY <1>4 DEF formatPointer
    <2> QED
      BY <2>1
  <1> QED
    BY <1>3, <1>4

\* Two texts, what Impl::Impl inserts after the time, and the end of a line
LEMMA HeaderRight ==
    ASSUME LineAssumption, NEW built, NEW changed, NEW mark,
           NEW b, StreamRight(b, built, changed, mark)
    PROVE  /\ StreamRight(Inserted(b, Piece("func", 1), Piece("space", 1)), built, changed, mark)
           /\ \A e \in Ints \cup {0} : StreamRight(Header(b, e), built, changed, mark)
           /\ StreamRight(finish(b), built, changed, mark)
           /\ Last(finish(b).data).kind = "newline" \/ finish(b).cur = kSmallBuffer - 1
  <1> DEFINE R(c) == StreamRight(c, built, changed, mark)
  <1>1. \A c, k, n : R(c) /\ k \in PlainKinds /\ n \in {1, 2} =>
          R(appendText(c, Piece(k, n)))
    BY PlainRight
  <1>2. \A c : R(c) => \A x \in Ints \cup {1} : R(formatInteger(c, x))
    BY IntegerRight
  <1>3. R(b)
    OBVIOUS
  <1> HIDE DEF R
  <1>4. \A c, k, m : R(c) /\ k \in PlainKinds /\ m \in PlainKinds =>
          R(Inserted(c, Piece(k, 1), Piece(m, 1)))
    BY <1>1 DEF Inserted
  <1>5. R(Inserted(b, Piece("func", 1), Piece("space", 1)))
    BY <1>3, <1>4 DEF PlainKinds
  <1>6. ASSUME NEW e \in Ints \cup {0} PROVE R(Header(b, e))
    <2> DEFINE h == Inserted(b, Piece("tid", 1), Piece("level", 1))
               h2 == Inserted(h, Piece("strerror", 1), Piece("errno", 1))
    <2>1. R(h)
      BY <1>3, <1>4 DEF PlainKinds
    <2> HIDE DEF h
    <2>2. R(h2)
      BY <1>4, <2>1 DEF PlainKinds
    <2> HIDE DEF h2
    <2>3. CASE e = 0
      BY <2>1, <2>3 DEF Header, h
    <2>4. CASE e # 0
      <3>1. e \in Ints \cup {1}
        BY <2>4
      <3>2. R(formatInteger(h2, e))
        BY <1>2, <2>2, <3>1
      <3>3. R(appendText(formatInteger(h2, e), Piece("errnoEnd", 1)))
        BY <1>1, <3>2 DEF PlainKinds
      <3> QED
        BY <2>4, <3>3 DEF Header, h, h2
    <2> QED
      BY <2>3, <2>4
  <1> DEFINE s == appendText(Inserted(b, Piece("dash", 1), Piece("file", 1)), Piece("colon", 1))
             i == formatInteger(s, 1)
             p == Piece("newline", 1)
  <1>7. R(s)
    <2>1. R(Inserted(b, Piece("dash", 1), Piece("file", 1)))
      BY <1>3, <1>4 DEF PlainKinds
    <2> QED
      BY <1>1, <2>1 DEF PlainKinds
  <1>8. finish(b) = appendText(i, p)
    BY DEF finish
  <1> HIDE DEF s
  <1>9. R(i)
    BY <1>2, <1>7
  <1> HIDE DEF i
  <1>10. R(finish(b))
    BY <1>1, <1>8, <1>9 DEF PlainKinds
  <1>11. Last(finish(b).data).kind = "newline" \/ finish(b).cur = kSmallBuffer - 1
    <2>1. p.kind = "newline" /\ p.size = 1 /\ p \in PieceSet
      BY DEF Piece, PieceOf, PieceSet, Kinds, PlainKinds
    <2>2. i.cur \in 0 .. kSmallBuffer - 1 /\ kSmallBuffer \in Nat
      BY <1>9 DEF R, StreamRight, BufferSet, LineAssumption
    <2>3. PieceRight(p, built, changed, mark)
      BY <2>1 DEF PieceRight
    <2> HIDE DEF p
    <2>4. CASE AppendFits(i, 1)
      <3>1. i.cur + p.size < kSmallBuffer
        BY <2>1, <2>2, <2>4 DEF AppendFits, avail
      <3>2. Last(add(i, p).data) = p
        BY <1>9, <2>1, <2>3, <3>1, AddRight DEF R
      <3> QED
        BY <1>8, <2>1, <2>4, <3>2 DEF appendText
    <2>5. CASE ~AppendFits(i, 1)
      <3>1. i.cur = kSmallBuffer - 1
        BY <2>2, <2>5 DEF AppendFits, avail
      <3> QED
        BY <1>8, <2>1, <2>5, <3>1 DEF appendText
    <2> QED
      BY <2>4, <2>5
  <1> QED
    BY <1>5, <1>6, <1>10, <1>11 DEF R

\* The time and the microseconds that formatTime inserts into a new line
LEMMA StampRight ==
    ASSUME LineAssumption, NEW begun \in 1 .. MaxSecond, NEW changed \in BOOLEAN,
           NEW mark \in BOOLEAN, NEW of \in Int, NEW local \in BOOLEAN, of = begun,
           changed \/ local = mark
    PROVE  StreamRight(Inserted(EmptyBuffer, PieceOf("time", 1, <<>>, of, local),
                                PieceOf("micros", 1, <<>>, 0, mark)), begun, changed, mark)
  <1> DEFINE p == PieceOf("time", 1, <<>>, of, local)
             q == PieceOf("micros", 1, <<>>, 0, mark)
  <1>1. p \in PieceSet /\ p.kind = "time" /\ p.of = begun /\ p.local = local
    BY DEF PieceOf, PieceSet, Kinds
  <1>2. q \in PieceSet /\ q.kind = "micros" /\ q.local = mark
    BY DEF PieceOf, PieceSet, Kinds
  <1> HIDE DEF p, q
  <1>3. PieceRight(p, begun, changed, mark) /\ PieceRight(q, begun, changed, mark)
    BY <1>1, <1>2 DEF PieceRight
  <1>4. StreamRight(EmptyBuffer, begun, changed, mark)
    <2>1. 0 \in 0 .. kSmallBuffer - 1
      BY DEF LineAssumption
    <2> QED
      BY <2>1 DEF StreamRight, EmptyBuffer, BufferSet
  <1>5. StreamRight(appendText(EmptyBuffer, p), begun, changed, mark)
    BY <1>1, <1>3, <1>4, AppendRight
  <1>6. StreamRight(appendText(appendText(EmptyBuffer, p), q), begun, changed, mark)
    BY <1>2, <1>3, <1>5, AppendRight
  <1> QED
    BY <1>6 DEF Inserted, p, q

LoggerSet == [alive : BOOLEAN, fatal : BOOLEAN, built : 0 .. MaxSecond,
              inserts : 0 .. MaxInserts, stream : BufferSet]

\* A thread's text is of the second it remembers, and of the zone that is set.
CachedTime ==
    /\ t_lastSecond \in [Loggers -> 0 .. MaxSecond]
    /\ t_time \in [Loggers -> [of : 0 .. MaxSecond, local : BOOLEAN]]
    /\ \A t \in Loggers :
         /\ t_time[t].of = t_lastSecond[t]
         /\ t_lastSecond[t] = 0 \/ zoneChanged \/ t_time[t].local = zoneSet

\* The line that is written, or was written last
LineRight ==
    /\ logger \in LoggerSet /\ written <= kSmallBuffer
    /\ StreamRight(logger.stream, logger.built, zoneChanged, zoneSet)
    /\ logger = NoLogger => \A t \in Loggers : t_lastSecond[t] = 0
    /\ logger = NoLogger \/ logger.built >= 1

LogStepInv ==
    /\ second \in 1 .. MaxSecond /\ g_logLevel \in Range(Levels)
    /\ zoneSet \in BOOLEAN /\ zoneChanged \in BOOLEAN
    /\ CachedTime /\ LineRight /\ NewlineUnlessFull

\* The levels
LEMMA LevelFacts == {"TRACE", "INFO"} \subseteq Range(Levels)
  <1>1. 1 \in DOMAIN Levels /\ 3 \in DOMAIN Levels
    BY DEF Levels
  <1>2. Levels[1] = "TRACE" /\ Levels[3] = "INFO"
    BY DEF Levels
  <1> QED
    BY <1>1, <1>2 DEF Range

\* Before the first statement nothing is written.
LEMMA LogStepInvInit == ASSUME LineAssumption, LoggerInit PROVE LogStepInv
  <1>1. second \in 1 .. MaxSecond /\ 0 \in 0 .. MaxSecond /\ 0 \in 0 .. MaxInserts
    BY DEF LineAssumption, LoggerInit
  <1>2. g_logLevel \in Range(Levels)
    BY LevelFacts DEF LoggerInit
  <1>3. zoneSet \in BOOLEAN /\ zoneChanged \in BOOLEAN /\ logger = NoLogger /\ written = 0
    BY DEF LoggerInit
  <1>4. CachedTime
    BY <1>1 DEF LoggerInit, CachedTime
  <1>5. EmptyBuffer \in BufferSet /\ Len(EmptyBuffer.data) = 0
    <2>1. 0 \in 0 .. kSmallBuffer - 1
      BY DEF LineAssumption
    <2> QED
      BY <2>1 DEF EmptyBuffer, BufferSet
  <1>6. StreamRight(EmptyBuffer, 0, zoneChanged, zoneSet)
    BY <1>5 DEF StreamRight
  <1>7. NoLogger \in LoggerSet /\ NoLogger.built = 0 /\ NoLogger.stream = EmptyBuffer
    BY <1>1, <1>5 DEF NoLogger, LoggerSet
  <1>8. LineRight
    <2>1. written <= kSmallBuffer
      BY <1>3 DEF LineAssumption
    <2>2. \A t \in Loggers : t_lastSecond[t] = 0
      BY DEF LoggerInit
    <2> QED
      BY <1>3, <1>6, <1>7, <2>1, <2>2 DEF LineRight
  <1>9. NewlineUnlessFull
    BY <1>3 DEF NewlineUnlessFull
  <1> QED
    BY <1>1, <1>2, <1>3, <1>4, <1>8, <1>9 DEF LogStepInv

\* A statement builds its Logger.
LEMMA ConstructStep ==
    ASSUME LineAssumption, LogStepInv, NEW t \in Loggers, NEW level,
           NEW e \in Ints \cup {0}, construct(t, level, e)
    PROVE  LogStepInv'
  <1>1. /\ second \in 1 .. MaxSecond /\ second \in 0 .. MaxSecond /\ second # 0
        /\ zoneSet \in BOOLEAN /\ zoneChanged \in BOOLEAN
    BY DEF LogStepInv, LineAssumption
  <1>2. UNCHANGED <<second, zoneSet, zoneChanged, g_logLevel>> /\ formatTime(t)
    BY DEF construct
  <1>3. /\ t_lastSecond' = [t_lastSecond EXCEPT ![t] = second]
        /\ t_time' = IF second = t_lastSecond[t] THEN t_time
                     ELSE [t_time EXCEPT ![t] = [of |-> second, local |-> zoneSet]]
    BY <1>2 DEF formatTime, Remembered
  <1>4. /\ t_lastSecond \in [Loggers -> 0 .. MaxSecond]
        /\ t_time \in [Loggers -> [of : 0 .. MaxSecond, local : BOOLEAN]]
        /\ \A u \in Loggers : t_time[u].of = t_lastSecond[u]
        /\ \A u \in Loggers : t_lastSecond[u] = 0 \/ zoneChanged \/ t_time[u].local = zoneSet
    BY DEF LogStepInv, CachedTime
  <1>5. /\ t_lastSecond' \in [Loggers -> 0 .. MaxSecond]
        /\ \A u \in Loggers : t_lastSecond'[u] = IF u = t THEN second ELSE t_lastSecond[u]
    BY <1>1, <1>3, <1>4
  <1>6. /\ t_time' \in [Loggers -> [of : 0 .. MaxSecond, local : BOOLEAN]]
        /\ \A u \in Loggers : u # t => t_time'[u] = t_time[u]
        /\ t_time'[t].of = second
        /\ zoneChanged \/ t_time'[t].local = zoneSet
    <2>1. CASE second = t_lastSecond[t]
      <3>1. t_time' = t_time
        BY <1>3, <2>1
      <3> QED
        BY <1>1, <1>4, <2>1, <3>1
    <2>2. CASE second # t_lastSecond[t]
      <3> DEFINE r == [of |-> second, local |-> zoneSet]
      <3>1. r \in [of : 0 .. MaxSecond, local : BOOLEAN] /\ r.of = second /\ r.local = zoneSet
        BY <1>1
      <3> HIDE DEF r
      <3>2. t_time' = [t_time EXCEPT ![t] = r]
        BY <1>3, <2>2 DEF r
      <3> QED
        BY <1>4, <3>1, <3>2
    <2> QED
      BY <2>1, <2>2
  <1>7. CachedTime'
    <2>1. ASSUME NEW u \in Loggers
          PROVE  /\ t_time'[u].of = t_lastSecond'[u]
                 /\ t_lastSecond'[u] = 0 \/ zoneChanged \/ t_time'[u].local = zoneSet
      BY <1>4, <1>5, <1>6
    <2> QED
      BY <1>2, <1>5, <1>6, <2>1 DEF CachedTime
  <1> DEFINE R(c) == StreamRight(c, second, zoneChanged, zoneSet)
             b == Inserted(EmptyBuffer, TimePiece(t), MicrosPiece)
             h == Header(b, e)
             s == IF level \in {"TRACE", "DEBUG"}
                  THEN Inserted(h, Piece("func", 1), Piece("space", 1)) ELSE h
  <1>8. R(b)
    <2> DEFINE of == t_time'[t].of
               local == t_time'[t].local
    <2>1. of \in Int /\ local \in BOOLEAN /\ of = second /\ (zoneChanged \/ local = zoneSet)
      BY <1>6
    <2>2. b = Inserted(EmptyBuffer, PieceOf("time", 1, <<>>, of, local),
                       PieceOf("micros", 1, <<>>, 0, zoneSet))
      BY DEF TimePiece, MicrosPiece, Mark
    <2> HIDE DEF of, local, b
    <2> QED
      BY <1>1, <2>1, <2>2, StampRight
  <1>9. logger' = [alive |-> TRUE, fatal |-> level = "FATAL", built |-> second,
                   inserts |-> 0, stream |-> s] /\ written' = s.cur
    BY DEF construct
  <1> HIDE DEF b
  <1>10. R(h)
    BY <1>8, HeaderRight
  <1> HIDE DEF h
  <1>11. R(s)
    BY <1>10, HeaderRight
  <1> HIDE DEF s
  <1>12. s \in BufferSet /\ s.cur <= kSmallBuffer
    BY <1>11 DEF StreamRight, BufferSet, LineAssumption
  <1>13. /\ logger' \in LoggerSet /\ logger'.alive /\ logger'.built = second
         /\ logger'.stream = s
    <2>1. 0 \in 0 .. MaxInserts /\ (level = "FATAL") \in BOOLEAN
      BY DEF LineAssumption
    <2> QED
      BY <1>1, <1>9, <1>12, <2>1 DEF LoggerSet
  <1>14. logger' # NoLogger
    BY <1>13 DEF NoLogger
  <1>15. LineRight'
    <2>1. written' <= kSmallBuffer
      BY <1>9, <1>12
    <2>2. StreamRight(logger'.stream, logger'.built, zoneChanged', zoneSet')
      BY <1>2, <1>11, <1>13
    <2>3. logger'.built >= 1
      BY <1>1, <1>13
    <2> QED
      BY <1>13, <1>14, <2>1, <2>2, <2>3 DEF LineRight
  <1>16. NewlineUnlessFull'
    BY <1>13 DEF NewlineUnlessFull
  <1> QED
    BY <1>1, <1>2, <1>7, <1>15, <1>16 DEF LogStepInv

\* An operator<< of a stream that stays right
LEMMA InsertStep ==
    ASSUME LineAssumption, LogStepInv, NEW s, insert(s),
           StreamRight(s, logger.built, zoneChanged, zoneSet)
    PROVE  LogStepInv'
  <1>1. /\ logger.alive /\ logger.inserts < MaxInserts
        /\ logger' = [logger EXCEPT !.stream = s, !.inserts = logger.inserts + 1]
        /\ written' = Reach(logger.stream, s)
        /\ UNCHANGED <<second, zoneSet, zoneChanged, g_logLevel, t_lastSecond, t_time>>
    BY DEF insert
  <1>2. logger \in LoggerSet /\ (logger = NoLogger \/ logger.built >= 1)
    BY DEF LogStepInv, LineRight
  <1>3. s \in BufferSet /\ s.cur + 1 <= kSmallBuffer /\ s.cur + 0 <= kSmallBuffer
    BY DEF StreamRight, BufferSet, LineAssumption
  <1>4. logger.inserts + 1 \in 0 .. MaxInserts
    BY <1>1, <1>2 DEF LoggerSet, LineAssumption
  <1>5. /\ logger' \in LoggerSet /\ logger'.alive /\ logger'.built = logger.built
        /\ logger'.stream = s
    BY <1>1, <1>2, <1>3, <1>4 DEF LoggerSet
  <1>6. logger' # NoLogger /\ logger # NoLogger
    <2>1. NoLogger.alive = FALSE
      BY DEF NoLogger
    <2> QED
      BY <1>1, <1>5, <2>1
  <1>7. written' <= kSmallBuffer
    BY <1>1, <1>3 DEF Reach
  <1>8. LineRight'
    BY <1>1, <1>2, <1>5, <1>6, <1>7 DEF LineRight
  <1>9. NewlineUnlessFull'
    BY <1>5 DEF NewlineUnlessFull
  <1> QED
    BY <1>1, <1>8, <1>9 DEF LogStepInv, CachedTime

\* A statement ends: its line gets its newline.
LEMMA DestructStep == ASSUME LineAssumption, LogStepInv, destruct PROVE LogStepInv'
  <1> DEFINE s == finish(logger.stream)
  <1>1. /\ logger.alive
        /\ logger' = [logger EXCEPT !.alive = FALSE, !.inserts = 0, !.stream = s]
        /\ written' = logger'.stream.cur
        /\ UNCHANGED <<second, zoneSet, zoneChanged, g_logLevel, t_lastSecond, t_time>>
    BY DEF destruct
  <1>2. /\ logger \in LoggerSet /\ (logger = NoLogger \/ logger.built >= 1)
        /\ StreamRight(logger.stream, logger.built, zoneChanged, zoneSet)
    BY DEF LogStepInv, LineRight
  <1>3. /\ StreamRight(s, logger.built, zoneChanged, zoneSet)
        /\ Last(s.data).kind = "newline" \/ s.cur = kSmallBuffer - 1
    <2> DEFINE b == logger.stream
               built == logger.built
    <2>1. StreamRight(b, built, zoneChanged, zoneSet)
      BY <1>2
    <2> HIDE DEF b, built
    <2>2. /\ StreamRight(finish(b), built, zoneChanged, zoneSet)
          /\ Last(finish(b).data).kind = "newline" \/ finish(b).cur = kSmallBuffer - 1
      BY <2>1, HeaderRight
    <2> QED
      BY <2>2 DEF b, built
  <1> HIDE DEF s
  <1>4. s \in BufferSet /\ s.cur <= kSmallBuffer /\ 0 \in 0 .. MaxInserts
    BY <1>3 DEF StreamRight, BufferSet, LineAssumption
  <1>5. logger # NoLogger
    BY <1>1 DEF NoLogger
  <1>6. /\ logger' \in LoggerSet /\ logger'.built = logger.built /\ logger'.stream = s
    <2> DEFINE l1 == [logger EXCEPT !.alive = FALSE]
               l2 == [l1 EXCEPT !.inserts = 0]
               l3 == [l2 EXCEPT !.stream = s]
    <2>1. l1 \in LoggerSet /\ l1.built = logger.built
      BY <1>2 DEF LoggerSet
    <2>2. logger' = l3
      BY <1>1
    <2> HIDE DEF l1
    <2>3. l2 \in LoggerSet /\ l2.built = logger.built
      BY <1>4, <2>1 DEF LoggerSet
    <2> HIDE DEF l2
    <2>4. l3 \in LoggerSet /\ l3.built = logger.built /\ l3.stream = s
      BY <1>4, <2>3 DEF LoggerSet
    <2> HIDE DEF l3
    <2> QED
      BY <2>2, <2>4
  <1>7. logger'.built >= 1
    BY <1>2, <1>5, <1>6
  <1>8. logger' # NoLogger
    BY <1>7 DEF NoLogger
  <1>9. LineRight'
    BY <1>1, <1>3, <1>4, <1>6, <1>7, <1>8 DEF LineRight
  <1>10. NewlineUnlessFull'
    BY <1>3, <1>6 DEF NewlineUnlessFull
  <1> QED
    BY <1>1, <1>9, <1>10 DEF LogStepInv, CachedTime

\* The zone is set, before the first line or after it.
LEMMA ZoneStep == ASSUME LineAssumption, LogStepInv, setTimeZone PROVE LogStepInv'
  <1>1. /\ zoneSet' = TRUE /\ zoneChanged' = (logger # NoLogger)
        /\ UNCHANGED <<second, g_logLevel, t_lastSecond, t_time, logger, written>>
    BY DEF setTimeZone
  <1>2. CachedTime /\ LineRight /\ NewlineUnlessFull
    BY DEF LogStepInv
  <1>3. CASE logger = NoLogger
    <2>1. \A t \in Loggers : t_lastSecond[t] = 0
      BY <1>2, <1>3 DEF LineRight
    <2>2. logger.stream = EmptyBuffer /\ Len(EmptyBuffer.data) = 0
      BY <1>3 DEF NoLogger, EmptyBuffer
    <2>3. StreamRight(logger.stream, logger.built, zoneChanged', zoneSet')
      <3>1. logger.stream \in BufferSet
        BY <1>2 DEF LineRight, StreamRight
      <3> QED
        BY <2>2, <3>1 DEF StreamRight
    <2>4. CachedTime'
      BY <1>1, <1>2, <2>1 DEF CachedTime
    <2>5. LineRight'
      BY <1>1, <1>2, <2>3 DEF LineRight
    <2>6. NewlineUnlessFull'
      BY <1>1, <1>2 DEF NewlineUnlessFull
    <2> QED
      BY <1>1, <2>4, <2>5, <2>6 DEF LogStepInv
  <1>4. CASE logger # NoLogger
    <2>1. zoneChanged' = TRUE
      BY <1>1, <1>4
    <2>2. StreamRight(logger.stream, logger.built, zoneChanged', zoneSet')
      <3>1. StreamRight(logger.stream, logger.built, zoneChanged, zoneSet)
        BY <1>2 DEF LineRight
      <3> QED
        BY <2>1, <3>1 DEF StreamRight, PieceRight
    <2>3. CachedTime'
      BY <1>1, <1>2, <2>1 DEF CachedTime
    <2>4. LineRight'
      BY <1>1, <1>2, <2>2 DEF LineRight
    <2>5. NewlineUnlessFull'
      BY <1>1, <1>2 DEF NewlineUnlessFull
    <2> QED
      BY <1>1, <2>1, <2>3, <2>4, <2>5 DEF LogStepInv
  <1> QED
    BY <1>3, <1>4

\* Every step keeps the invariant.
LEMMA LogStepInvStep ==
    ASSUME LineAssumption, LogStepInv, [LoggerNext]_loggerVars
    PROVE  LogStepInv'
  <1>1. StreamRight(logger.stream, logger.built, zoneChanged, zoneSet)
    BY DEF LogStepInv, LineRight
  <1>2. ASSUME NEW t \in Loggers, NEW level \in Range(Levels), construct(t, level, 0)
        PROVE  LogStepInv'
    BY <1>2, ConstructStep
  <1>3. ASSUME NEW t \in Loggers, NEW level \in {"ERROR", "FATAL"},
               NEW e \in Ints \cap (Nat \ {0}),
               construct(t, level, e)
        PROVE  LogStepInv'
    BY <1>3, ConstructStep
  <1>4. ASSUME NEW n \in Texts, insert(appendText(logger.stream, Piece("text", n)))
        PROVE  LogStepInv'
    <2>1. n \in Nat
      BY DEF LineAssumption
    <2>2. StreamRight(appendText(logger.stream, Piece("text", n)), logger.built,
                      zoneChanged, zoneSet)
      BY <1>1, <2>1, PlainRight DEF PlainKinds
    <2> QED
      BY <1>4, <2>2, InsertStep
  <1>5. ASSUME NEW x \in Ints, insert(formatInteger(logger.stream, x)) PROVE LogStepInv'
    <2>1. StreamRight(formatInteger(logger.stream, x), logger.built, zoneChanged, zoneSet)
      BY <1>1, IntegerRight
    <2> QED
      BY <1>5, <2>1, InsertStep
  <1>6. ASSUME NEW x \in Addresses, insert(formatPointer(logger.stream, x)) PROVE LogStepInv'
    <2>1. StreamRight(formatPointer(logger.stream, x), logger.built, zoneChanged, zoneSet)
      BY <1>1, PointerRight
    <2> QED
      BY <1>6, <2>1, InsertStep
  <1>7. CASE destruct
    BY <1>7, DestructStep
  <1>8. CASE setTimeZone
    BY <1>8, ZoneStep
  <1>9. CASE setLogLevel
    <2>1. g_logLevel' \in Range(Levels)
      BY <1>9, LevelFacts DEF setLogLevel
    <2> QED
      BY <1>9, <2>1 DEF setLogLevel, LogStepInv, CachedTime, LineRight, NewlineUnlessFull
  <1>10. CASE wallClock
    BY <1>10 DEF wallClock, LogStepInv, CachedTime, LineRight, NewlineUnlessFull
  <1>11. CASE UNCHANGED loggerVars
    BY <1>11 DEF loggerVars, LogStepInv, CachedTime, LineRight, NewlineUnlessFull
  <1> QED
    BY <1>2, <1>3, <1>4, <1>5, <1>6, <1>7, <1>8, <1>9, <1>10, <1>11 DEF LoggerNext

\* What the invariant says of a line
LEMMA LogStepInvImplies == ASSUME LineAssumption, LogStepInv PROVE LineInv
  <1> DEFINE b == logger.stream
  <1>1. /\ logger \in LoggerSet /\ written <= kSmallBuffer
        /\ StreamRight(b, logger.built, zoneChanged, zoneSet)
    BY DEF LogStepInv, LineRight
  <1>2. LoggerTypeOK
    BY <1>1 DEF LogStepInv, CachedTime, LoggerSet, BufferSet, LoggerTypeOK
  <1>3. ASSUME NEW kinds, NEW p \in Pieces(kinds)
        PROVE  p.kind \in kinds /\ PieceRight(p, logger.built, zoneChanged, zoneSet)
    <2>1. p \in Range(b.data) /\ p.kind \in kinds
      BY DEF Pieces
    <2>2. PICK j \in DOMAIN b.data : p = b.data[j]
      BY <2>1 DEF Range
    <2>3. b.data \in Seq(PieceSet)
      BY <1>1 DEF StreamRight, BufferSet
    <2>4. j \in 1 .. Len(b.data)
      BY <2>2, <2>3
    <2> QED
      BY <1>1, <2>1, <2>2, <2>4 DEF StreamRight
  <1>4. NumbersReadBack
    BY <1>3 DEF NumbersReadBack, PieceRight
  <1>5. StampIsOfItsSecond
    BY <1>3 DEF StampIsOfItsSecond, PieceRight
  <1>6. MarkTellsZone
    <2> SUFFICES ASSUME ~zoneChanged, NEW p \in Pieces({"time", "micros"}),
                        NEW q \in Pieces({"time", "micros"})
                 PROVE  p.local = q.local
      BY DEF MarkTellsZone
    <2>1. p.local = zoneSet /\ q.local = zoneSet
      BY <1>3 DEF PieceRight
    <2> QED
      BY <2>1
  <1> QED
    BY <1>1, <1>2, <1>4, <1>5, <1>6 DEF LineInv, InsideBuffer, LogStepInv

\* A line that a Logger hands out stays inside its buffer with the NUL of every
\* conversion, ends with its newline unless it filled the buffer, has each number
\* as the value that was inserted, and the second and the zone of its statement
\* (Logging.cc formatTime and finish, LogStream.cc convert and formatInteger), for
\* any threads, values, sizes and buffer in which a number fits kMaxNumericSize.
THEOREM LinesAreRight == LoggerSpec => []LineInv
  <1>1. LoggerInit => LogStepInv
    BY LineAssumption, LogStepInvInit
  <1>2. LogStepInv /\ [LoggerNext]_loggerVars => LogStepInv'
    BY LineAssumption, LogStepInvStep
  <1>3. LogStepInv => LineInv
    BY LineAssumption, LogStepInvImplies
  <1> QED
    BY <1>1, <1>2, <1>3, PTL DEF LoggerSpec
=============================================================================
