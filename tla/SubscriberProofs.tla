-------------------------- MODULE SubscriberProofs --------------------------
(***************************************************************************)
(* Proofs about the subscriber, for every chain length, set of settlement  *)
(* heights, channel capacity and node lag, alone and with the collector,   *)
(* the state callback and the metrics server of Readiness.                 *)
(***************************************************************************)
EXTENDS Readiness, SequenceTheorems, TLAPS

-----------------------------------------------------------------------------
(* Facts about channels held as sequences of heights.                      *)

\* A fresh channel is empty.
LEMMA EmptyFacts == \A S : <<>> \in Seq(S) /\ Len(<<>>) = 0
  OBVIOUS

\* Sending: Append keeps a sequence over S and adds one at its end.
LEMMA AppendFacts ==
  ASSUME NEW S, NEW s \in Seq(S), NEW e \in S
  PROVE  /\ Append(s, e) \in Seq(S)
         /\ Len(Append(s, e)) = Len(s) + 1
         /\ \A i \in 1..Len(s) : Append(s, e)[i] = s[i]
         /\ Append(s, e)[Len(s) + 1] = e
  BY AppendProperties

\* Receiving: the head is an element and the tail loses one.
LEMMA TailFacts ==
  ASSUME NEW S, NEW s \in Seq(S), s # <<>>
  PROVE  /\ Head(s) \in S /\ Tail(s) \in Seq(S)
         /\ Len(Tail(s)) = Len(s) - 1
         /\ Len(s) >= 1
         /\ \A i \in 1..Len(Tail(s)) : Tail(s)[i] = s[i + 1]
  BY HeadTailProperties, EmptySeq

-----------------------------------------------------------------------------
\* Init establishes the types.
LEMMA InitTypeOK == Init => TypeOK
<1> SUFFICES ASSUME Init PROVE TypeOK
  OBVIOUS
<1>1. gaps \in Seq(Gap) /\ wire \in Seq(Nat) /\ events \in Seq(Nat)
  BY EmptyFacts DEF Init
<1>2. Len(wire) <= WireCapacity /\ Len(events) <= EventBufferSize
  BY EmptyFacts, SubscriberAssumption DEF Init
<1>3. node \in 0..chain /\ chain \in Nat
  BY DEF Init
<1>4. /\ eventsOpen \in BOOLEAN /\ canceled \in BOOLEAN /\ wsConnected \in BOOLEAN
      /\ delivered \subseteq Nat /\ emitted \subseteq Nat
  BY DEF Init
<1>5. lastSeenHeight \in Nat /\ pending \in Nat /\ firstSeen \in Nat
  BY DEF Init
<1>6. phase \in Phases /\ link \in {"none", "up", "silent", "closed"}
  BY DEF Init, Phases
<1> QED
  BY <1>1, <1>2, <1>3, <1>4, <1>5, <1>6 DEF TypeOK

\* Each step of the node, the network, the collector and the subscriber keeps them.
LEMMA NextTypeOK == TypeOK /\ [Next]_vars => TypeOK'
<1> SUFFICES ASSUME TypeOK, [Next]_vars PROVE TypeOK'
  OBVIOUS
<1> USE SubscriberAssumption DEF TypeOK, Phases, nodeVars, chanVars, seenVars
<1>return. ASSUME Return PROVE TypeOK'
  BY <1>return DEF Return
<1>disconnected. ASSUME Disconnected PROVE TypeOK'
  <2>1. CASE canceled /\ Return
    BY <2>1, <1>return
  <2>2. CASE ~(canceled /\ Return)
    <3>1. wire' = <<>> /\ link' = "none" /\ phase' = "backoff" /\ wsConnected' = FALSE
      BY <1>disconnected, <2>2 DEF Disconnected
    <3>2. wire' \in Seq(Nat) /\ Len(wire') <= WireCapacity
      BY <3>1, EmptyFacts
    <3> QED
      BY <1>disconnected, <2>2, <3>1, <3>2 DEF Disconnected
  <2> QED
    BY <2>1, <2>2
<1>1. CASE Commit
  BY <1>1 DEF Commit
<1>2. CASE Publish
  <2>1. node + 1 \in Nat
    BY <1>2 DEF Publish
  <2>2. wire' \in Seq(Nat) /\ Len(wire') <= WireCapacity
    <3>1. CASE Len(wire) < WireCapacity /\ wire' = Append(wire, node + 1)
      BY <3>1, <2>1, AppendFacts
    <3>2. CASE wire' = wire
      BY <3>2
    <3> QED
      BY <1>2, <3>1, <3>2 DEF Publish
  <2> QED
    BY <1>2, <2>2 DEF Publish
<1>3. CASE PublishUnexpected
  <2>1. wire' \in Seq(Nat) /\ Len(wire') <= WireCapacity
    BY <1>3, AppendFacts DEF PublishUnexpected, Unexpected
  <2> QED
    BY <1>3, <2>1 DEF PublishUnexpected
<1>4. CASE ConnectionLost
  BY <1>4 DEF ConnectionLost
<1>5. CASE Cancel
  BY <1>5 DEF Cancel
<1>6. CASE Consume
  <2>1. events' \in Seq(Nat) /\ Len(events') <= EventBufferSize
    BY <1>6, TailFacts DEF Consume
  <2> QED
    BY <1>6, <2>1 DEF Consume
<1>7. CASE SubscribeOK
  BY <1>7 DEF SubscribeOK
<1>8. CASE ConnectFails \/ ChannelClosed \/ HeartbeatTimeout
  BY <1>8, <1>disconnected DEF ConnectFails, ChannelClosed, HeartbeatTimeout
<1>9. CASE ResubscribeFails
  BY <1>9 DEF ResubscribeFails
<1>10. CASE BackoffElapsed
  BY <1>10 DEF BackoffElapsed
<1>11. CASE ContextDone \/ HeaderCanceled
  BY <1>11, <1>return DEF ContextDone, HeaderCanceled
<1>12. CASE ReceiveUnexpected
  <2>1. wire' \in Seq(Nat) /\ Len(wire') <= WireCapacity
    BY <1>12, TailFacts DEF ReceiveUnexpected
  <2> QED
    BY <1>12, <2>1 DEF ReceiveUnexpected
<1>13. CASE Receive
  <2>1. wire' \in Seq(Nat) /\ Len(wire') <= WireCapacity /\ pending' \in Nat
    BY <1>13, TailFacts DEF Receive
  <2> QED
    BY <1>13, <2>1 DEF Receive
<1>14. CASE HeaderDone
  <2>1. gaps' \in Seq(Gap)
    <3>1. CASE IsGap(lastSeenHeight, pending)
      <4>1. GapRange(lastSeenHeight, pending) \in Gap
        BY <3>1 DEF IsGap, GapRange, Gap
      <4> QED
        BY <1>14, <3>1, <4>1, AppendFacts DEF HeaderDone
    <3>2. CASE ~IsGap(lastSeenHeight, pending)
      BY <1>14, <3>2 DEF HeaderDone
    <3> QED
      BY <3>1, <3>2
  <2>2. delivered' \subseteq Nat /\ firstSeen' \in Nat /\ lastSeenHeight' \in Nat
    BY <1>14 DEF HeaderDone
  <2>3. phase' \in Phases /\ pending' \in Nat
    BY <1>14 DEF HeaderDone
  <2> QED
    BY <1>14, <2>1, <2>2, <2>3 DEF HeaderDone
<1>15. CASE Emit
  <2>1. events' \in Seq(Nat) /\ Len(events') <= EventBufferSize
    BY <1>15, AppendFacts DEF Emit
  <2> QED
    BY <1>15, <2>1 DEF Emit
<1>16. CASE EmitBlocks
  BY <1>16 DEF EmitBlocks
<1>17. CASE EmitAbandoned
  BY <1>17 DEF EmitAbandoned
<1>18. CASE UNCHANGED vars
  BY <1>18 DEF vars
<1> QED
  BY <1>1, <1>2, <1>3, <1>4, <1>5, <1>6, <1>7, <1>8, <1>9, <1>10, <1>11,
     <1>12, <1>13, <1>14, <1>15, <1>16, <1>17, <1>18
     DEF Next, EnvNext, SubNext, SubStep, Terminated

\* Every variable keeps its type and no channel exceeds its capacity.
THEOREM TypeCorrect == Spec => []TypeOK
  BY InitTypeOK, NextTypeOK, PTL DEF Spec

-----------------------------------------------------------------------------
(* Gap coverage.  What gap detection relies on: lastSeenHeight is a height *)
(* that was really seen, and is 0 exactly until the first one.             *)

SeenInv ==
  /\ firstSeen = 0 <=> delivered = {}
  /\ lastSeenHeight = 0 <=> delivered = {}
  /\ lastSeenHeight > 0 => lastSeenHeight \in delivered
  /\ phase = "header" => pending > 0

CoverInv == TypeOK /\ SeenInv /\ GapCoverage

\* Only HeaderDone touches what has been seen; only Receive takes a block.
LEMMA StepSeen ==
  ASSUME TypeOK, [Next]_vars
  PROVE  \/ HeaderDone
         \/ UNCHANGED seenVars /\ Receive
         \/ UNCHANGED seenVars /\ (phase' = "header" => phase = "header" /\ pending' = pending)
<1> USE DEF nodeVars, chanVars, seenVars
<1>1. CASE EnvNext \/ Consume \/ Terminated \/ UNCHANGED vars
  BY <1>1 DEF EnvNext, Commit, Publish, PublishUnexpected, ConnectionLost, Cancel,
              Consume, Terminated, vars
<1>2. CASE ConnectFails \/ ChannelClosed \/ HeartbeatTimeout
  BY <1>2 DEF ConnectFails, ChannelClosed, HeartbeatTimeout, Disconnected, Return
<1>3. CASE ContextDone \/ HeaderCanceled
  BY <1>3 DEF ContextDone, HeaderCanceled, Return
<1>4. CASE SubscribeOK \/ ResubscribeFails \/ BackoffElapsed \/ ReceiveUnexpected
  BY <1>4 DEF SubscribeOK, ResubscribeFails, BackoffElapsed, ReceiveUnexpected
<1>5. CASE Receive \/ HeaderDone
  BY <1>5 DEF Receive
<1>6. CASE Emit \/ EmitBlocks \/ EmitAbandoned
  BY <1>6 DEF Emit, EmitBlocks, EmitAbandoned
<1> QED
  BY <1>1, <1>2, <1>3, <1>4, <1>5, <1>6 DEF Next, SubNext, SubStep

\* The ranges handed to onGap are kept, and a skipped range is added as one.
LEMMA GapStep ==
  ASSUME TypeOK, HeaderDone
  PROVE  /\ \A h \in Nat : InGap(h) => InGap(h)'
         /\ IsGap(lastSeenHeight, pending) =>
              \A h \in (lastSeenHeight + 1)..(pending - 1) : InGap(h)'
<1>1. CASE IsGap(lastSeenHeight, pending)
  <2> DEFINE g == GapRange(lastSeenHeight, pending)
  <2>1. g \in Gap /\ g.from = lastSeenHeight + 1 /\ g.to = pending - 1
    BY <1>1 DEF IsGap, GapRange, Gap, TypeOK
  <2>2. gaps' = Append(gaps, g) /\ gaps \in Seq(Gap)
    BY <1>1 DEF HeaderDone, TypeOK
  <2>3. /\ Len(gaps') = Len(gaps) + 1 /\ Len(gaps) \in Nat
        /\ \A i \in 1..Len(gaps) : gaps'[i] = gaps[i]
        /\ gaps'[Len(gaps) + 1] = g
    BY <2>1, <2>2, AppendFacts, LenProperties
  <2> HIDE DEF g
  <2>4. \A h \in Nat : InGap(h) => InGap(h)'
    BY <2>3 DEF InGap
  <2>5. \A h \in (lastSeenHeight + 1)..(pending - 1) : InGap(h)'
    BY <2>1, <2>3 DEF InGap
  <2> QED
    BY <2>4, <2>5
<1>2. CASE ~IsGap(lastSeenHeight, pending)
  BY <1>2 DEF HeaderDone, InGap
<1> QED
  BY <1>1, <1>2

\* Nothing has been seen, and nothing is owed.
LEMMA InitCoverInv == Init => CoverInv
<1>1. Init => SeenInv /\ GapCoverage
  BY DEF Init, SeenInv, GapCoverage
<1> QED
  BY <1>1, InitTypeOK DEF CoverInv

\* A block that is looked at is seen, and what it skips is in the gap it reports.
LEMMA NextCoverInv == CoverInv /\ [Next]_vars => CoverInv'
<1> SUFFICES ASSUME CoverInv, [Next]_vars PROVE CoverInv'
  OBVIOUS
<1>t. TypeOK /\ TypeOK'
  BY NextTypeOK DEF CoverInv
<1>u. ASSUME UNCHANGED seenVars PROVE GapCoverage'
  BY <1>u DEF CoverInv, GapCoverage, InGap, seenVars
<1>1. CASE HeaderDone
  <2> DEFINE p == pending
  <2>0. p \in Nat /\ p > 0 /\ lastSeenHeight \in Nat /\ firstSeen \in Nat
    BY <1>1, <1>t DEF CoverInv, SeenInv, TypeOK, HeaderDone
  <2>1. delivered' = delivered \cup {p} /\ lastSeenHeight' = p /\ phase' # "header"
    BY <1>1 DEF HeaderDone
  <2>2. firstSeen' = IF firstSeen = 0 THEN p ELSE firstSeen
    BY <1>1 DEF HeaderDone
  <2>3. SeenInv'
    BY <2>0, <2>1, <2>2 DEF SeenInv
  <2>4. GapCoverage'
    <3>1. CASE lastSeenHeight = 0
      <4>1. delivered' = {p} /\ firstSeen' = p
        BY <3>1, <2>1, <2>2 DEF CoverInv, SeenInv
      <4> QED
        BY <4>1, <2>0 DEF GapCoverage
    <3>2. CASE lastSeenHeight # 0
      <4>0. lastSeenHeight \in delivered /\ firstSeen' = firstSeen
        BY <3>2, <2>0, <2>2 DEF CoverInv, SeenInv
      <4> SUFFICES ASSUME NEW d \in delivered', NEW h \in firstSeen..d
                   PROVE  h \in delivered' \/ InGap(h)'
        BY <4>0 DEF GapCoverage
      <4>1. delivered \subseteq Nat /\ d \in Nat /\ h \in Nat
        BY <1>t, <2>0 DEF TypeOK
      <4>2. CASE \E e \in delivered : h <= e
        <5>1. PICK e \in delivered : h <= e
          BY <4>2
        <5>2. h \in firstSeen..e
          BY <5>1, <4>1, <2>0
        <5>3. h \in delivered \/ InGap(h)
          BY <5>2 DEF CoverInv, GapCoverage
        <5> QED
          BY <5>3, <4>1, <2>1, <1>1, <1>t, GapStep
      <4>3. CASE ~ \E e \in delivered : h <= e
        <5>1. d = p /\ h > lastSeenHeight /\ h <= p
          BY <4>3, <4>0, <4>1, <2>0, <2>1
        <5>2. CASE h = p
          BY <5>2, <2>1
        <5>3. CASE h < p
          <6>1. IsGap(lastSeenHeight, p) /\ h \in (lastSeenHeight + 1)..(p - 1)
            BY <5>1, <5>3, <3>2, <2>0, <4>1 DEF IsGap
          <6> QED
            BY <6>1, <1>1, <1>t, GapStep
        <5> QED
          BY <5>1, <5>2, <5>3, <2>0, <4>1
      <4> QED
        BY <4>2, <4>3
    <3> QED
      BY <3>1, <3>2
  <2> QED
    BY <2>3, <2>4, <1>t DEF CoverInv
<1>2. CASE UNCHANGED seenVars /\ Receive
  <2>1. pending' \in Nat /\ pending' # 0
    BY <1>2, <1>t DEF Receive, TypeOK, Unexpected
  <2>2. SeenInv'
    BY <1>2, <2>1 DEF CoverInv, SeenInv, seenVars
  <2> QED
    BY <1>2, <1>u, <1>t, <2>2 DEF CoverInv
<1>3. CASE /\ UNCHANGED seenVars
           /\ phase' = "header" => phase = "header" /\ pending' = pending
  <2>1. SeenInv'
    BY <1>3 DEF CoverInv, SeenInv, seenVars
  <2> QED
    BY <1>3, <1>u, <1>t, <2>1 DEF CoverInv
<1> QED
  BY <1>1, <1>2, <1>3, <1>t, StepSeen

\* Every height from the first one seen to any seen since was seen or is in a
\* range handed to BackfillRange, however nodes lag and results are lost.
THEOREM CoverageHolds == Spec => []GapCoverage
<1>1. CoverInv => GapCoverage
  BY DEF CoverInv
<1> QED
  BY <1>1, InitCoverInv, NextCoverInv, PTL DEF Spec

-----------------------------------------------------------------------------
(* Back-pressure.                                                          *)

\* A settlement block that was looked at is sent, about to be sent, or given up
\* because ctx was canceled.
THEOREM EmissionHolds == Spec => []EmissionAccounting
<1> DEFINE I == TypeOK /\ EmissionAccounting
<1>1. Init => I
  BY InitTypeOK DEF Init, EmissionAccounting
<1>2. I /\ [Next]_vars => I'
  <2> SUFFICES ASSUME I, [Next]_vars PROVE EmissionAccounting'
    BY NextTypeOK
  <2> USE DEF EmissionAccounting, nodeVars, chanVars, seenVars
  <2>1. CASE EnvNext \/ Consume \/ Terminated \/ UNCHANGED vars
    BY <2>1 DEF EnvNext, Commit, Publish, PublishUnexpected, ConnectionLost, Cancel,
                Consume, Terminated, vars
  <2>2. CASE ConnectFails \/ ChannelClosed \/ HeartbeatTimeout
    BY <2>2 DEF ConnectFails, ChannelClosed, HeartbeatTimeout, Disconnected, Return
  <2>3. CASE ContextDone \/ HeaderCanceled
    BY <2>3 DEF ContextDone, HeaderCanceled, Return
  <2>4. CASE SubscribeOK \/ ResubscribeFails \/ BackoffElapsed \/ ReceiveUnexpected
    BY <2>4 DEF SubscribeOK, ResubscribeFails, BackoffElapsed, ReceiveUnexpected
  <2>5. CASE Receive
    BY <2>5 DEF Receive
  <2>6. CASE HeaderDone
    BY <2>6 DEF HeaderDone
  <2>7. CASE Emit
    BY <2>7 DEF Emit
  <2>8. CASE EmitBlocks \/ EmitAbandoned
    BY <2>8 DEF EmitBlocks, EmitAbandoned
  <2> QED
    BY <2>1, <2>2, <2>3, <2>4, <2>5, <2>6, <2>7, <2>8 DEF Next, SubNext, SubStep
<1>3. I => EmissionAccounting
  OBVIOUS
<1> QED
  BY <1>1, <1>2, <1>3, PTL DEF Spec

-----------------------------------------------------------------------------
(***************************************************************************)
(* When no node lags (MaxLag = 0): everything seen and every gap is at or  *)
(* below lastSeenHeight, and what is still to come, on the wire or in the  *)
(* node, is above it and in order.                                         *)
(***************************************************************************)
SeenBehind ==
  /\ lastSeenHeight <= node
  /\ \A d \in delivered : d <= lastSeenHeight
  /\ \A i \in 1..Len(gaps) : gaps[i].to < lastSeenHeight

WireAhead ==
  /\ phase = "header" => pending \in (lastSeenHeight + 1)..node
  /\ \A i \in 1..Len(wire) : wire[i] # Unexpected =>
       /\ wire[i] \in (lastSeenHeight + 1)..node
       /\ phase = "header" => pending < wire[i]
       /\ \A j \in 1..Len(wire) :
            i < j /\ wire[j] # Unexpected => wire[i] < wire[j]

EventsBehind ==
  /\ phase \in {"emitting", "blocked"} => pending = lastSeenHeight
  /\ \A i \in 1..Len(events) :
       /\ events[i] <= lastSeenHeight
       /\ phase \in {"emitting", "blocked"} => events[i] < lastSeenHeight
       /\ \A j \in 1..Len(events) : i < j => events[i] < events[j]

OrderInv == SeenBehind /\ WireAhead /\ EventsBehind /\ NoFalseGap

\* One step keeps the order when no node lags.
LEMMA OrderStep ==
  ASSUME MaxLag = 0, TypeOK, TypeOK', OrderInv, [Next]_vars
  PROVE  OrderInv'
<1> USE DEF OrderInv, nodeVars, chanVars, seenVars
<1>idle. ASSUME UNCHANGED <<node, wire, events, pending, seenVars>>,
                phase' \notin {"header", "emitting", "blocked"}
         PROVE  OrderInv'
  BY <1>idle DEF SeenBehind, WireAhead, EventsBehind, NoFalseGap, InGap
<1>1. CASE Commit \/ ConnectionLost \/ Cancel \/ Terminated \/ UNCHANGED vars
  BY <1>1 DEF Commit, ConnectionLost, Cancel, Terminated, vars,
              SeenBehind, WireAhead, EventsBehind, NoFalseGap, InGap
<1>2. CASE Publish
  <2>0. node \in Nat /\ node' = node + 1 /\ lastSeenHeight \in Nat /\ pending \in Nat
    BY <1>2 DEF Publish, TypeOK
  <2>1. SeenBehind' /\ EventsBehind' /\ NoFalseGap'
    BY <1>2, <2>0 DEF Publish, SeenBehind, EventsBehind, NoFalseGap, InGap
  <2>2. CASE wire' = wire
    BY <1>2, <2>0, <2>1, <2>2 DEF Publish, WireAhead
  <2>3. CASE wire' = Append(wire, node + 1)
    <3>1. /\ wire \in Seq(Nat) /\ Len(wire) \in Nat /\ Len(wire') = Len(wire) + 1
          /\ \A i \in 1..Len(wire) : wire'[i] = wire[i]
          /\ wire'[Len(wire) + 1] = node + 1
      BY <2>3, <2>0, AppendFacts, LenProperties DEF TypeOK
    <3>2. phase' = "header" => pending' \in (lastSeenHeight' + 1)..node'
      BY <1>2, <2>0 DEF Publish, WireAhead
    <3>3. ASSUME NEW i \in 1..Len(wire'), wire'[i] # Unexpected
          PROVE  /\ wire'[i] \in (lastSeenHeight' + 1)..node'
                 /\ phase' = "header" => pending' < wire'[i]
      <4>0. UNCHANGED <<lastSeenHeight, phase, pending>>
        BY <1>2 DEF Publish
      <4>1. CASE i \in 1..Len(wire)
        <5>1. wire[i] \in (lastSeenHeight + 1)..node /\ (phase = "header" => pending < wire[i])
          BY <3>1, <3>3, <4>1 DEF WireAhead
        <5> QED
          BY <2>0, <3>1, <4>0, <4>1, <5>1
      <4>2. CASE i = Len(wire) + 1
        <5>1. wire'[i] = node + 1
          BY <3>1, <4>2
        <5>2. phase = "header" => pending < node + 1
          BY <2>0 DEF WireAhead
        <5> QED
          BY <2>0, <4>0, <5>1, <5>2 DEF SeenBehind
      <4> QED
        BY <3>1, <4>1, <4>2
    <3>4. ASSUME NEW i \in 1..Len(wire'), wire'[i] # Unexpected,
                 NEW j \in 1..Len(wire'), i < j, wire'[j] # Unexpected
          PROVE  wire'[i] < wire'[j]
      <4>1. i \in 1..Len(wire) /\ wire'[i] = wire[i]
        BY <3>1, <3>4
      <4>2. CASE j \in 1..Len(wire)
        BY <3>1, <3>4, <4>1, <4>2 DEF WireAhead
      <4>3. CASE j = Len(wire) + 1
        <5>1. wire[i] \in (lastSeenHeight + 1)..node /\ wire'[j] = node + 1
          BY <3>1, <3>4, <4>1, <4>3 DEF WireAhead
        <5> QED
          BY <2>0, <4>1, <5>1
      <4> QED
        BY <3>1, <4>2, <4>3
    <3>5. WireAhead'
      BY <3>2, <3>3, <3>4 DEF WireAhead
    <3> QED
      BY <2>1, <3>5
  <2> QED
    BY <1>2, <2>2, <2>3 DEF Publish
<1>3. CASE PublishUnexpected
  <2>1. SeenBehind' /\ EventsBehind' /\ NoFalseGap'
    BY <1>3 DEF PublishUnexpected, SeenBehind, EventsBehind, NoFalseGap, InGap
  <2>2. /\ wire \in Seq(Nat) /\ Len(wire) \in Nat /\ Len(wire') = Len(wire) + 1
        /\ \A i \in 1..Len(wire) : wire'[i] = wire[i]
        /\ wire'[Len(wire) + 1] = Unexpected
    BY <1>3, AppendFacts, LenProperties DEF PublishUnexpected, TypeOK, Unexpected
  <2>3. WireAhead'
    BY <1>3, <2>2 DEF PublishUnexpected, WireAhead
  <2> QED
    BY <2>1, <2>3
<1>4. CASE Consume
  <2>1. SeenBehind' /\ WireAhead' /\ NoFalseGap'
    BY <1>4 DEF Consume, SeenBehind, WireAhead, NoFalseGap, InGap
  <2>2. /\ Len(events) \in Nat /\ Len(events') = Len(events) - 1
        /\ \A i \in 1..Len(events') : events'[i] = events[i + 1]
    BY <1>4, TailFacts, LenProperties DEF Consume, TypeOK
  <2>3. EventsBehind'
    BY <1>4, <2>2 DEF Consume, EventsBehind
  <2> QED
    BY <2>1, <2>3
<1>5. CASE ContextDone \/ HeaderCanceled \/ ResubscribeFails \/ BackoffElapsed
  BY <1>5, <1>idle DEF ContextDone, HeaderCanceled, Return, ResubscribeFails, BackoffElapsed
<1>empty. ASSUME wire' = <<>>, UNCHANGED <<events, seenVars>>,
                 phase' \notin {"header", "emitting", "blocked"}, lastSeenHeight <= node'
          PROVE  OrderInv'
  BY <1>empty, EmptyFacts DEF SeenBehind, WireAhead, EventsBehind, NoFalseGap, InGap
<1>6. CASE ConnectFails \/ ChannelClosed \/ HeartbeatTimeout
  <2>1. CASE canceled /\ Return
    BY <1>6, <2>1, <1>idle DEF Return
  <2>2. CASE ~(canceled /\ Return)
    BY <1>6, <2>2, <1>empty DEF ConnectFails, ChannelClosed, HeartbeatTimeout,
       Disconnected, SeenBehind
  <2> QED
    BY <2>1, <2>2
<1>7. CASE SubscribeOK
  <2>1. node' = chain
    BY <1>7, SubscriberAssumption DEF SubscribeOK, TypeOK
  <2>2. lastSeenHeight <= node'
    BY <2>1 DEF SeenBehind, TypeOK
  <2> QED
    BY <1>7, <2>2, <1>empty DEF SubscribeOK
<1>8. CASE Receive \/ ReceiveUnexpected
  <2>1. /\ Len(wire) \in Nat /\ Len(wire') = Len(wire) - 1 /\ 1 \in 1..Len(wire)
        /\ \A i \in 1..Len(wire') : wire'[i] = wire[i + 1] /\ i + 1 \in 1..Len(wire)
        /\ Head(wire) = wire[1]
    <3>1. wire \in Seq(Nat) /\ wire # <<>> /\ wire' = Tail(wire) /\ Len(wire) \in Nat
      BY <1>8, LenProperties DEF Receive, ReceiveUnexpected, TypeOK
    <3>2. /\ Len(wire') = Len(wire) - 1 /\ Len(wire) >= 1
          /\ \A i \in 1..Len(wire') : wire'[i] = wire[i + 1]
      BY <3>1, TailFacts
    <3>3. Head(wire) = wire[1]
      BY <3>1
    <3> QED
      BY <3>1, <3>2, <3>3
  <2>2. SeenBehind' /\ NoFalseGap'
    BY <1>8 DEF Receive, ReceiveUnexpected, SeenBehind, NoFalseGap, InGap
  <2>3. EventsBehind'
    BY <1>8 DEF Receive, ReceiveUnexpected, EventsBehind
  <2>4. CASE Receive
    <3>1. /\ pending' = wire[1] /\ wire[1] # Unexpected /\ phase' = "header"
          /\ node' = node /\ lastSeenHeight' = lastSeenHeight
      BY <2>1, <2>4 DEF Receive
    <3>2. pending' \in (lastSeenHeight' + 1)..node'
      BY <3>1, <2>1 DEF WireAhead
    <3>3. ASSUME NEW i \in 1..Len(wire'), wire'[i] # Unexpected
          PROVE  /\ wire'[i] \in (lastSeenHeight' + 1)..node'
                 /\ pending' < wire'[i]
      BY <2>1, <3>1, <3>3 DEF WireAhead
    <3>4. ASSUME NEW i \in 1..Len(wire'), wire'[i] # Unexpected,
                 NEW j \in 1..Len(wire'), i < j, wire'[j] # Unexpected
          PROVE  wire'[i] < wire'[j]
      <4>1. i + 1 < j + 1
        BY <3>4, <2>1
      <4> QED
        BY <2>1, <3>4, <4>1 DEF WireAhead
    <3>5. WireAhead'
      BY <3>2, <3>3, <3>4 DEF WireAhead
    <3> QED
      BY <2>2, <2>3, <3>5
  <2>5. CASE ReceiveUnexpected
    <3>1. WireAhead'
      BY <2>1, <2>5 DEF ReceiveUnexpected, WireAhead
    <3> QED
      BY <2>2, <2>3, <3>1
  <2> QED
    BY <1>8, <2>4, <2>5
<1>9. CASE HeaderDone
  <2> DEFINE p == pending
  <2>0. /\ p \in Nat /\ lastSeenHeight \in Nat /\ node \in Nat
        /\ p > lastSeenHeight /\ p <= node /\ delivered \subseteq Nat
    BY <1>9 DEF HeaderDone, TypeOK, WireAhead
  <2>1. /\ lastSeenHeight' = p /\ delivered' = delivered \cup {p}
        /\ node' = node /\ wire' = wire /\ events' = events /\ phase' # "header"
        /\ phase' \in {"emitting", "blocked"} => pending' = p
    BY <1>9 DEF HeaderDone
  <2>2. WireAhead'
    BY <1>9, <2>0, <2>1 DEF HeaderDone, WireAhead
  <2>3. EventsBehind'
    <3>1. \A i \in 1..Len(events) : events[i] \in Nat
      BY ElementOfSeq DEF TypeOK
    <3> QED
      BY <2>0, <2>1, <3>1 DEF EventsBehind
  <2>4. \A i \in 1..Len(gaps) : gaps[i].from \in Nat /\ gaps[i].to \in Nat
    <3>1. \A i \in 1..Len(gaps) : gaps[i] \in Gap
      BY ElementOfSeq DEF TypeOK
    <3> QED
      BY <3>1 DEF Gap
  <2>5. SeenBehind' /\ NoFalseGap'
    <3>1. CASE ~IsGap(lastSeenHeight, p)
      <4>1. gaps' = gaps
        BY <1>9, <3>1 DEF HeaderDone
      <4> QED
        BY <2>0, <2>1, <2>4, <4>1 DEF SeenBehind, NoFalseGap, InGap
    <3>2. CASE IsGap(lastSeenHeight, p)
      <4> DEFINE g == GapRange(lastSeenHeight, p)
      <4>1. g \in Gap /\ g.from = lastSeenHeight + 1 /\ g.to = p - 1
        BY <3>2, <2>0 DEF IsGap, GapRange, Gap
      <4>2. gaps' = Append(gaps, g) /\ gaps \in Seq(Gap)
        BY <1>9, <3>2 DEF HeaderDone, TypeOK
      <4>3. /\ Len(gaps') = Len(gaps) + 1 /\ Len(gaps) \in Nat
            /\ \A i \in 1..Len(gaps) : gaps'[i] = gaps[i]
            /\ gaps'[Len(gaps) + 1] = g
        BY <4>1, <4>2, AppendFacts, LenProperties
      <4> HIDE DEF g
      <4>4. SeenBehind'
        BY <2>0, <2>1, <2>4, <4>1, <4>3 DEF SeenBehind
      <4>5. \A h \in delivered' : ~InGap(h)'
        BY <2>0, <2>1, <2>4, <4>1, <4>3 DEF SeenBehind, NoFalseGap, InGap
      <4>6. \A i, j \in 1..Len(gaps') : i < j => gaps'[i].to < gaps'[j].from
        <5> SUFFICES ASSUME NEW i \in 1..Len(gaps'), NEW j \in 1..Len(gaps'), i < j
                     PROVE  gaps'[i].to < gaps'[j].from
          OBVIOUS
        <5>1. i \in 1..Len(gaps) /\ gaps'[i] = gaps[i]
          BY <4>3
        <5>2. CASE j \in 1..Len(gaps)
          BY <4>3, <5>1, <5>2 DEF NoFalseGap
        <5>3. CASE j = Len(gaps) + 1
          <6>1. gaps'[j].from = lastSeenHeight + 1
            BY <4>1, <4>3, <5>3
          <6>2. gaps[i].to < lastSeenHeight
            BY <5>1 DEF SeenBehind
          <6> QED
            BY <2>0, <2>4, <5>1, <6>1, <6>2
        <5> QED
          BY <4>3, <5>2, <5>3
      <4> QED
        BY <4>4, <4>5, <4>6 DEF NoFalseGap
    <3> QED
      BY <3>1, <3>2
  <2> QED
    BY <2>2, <2>3, <2>5
<1>10. CASE Emit
  <2>1. SeenBehind' /\ WireAhead' /\ NoFalseGap'
    BY <1>10 DEF Emit, SeenBehind, WireAhead, NoFalseGap, InGap
  <2>2. /\ Len(events) \in Nat /\ Len(events') = Len(events) + 1
        /\ \A i \in 1..Len(events) : events'[i] = events[i]
        /\ events'[Len(events) + 1] = pending
    BY <1>10, AppendFacts, LenProperties DEF Emit, TypeOK
  <2>3. pending = lastSeenHeight /\ lastSeenHeight \in Nat
    BY <1>10 DEF Emit, EventsBehind, TypeOK
  <2>4. EventsBehind'
    BY <1>10, <2>2, <2>3 DEF Emit, EventsBehind
  <2> QED
    BY <2>1, <2>4
<1>11. CASE EmitBlocks \/ EmitAbandoned
  BY <1>11 DEF EmitBlocks, EmitAbandoned, SeenBehind, WireAhead, EventsBehind,
               NoFalseGap, InGap
<1> QED
  BY <1>1, <1>2, <1>3, <1>4, <1>5, <1>6, <1>7, <1>8, <1>9, <1>10, <1>11
     DEF Next, EnvNext, SubNext, SubStep

\* Nothing is on the wire or in the collector's channel.
LEMMA InitOrderInv == Init => OrderInv
<1>1. Init => SeenBehind /\ NoFalseGap
  BY EmptyFacts DEF Init, SeenBehind, NoFalseGap, InGap
<1>2. Init => WireAhead /\ EventsBehind
  BY EmptyFacts DEF Init, WireAhead, EventsBehind
<1> QED
  BY <1>1, <1>2 DEF OrderInv

\* What is behind the last height seen is in order on the output channel.
LEMMA OrderedLine ==
  ASSUME TypeOK, OrderInv
  PROVE  OrderedEvents
<1>1. events \in Seq(Nat) /\ pending \in Nat /\ Len(events) \in Nat
  BY LenProperties DEF TypeOK
<1>2. /\ Len(Append(events, pending)) = Len(events) + 1
      /\ \A i \in 1..Len(events) : Append(events, pending)[i] = events[i]
      /\ Append(events, pending)[Len(events) + 1] = pending
  BY <1>1, AppendFacts
<1> QED
  BY <1>1, <1>2 DEF OrderedEvents, OrderInv, EventsBehind

OrderIInv == TypeOK /\ (MaxLag = 0 => OrderInv)

LEMMA SpecOrder == Spec => []OrderIInv
<1>1. Init => OrderIInv
  BY InitTypeOK, InitOrderInv DEF OrderIInv
<1>2. OrderIInv /\ [Next]_vars => OrderIInv'
  BY NextTypeOK, OrderStep DEF OrderIInv
<1> QED
  BY <1>1, <1>2, PTL DEF Spec

\* When no node lags, no height reaches the database both through the WebSocket
\* and through gap recovery.
THEOREM NoFalseGapHolds == Spec => []NoFalseGap
<1>1. OrderIInv => NoFalseGap
  BY DEF OrderIInv, OrderInv, NoFalseGap
<1> QED
  BY <1>1, SpecOrder, PTL

\* When no node lags, the collector's channel is in chain order: emitBlockEvents
\* sends no block twice and none after a later one, reconnections included.
THEOREM OrderedHolds == Spec => []OrderedEvents
<1>1. OrderIInv => OrderedEvents
  BY OrderedLine DEF OrderIInv, OrderedEvents
<1> QED
  BY <1>1, SpecOrder, PTL

-----------------------------------------------------------------------------
(* Readiness.                                                              *)

\* Whatever the callback, the collector and the server do, the subscriber takes its
\* own steps, or ctx is canceled, or a block is consumed.
LEMMA ReadySteps == [ReadyNext]_allVars => [Next]_vars
<1> SUFFICES ASSUME [ReadyNext]_allVars PROVE [Next]_vars
  OBVIOUS
<1>1. CASE Environment \/ Goroutine(SubNext) \/ Take
  BY <1>1 DEF Environment, Goroutine, Take, Next
<1>2. ASSUME canceled' = TRUE,
             UNCHANGED <<nodeVars, phase, pending, chanVars, wsConnected, seenVars, emitted>>
      PROVE  [Next]_vars
  <2>1. CASE canceled = TRUE
    BY <1>2, <2>1 DEF vars
  <2>2. CASE ~canceled
    BY <1>2, <2>2 DEF Next, EnvNext, Cancel
  <2>3. CASE canceled # TRUE /\ canceled
    BY <2>3
  <2> QED
    BY <2>1, <2>2, <2>3
<1>3. CASE ProcessFails \/ ServerFails
  BY <1>2, <1>3 DEF ProcessFails, ServerFails
<1>4. CASE UNCHANGED vars
  BY <1>4
<1>5. CASE SetFlag \/ PostEnds \/ FlushGathered \/ CollectorReturns \/ Processed
           \/ ProbeBegins \/ ProbeAnswered \/ ServerStops \/ Shutdown \/ ProcessEnds
           \/ Ended \/ UNCHANGED allVars
  BY <1>4, <1>5 DEF SetFlag, PostEnds, FlushGathered, CollectorReturns, Processed, ProbeBegins,
                    ProbeAnswered, ServerStops, Shutdown, ProcessEnds, Ended, allVars
<1> QED
  BY <1>1, <1>3, <1>5 DEF ReadyNext, CollectorStep

\* The gauge follows the goroutine, and a callback in progress tells what the gauge
\* says.
Told ==
  /\ phase \in {"connecting", "backoff", "subscribing"} => wsConnected = FALSE
  /\ phase \in {"receiving", "header", "emitting", "blocked"} => wsConnected = TRUE
  /\ telling \in {"connected", "reconnected"} => wsConnected = TRUE
  /\ telling = "disconnected" => wsConnected = FALSE

ReadyInv == ReadyTypeOK /\ phase \in Phases /\ wsConnected \in BOOLEAN /\ Told /\ ReadyAgrees

\* The goroutine takes no step once it has returned.
LEMMA GoroutineLive ==
  ASSUME Goroutine(SubNext)
  PROVE  phase # "stopped"
BY DEF Goroutine, SubNext, SubStep, SubscribeOK, ConnectFails, HeartbeatTimeout, ChannelClosed,
       ResubscribeFails, BackoffElapsed, ContextDone, HeaderCanceled, ReceiveUnexpected, Receive,
       HeaderDone, Emit, EmitBlocks, EmitAbandoned

\* A step of the goroutine moves the gauge only with a callback to come.
LEMMA GoroutineTold ==
  ASSUME ReadyInv, Goroutine(SubNext)
  PROVE  /\ phase' \in Phases /\ wsConnected' \in BOOLEAN /\ Told'
         /\ telling' \in Callbacks \cup {"none"}
         /\ telling' = "none" => wsConnected' = wsConnected
<1>i. /\ telling = "none" /\ telling' = Notified /\ Told
      /\ phase \in Phases /\ wsConnected \in BOOLEAN
  BY DEF Goroutine, ReadyInv
<1> USE DEF Phases, Notified, Told, Callbacks
<1>return. ASSUME Return PROVE phase' = "stopped" /\ wsConnected' = wsConnected
  BY <1>return DEF Return
<1>1. CASE SubscribeOK
  <2>1. phase \in {"connecting", "subscribing"} /\ phase' = "receiving" /\ wsConnected' = TRUE
    BY <1>1 DEF SubscribeOK
  <2> QED
    BY <1>i, <2>1
<1>2. CASE ConnectFails \/ HeartbeatTimeout \/ ChannelClosed
  <2>1. /\ phase \in {"connecting", "receiving"}
        /\ \/ phase' = "stopped" /\ wsConnected' = wsConnected
           \/ phase' = "backoff" /\ wsConnected' = FALSE
    BY <1>2, <1>return DEF ConnectFails, HeartbeatTimeout, ChannelClosed, Disconnected
  <2> QED
    BY <1>i, <2>1
<1>3. CASE ResubscribeFails \/ BackoffElapsed
  <2>1. /\ phase \in {"backoff", "subscribing"} /\ phase' \in {"backoff", "subscribing"}
        /\ wsConnected' = wsConnected
    BY <1>3 DEF ResubscribeFails, BackoffElapsed
  <2> QED
    BY <1>i, <2>1
<1>4. CASE ContextDone \/ HeaderCanceled
  <2>1. phase' = "stopped" /\ wsConnected' = wsConnected
    BY <1>4, <1>return DEF ContextDone, HeaderCanceled
  <2> QED
    BY <1>i, <2>1
<1>5. CASE ReceiveUnexpected \/ Receive \/ HeaderDone \/ Emit \/ EmitBlocks \/ EmitAbandoned
  <2>1. /\ phase \in {"receiving", "header", "emitting", "blocked"}
        /\ phase' \in {"receiving", "header", "emitting", "blocked"}
        /\ wsConnected' = wsConnected
    BY <1>5 DEF ReceiveUnexpected, Receive, HeaderDone, Emit, EmitBlocks, EmitAbandoned, seenVars
  <2> QED
    BY <1>i, <2>1
<1> QED
  BY <1>1, <1>2, <1>3, <1>4, <1>5 DEF Goroutine, SubNext, SubStep

LEMMA InitReady == ReadyInit => ReadyInv
BY DEF ReadyInit, Init, ReadyInv, ReadyTypeOK, Told, ReadyAgrees, Phases, Callbacks,
       CollectorPhases, ServerPhases

LEMMA NextReady == ReadyInv /\ [ReadyNext]_allVars => ReadyInv'
<1> SUFFICES ASSUME ReadyInv, [ReadyNext]_allVars PROVE ReadyInv'
  OBVIOUS
<1>t. /\ ready \in BOOLEAN /\ firstBlockOnce \in BOOLEAN /\ forced \in BOOLEAN
      /\ telling \in Callbacks \cup {"none", "posting"} /\ collector \in CollectorPhases
      /\ server \in ServerPhases /\ probing \in BOOLEAN /\ dbOpen \in BOOLEAN
      /\ phase \in Phases /\ wsConnected \in BOOLEAN
      /\ ~dbOpen => phase = "stopped" /\ collector = "returned" /\ server # "serving"
      /\ probing => server \in {"failed", "timedOut"}
  BY DEF ReadyInv, ReadyTypeOK
<1>1. CASE Goroutine(SubNext)
  <2>1. /\ phase # "stopped" /\ phase' \in Phases /\ wsConnected' \in BOOLEAN /\ Told'
        /\ telling' \in Callbacks \cup {"none"}
        /\ telling' = "none" => wsConnected' = wsConnected
    BY <1>1, GoroutineTold, GoroutineLive
  <2>2. /\ telling = "none"
        /\ UNCHANGED <<ready, firstBlockOnce, forced, collector, server, probing, dbOpen>>
    BY <1>1 DEF Goroutine, serverVars
  <2>3. ReadyTypeOK'
    BY <1>t, <2>1, <2>2 DEF ReadyTypeOK
  <2>4. ReadyAgrees'
    <3>1. ready # wsConnected => forced /\ ready
      BY <2>2 DEF ReadyInv, ReadyAgrees, Callbacks
    <3> QED
      BY <2>1, <2>2, <3>1 DEF ReadyAgrees
  <2> QED
    BY <2>1, <2>3, <2>4 DEF ReadyInv
\* what a step that leaves the subscriber's goroutine alone keeps
<1>2. ASSUME UNCHANGED <<phase, wsConnected, telling>>, ReadyTypeOK', ReadyAgrees' PROVE ReadyInv'
  BY <1>2 DEF ReadyInv, Told
<1>3. CASE Environment
  <2>1. UNCHANGED <<phase, wsConnected>> /\ UNCHANGED ownVars
    BY <1>3 DEF Environment, EnvNext, Commit, Publish, PublishUnexpected, ConnectionLost, Cancel
  <2>2. ReadyTypeOK' /\ ReadyAgrees'
    BY <2>1 DEF ReadyInv, ReadyTypeOK, ReadyAgrees, ownVars, serverVars
  <2> QED
    BY <1>2, <2>1, <2>2 DEF ownVars
<1>4. CASE SetFlag
  <2>1. /\ telling \in Callbacks /\ ready' = (telling # "disconnected") /\ forced' = FALSE
        /\ telling' \in {"posting", "none"}
        /\ UNCHANGED <<phase, wsConnected, firstBlockOnce, collector, server, probing, dbOpen>>
    BY <1>4 DEF SetFlag, vars, serverVars
  <2>2. ready' = wsConnected'
    <3>1. CASE telling = "disconnected"
      BY <2>1, <3>1 DEF ReadyInv, Told
    <3>2. CASE telling # "disconnected"
      <4>1. wsConnected = TRUE
        BY <2>1, <3>2 DEF ReadyInv, Told, Callbacks
      <4>2. ready' = TRUE
        BY <2>1, <3>2
      <4> QED
        BY <2>1, <4>1, <4>2
    <3> QED
      BY <3>1, <3>2
  <2>3. ReadyTypeOK'
    BY <1>t, <2>1 DEF ReadyTypeOK
  <2>4. ReadyAgrees'
    BY <2>2 DEF ReadyAgrees
  <2>5. Told'
    BY <2>1 DEF ReadyInv, Told
  <2> QED
    BY <1>t, <2>1, <2>3, <2>4, <2>5 DEF ReadyInv
<1>5. CASE PostEnds
  <2>1. /\ telling = "posting" /\ telling' = "none"
        /\ UNCHANGED <<phase, wsConnected, ready, firstBlockOnce, forced, collector,
                       server, probing, dbOpen>>
    BY <1>5 DEF PostEnds, vars, serverVars
  <2>2. ReadyTypeOK' /\ Told'
    BY <2>1 DEF ReadyInv, ReadyTypeOK, Told
  <2>3. ReadyAgrees'
    BY <2>1 DEF ReadyInv, ReadyAgrees, Callbacks
  <2> QED
    BY <1>t, <2>1, <2>2, <2>3 DEF ReadyInv
<1>6. CASE Take \/ FlushGathered \/ CollectorReturns
  <2>1. /\ collector # "returned" /\ collector' \in CollectorPhases
        /\ UNCHANGED <<phase, wsConnected, telling, ready, firstBlockOnce, forced,
                       server, probing, dbOpen>>
    BY <1>6 DEF Take, Consume, FlushGathered, CollectorReturns, vars, CollectorPhases, serverVars
  <2>2. ReadyTypeOK' /\ ReadyAgrees'
    BY <1>t, <2>1 DEF ReadyInv, ReadyTypeOK, ReadyAgrees
  <2> QED
    BY <1>2, <2>1, <2>2
<1>7. CASE Processed
  <2>1. /\ collector # "returned" /\ collector' \in CollectorPhases
        /\ firstBlockOnce' = TRUE
        /\ UNCHANGED <<phase, wsConnected, telling, server, probing, dbOpen>>
    BY <1>7 DEF Processed, AfterFlush, vars, CollectorPhases, serverVars
  <2>2. CASE firstBlockOnce = TRUE
    <3>1. ready' = ready /\ forced' = forced
      BY <1>7, <1>t, <2>2 DEF Processed
    <3>2. ReadyTypeOK' /\ ReadyAgrees'
      BY <1>t, <2>1, <3>1 DEF ReadyInv, ReadyTypeOK, ReadyAgrees
    <3> QED
      BY <1>2, <2>1, <3>2
  <2>3. CASE firstBlockOnce = FALSE
    <3>1. ready' = TRUE /\ forced' = TRUE
      BY <1>7, <1>t, <2>3 DEF Processed
    <3>2. ReadyTypeOK' /\ ReadyAgrees'
      BY <1>t, <2>1, <3>1 DEF ReadyTypeOK, ReadyAgrees
    <3> QED
      BY <1>2, <2>1, <3>2
  <2> QED
    BY <1>t, <2>2, <2>3
<1>8. CASE ProcessFails \/ ServerFails \/ ProbeBegins \/ ProbeAnswered \/ ServerStops \/ Shutdown
           \/ ProcessEnds
  <2>1. UNCHANGED <<phase, wsConnected, telling, ready, firstBlockOnce, forced>>
    BY <1>8 DEF ProcessFails, ServerFails, ProbeBegins, ProbeAnswered, ServerStops, Shutdown,
                ProcessEnds, vars
  <2>2. ReadyAgrees'
    BY <2>1 DEF ReadyInv, ReadyAgrees
  <2>3. ReadyTypeOK'
    <3>1. CASE ProcessFails
      BY <1>t, <2>1, <3>1 DEF ReadyTypeOK, ProcessFails, CollectorPhases, serverVars
    <3>2. CASE ServerFails \/ ServerStops
      BY <1>t, <2>1, <3>2 DEF ReadyTypeOK, ServerFails, ServerStops, ServerPhases
    <3>3. CASE ProbeBegins \/ ProbeAnswered
      BY <1>t, <2>1, <3>3 DEF ReadyTypeOK, ProbeBegins, ProbeAnswered, ServerPhases
    <3>4. CASE Shutdown
      BY <1>t, <2>1, <3>4 DEF ReadyTypeOK, Shutdown
    <3>5. CASE ProcessEnds
      <4>1. /\ server' = "ended" /\ probing' = FALSE /\ "ended" \in ServerPhases
            /\ phase' = phase /\ collector' = collector /\ dbOpen' = dbOpen
        BY <3>5 DEF ProcessEnds, vars, ServerPhases
      <4> QED
        BY <1>t, <2>1, <4>1 DEF ReadyTypeOK
    <3> QED
      BY <1>8, <3>1, <3>2, <3>3, <3>4, <3>5
  <2> QED
    BY <1>2, <2>1, <2>2, <2>3
<1>9. CASE Ended \/ UNCHANGED allVars
  BY <1>9 DEF Ended, allVars, vars, ownVars, serverVars, ReadyInv, ReadyTypeOK, Told, ReadyAgrees
<1> QED
  BY <1>1, <1>3, <1>4, <1>5, <1>6, <1>7, <1>8, <1>9 DEF ReadyNext, CollectorStep

\* The variables of the server and the collector keep their types.  Shutdown closes
\* SQLite only when subscriber, collector and server have returned, and a handler of
\* /ready is left after that only if Serve failed or the wait for it timed out.
THEOREM ReadyTypeCorrect == ReadySpec => []ReadyTypeOK
<1>1. ReadyInv => ReadyTypeOK
  BY DEF ReadyInv
<1> QED
  BY <1>1, InitReady, NextReady, PTL DEF ReadySpec

\* What /ready answers and what the gauge says differ only between the two writes of
\* NewStateChangeCallback, or because the first block processed has set the flag since.
THEOREM ReadyAgreesHolds == ReadySpec => []ReadyAgrees
<1>1. ReadyInv => ReadyAgrees
  BY DEF ReadyInv
<1> QED
  BY <1>1, InitReady, NextReady, PTL DEF ReadySpec

\* With the callback, the collector and the server around it the subscriber is the one
\* of the module Subscriber, and what is proved of that one holds: a callback that waits
\* for a webhook, a server that fails and a shutdown only delay or cancel it.
THEOREM ReadyImplementsSubscriber == ReadySpec => Spec
<1>1. ReadyInit => Init
  BY DEF ReadyInit
<1> QED
  BY <1>1, ReadySteps, PTL DEF ReadySpec, Spec

=============================================================================
