--------------------------- MODULE EventBusProofs ---------------------------
(***************************************************************************)
(* Proofs, for any number of connections, apps and events and for a ring    *)
(* and sockets of any size, that a subscriber is told of all it misses.     *)
(***************************************************************************)
EXTENDS EventBus, TLAPS

\* A receiver begins at `since` and goes on up to the end of the log; while it is between
\* two frames or has one pending, every frame is behind it.
Behind(s) ==
  /\ Attached(s) => /\ 1 <= sub[s].since /\ sub[s].since <= sub[s].next
                    /\ sub[s].next <= Len(log) + 1
  /\ sub[s].pc = "resolve" => sub[s].next = sub[s].since
  /\ sub[s].pc \in {"idle", "asked", "attach", "resolve"} => sent[s] = <<>>
  /\ sub[s].pc \in {"select", "write"} =>
       \A k \in 1 .. Len(Stream(s)) : Stream(s)[k].from + Stream(s)[k].n <= sub[s].next

\* The two halves of NothingLostSilently, for one connection.
Covered(s) ==
  sub[s].pc \in {"select", "write"} =>
    \A p \in sub[s].since .. sub[s].next - 1 :
      Asked(s, log[p]) => \E k \in 1 .. Len(Stream(s)) : Covers(Stream(s)[k], p)

Ordered(s) ==
  \A j, k \in 1 .. Len(Stream(s)) :
    j < k => Stream(s)[j].from + Stream(s)[j].n <= Stream(s)[k].from

Told(s) == Behind(s) /\ Covered(s) /\ Ordered(s)

IInv == TypeOK /\ \A s \in Subscribers : Told(s)

-----------------------------------------------------------------------------
(* Types.                                                                  *)

LEMMA InitInv == Init => IInv
<1> SUFFICES ASSUME Init PROVE IInv
  OBVIOUS
<1> USE DEF Init, IdleSub, NoAsk, NoFrame
<1>1. NoFrame \in Frames /\ IdleSub.ids \subseteq Ids
  BY DEF Frames
<1>2. TypeOK
  BY <1>1 DEF TypeOK, SubType, ClientType, SubPcs, Frames
<1>3. ASSUME NEW s \in Subscribers PROVE Told(s)
  BY DEF Told, Behind, Covered, Ordered, Stream, Attached
<1> QED
  BY <1>2, <1>3 DEF IInv

\* What is received: a frame that stands for the events from `next` on.
LEMMA LaggedFrame ==
  ASSUME TypeOK, NEW s \in Subscribers, Ready(s), sub[s].next < Oldest, Behind(s)
  PROVE  /\ Oldest \in Nat /\ Oldest <= Len(log) + 1
         /\ [lagged |-> TRUE, from |-> sub[s].next, n |-> Oldest - sub[s].next] \in Frames
<1>1. Len(log) \in Nat /\ sub[s].next \in Nat
  BY DEF TypeOK, SubType
<1>2. Oldest \in Nat /\ Oldest <= Len(log) + 1
  BY <1>1, BusAssumption DEF Oldest
<1> QED
  BY <1>1, <1>2 DEF Frames

LEMMA TypeStep == IInv /\ [Next]_vars => TypeOK'
<1> SUFFICES ASSUME IInv, [Next]_vars PROVE TypeOK'
  OBVIOUS
<1>t. TypeOK
  BY DEF IInv
<1> USE <1>t, BusAssumption
<1>1. ASSUME NEW a \in Names, Insert(a) PROVE TypeOK'
  <2> DEFINE i == IF Rows = {} THEN 0 ELSE nextId
  <2>1. i \in Ids /\ i + 1 \in Nat
    BY <1>1 DEF Insert, TypeOK, Ids
  <2> QED
    BY <1>1, <2>1 DEF Insert, TypeOK
<1>2. ASSUME NEW i \in Ids, Remove(i) PROVE TypeOK'
  BY <1>2 DEF Remove, TypeOK
<1>3. ASSUME NEW t \in Topics, NEW i \in Ids, NEW a \in Names, Publish(t, i, a) PROVE TypeOK'
  <2>1. [topic |-> t, id |-> i, name |-> a] \in Events
    BY DEF Events
  <2> QED
    BY <1>3, <2>1 DEF Publish, TypeOK
<1>4. ASSUME ShutDown PROVE TypeOK'
  <2>1. [topic |-> Kill, id |-> 0, name |-> NoName] \in Events
    BY DEF Events
  <2> QED
    BY <1>4, <2>1 DEF ShutDown, TypeOK
<1>5. ASSUME Exit PROVE TypeOK'
  <2>1. \A s \in Subscribers : [sub[s] EXCEPT !.pc = IF @ = "idle" THEN "idle" ELSE "gone"] \in SubType
    BY DEF TypeOK, SubType, SubPcs
  <2> QED
    BY <1>5, <2>1 DEF Exit, TypeOK
<1>6. ASSUME NEW s \in Subscribers, NEW r \in Asks, Ask(s, r) PROVE TypeOK'
  <2>1. [IdleSub EXCEPT !.pc = "asked", !.ask = r] \in SubType
    BY DEF SubType, SubPcs, IdleSub, Frames, NoFrame
  <2>2. [client[s] EXCEPT !.pc = "waiting"] \in ClientType
    BY DEF TypeOK, ClientType
  <2> QED
    BY <1>6, <2>1, <2>2 DEF Ask, TypeOK, world
<1>7. ASSUME NEW s \in Subscribers, Reply(s) PROVE TypeOK'
  <2>1. \A place \in {"gone", "attach"} : [sub[s] EXCEPT !.pc = place] \in SubType
    BY DEF TypeOK, SubType, SubPcs
  <2>2. [client[s] EXCEPT !.pc = "reading"] \in ClientType
    BY DEF TypeOK, ClientType
  <2> QED
    BY <1>7, <2>1, <2>2 DEF Reply, Goes, TypeOK, world
<1>8. ASSUME NEW s \in Subscribers, Attach(s) PROVE TypeOK'
  <2>1. Len(log) + 1 \in Nat
    BY DEF TypeOK
  <2>2. [sub[s] EXCEPT !.pc = "resolve", !.since = Len(log) + 1, !.next = Len(log) + 1] \in SubType
    BY <2>1 DEF TypeOK, SubType, SubPcs
  <2> QED
    BY <1>8, <2>2 DEF Attach, TypeOK, world
<1>9. ASSUME NEW s \in Subscribers, ResolveTarget(s) PROVE TypeOK'
  <2>1. Resolved(sub[s].ask.target) \subseteq Ids
    <3>1. sub[s].ask.target \in TargetSet
      BY DEF TypeOK, SubType, NoAsk, TargetSet
    <3> QED
      BY <3>1 DEF Resolved, Rows, TargetSet
  <2>2. [sub[s] EXCEPT !.pc = "select", !.ids = Resolved(sub[s].ask.target)] \in SubType
    BY <2>1 DEF TypeOK, SubType, SubPcs
  <2> QED
    BY <1>9, <2>2 DEF ResolveTarget, TypeOK, world
<1>10. ASSUME NEW s \in Subscribers, RecvLagged(s) PROVE TypeOK'
  <2> DEFINE f == [lagged |-> TRUE, from |-> sub[s].next, n |-> Oldest - sub[s].next]
  <2>1. f \in Frames /\ Oldest \in Nat
    BY <1>10, LaggedFrame DEF RecvLagged, IInv, Told
  <2> HIDE DEF f
  <2>2. [sub[s] EXCEPT !.pc = "write", !.next = Oldest, !.frame = f] \in SubType
    BY <2>1 DEF TypeOK, SubType, SubPcs
  <2> USE DEF f
  <2> QED
    BY <1>10, <2>2 DEF RecvLagged, TypeOK, world
<1>11. ASSUME NEW s \in Subscribers, RecvEvent(s) PROVE TypeOK'
  <2> DEFINE p == sub[s].next
             f == [lagged |-> FALSE, from |-> p, n |-> 1]
  <2>1. p \in Nat /\ p + 1 \in Nat /\ f \in Frames
    BY DEF TypeOK, SubType, Frames
  <2> HIDE DEF f
  <2>2. /\ [sub[s] EXCEPT !.pc = "write", !.next = p + 1, !.frame = f] \in SubType
        /\ [sub[s] EXCEPT !.next = p + 1] \in SubType
    BY <2>1 DEF TypeOK, SubType, SubPcs
  <2> USE DEF f
  <2> QED
    BY <1>11, <2>2 DEF RecvEvent, TypeOK, world
<1>12. ASSUME NEW s \in Subscribers, HangUp(s) PROVE TypeOK'
  BY <1>12 DEF HangUp, Goes, TypeOK, SubType, SubPcs, world
<1>13. ASSUME NEW s \in Subscribers, Write(s) PROVE TypeOK'
  <2>1. /\ [sub[s] EXCEPT !.pc = "select", !.frame = NoFrame] \in SubType
        /\ [sub[s] EXCEPT !.pc = "gone"] \in SubType
    BY DEF TypeOK, SubType, SubPcs, Frames, NoFrame
  <2>2. Append(sent[s], sub[s].frame) \in Seq(Frames)
    BY DEF TypeOK, SubType
  <2> QED
    BY <1>13, <2>1, <2>2 DEF Write, Goes, TypeOK, world
<1>14. ASSUME NEW s \in Subscribers, Read(s) PROVE TypeOK'
  <2>1. \A place \in {"reading", "ended"} :
          [pc |-> place, read |-> client[s].read + 1] \in ClientType
    BY DEF TypeOK, ClientType
  <2> QED
    BY <1>14, <2>1 DEF Read, TypeOK, world
<1>15. ASSUME NEW s \in Subscribers, Eof(s) \/ Close(s) PROVE TypeOK'
  BY <1>15 DEF Eof, Close, TypeOK, ClientType, world
<1>16. CASE UNCHANGED vars
  BY <1>16 DEF vars, TypeOK
<1> QED
  BY <1>1, <1>2, <1>3, <1>4, <1>5, <1>6, <1>7, <1>8, <1>9, <1>10, <1>11, <1>12, <1>13,
     <1>14, <1>15, <1>16 DEF Next, HandlerStep

-----------------------------------------------------------------------------
(* Who does not take the step.                                             *)

LEMMA LogGrows ==
  ASSUME TypeOK, [Next]_vars
  PROVE  /\ Len(log) \in Nat /\ Len(log') \in Nat /\ Len(log) <= Len(log')
         /\ \A p \in 1 .. Len(log) : log'[p] = log[p]
<1> DEFINE Grown == \/ log' = log
                    \/ \E e \in Events : log' = Append(log, e)
<1>1. Grown
  <2>1. CASE \E t \in Topics, i \in Ids, a \in Names : Publish(t, i, a)
    BY <2>1 DEF Publish, Events
  <2>2. CASE ShutDown
    BY <2>2 DEF ShutDown, Events
  <2>3. CASE \/ \E a \in Names : Insert(a)
             \/ \E i \in Ids : Remove(i)
             \/ Exit
    BY <2>3 DEF Insert, Remove, Exit
  <2>4. CASE \E s \in Subscribers : \/ \E r \in Asks : Ask(s, r)
                                   \/ HandlerStep(s) \/ Read(s) \/ Eof(s) \/ Close(s)
    BY <2>4 DEF HandlerStep, Ask, Reply, Attach, ResolveTarget, RecvLagged, RecvEvent, HangUp,
                Write, Read, Eof, Close, world
  <2>5. CASE UNCHANGED vars
    BY <2>5 DEF vars
  <2> QED
    BY <2>1, <2>2, <2>3, <2>4, <2>5 DEF Next
<1> QED
  BY <1>1 DEF TypeOK

\* A connection whose handler and frames are as they were...
LEMMA OthersKeep ==
  ASSUME IInv, [Next]_vars, NEW s \in Subscribers, UNCHANGED <<sub[s], sent[s]>>
  PROVE  Told(s)'
<1>1. /\ Len(log) \in Nat /\ Len(log') \in Nat /\ Len(log) <= Len(log')
      /\ \A p \in 1 .. Len(log) : log'[p] = log[p]
  BY LogGrows DEF IInv
<1>2. Stream(s)' = Stream(s) /\ Told(s)
  BY DEF Stream, IInv
<1>3. sub[s].since \in Nat /\ sub[s].next \in Nat
  BY DEF IInv, TypeOK, SubType
<1>4. Behind(s)'
  BY <1>1, <1>2, <1>3 DEF Told, Behind, Attached
<1>5. \A e : Asked(s, e)' = Asked(s, e)
  BY DEF Asked, TopicAsked
<1>6. Covered(s)'
  <2> SUFFICES ASSUME sub[s].pc \in {"select", "write"}, NEW p \in sub[s].since .. sub[s].next - 1,
                      Asked(s, log[p])
               PROVE  \E k \in 1 .. Len(Stream(s)) : Covers(Stream(s)[k], p)
    <3>1. sub[s].pc \in {"select", "write"} =>
            \A p \in sub[s].since .. sub[s].next - 1 : log'[p] = log[p]
      BY <1>1, <1>2, <1>3 DEF Told, Behind, Attached
    <3> QED
      BY <1>2, <1>5, <3>1 DEF Covered
  <2> QED
    BY <1>2 DEF Told, Covered
<1> QED
  BY <1>2, <1>4, <1>6 DEF Told, Ordered

\* ...or has ended with the frames it had written.
LEMMA GoneKeep ==
  ASSUME IInv, NEW s \in Subscribers, sub'[s].pc = "gone", sent'[s] = sent[s]
  PROVE  Told(s)'
<1>1. Stream(s)' = sent[s] /\ Told(s) /\ sent[s] \in Seq(Frames) /\ sub[s].frame \in Frames
  BY DEF Stream, IInv, TypeOK, SubType
<1>2. \A k \in 1 .. Len(sent[s]) : k \in 1 .. Len(Stream(s)) /\ Stream(s)[k] = sent[s][k]
  BY <1>1 DEF Stream
<1>3. Ordered(s)'
  BY <1>1, <1>2 DEF Told, Ordered
<1> QED
  BY <1>1, <1>3 DEF Told, Behind, Covered, Attached

-----------------------------------------------------------------------------
(* The handler that takes it.                                              *)

\* Before a receiver has read anything there are no frames.
LEMMA BeforeReading ==
  ASSUME IInv, NEW s \in Subscribers,
         Reply(s) \/ Attach(s) \/ ResolveTarget(s) \/ (\E r \in Asks : Ask(s, r))
  PROVE  Told(s)'
<1>1. Told(s) /\ s \in DOMAIN sub /\ sub[s] \in SubType /\ Len(log) \in Nat
  BY DEF IInv, TypeOK
<1>2. CASE \E r \in Asks : Ask(s, r)
  BY <1>1, <1>2 DEF Ask, Told, Behind, Covered, Ordered, Stream, Attached, IdleSub
<1>3. CASE Reply(s)
  BY <1>1, <1>3 DEF Reply, Goes, Told, Behind, Covered, Ordered, Stream, Attached, SubType
<1>4. CASE Attach(s)
  <2>1. /\ sub'[s].pc = "resolve" /\ sub'[s].since = Len(log) + 1 /\ sub'[s].next = Len(log) + 1
        /\ log' = log /\ sent'[s] = <<>>
    BY <1>1, <1>4 DEF Attach, world, Told, Behind, SubType
  <2>2. Stream(s)' = <<>>
    BY <2>1 DEF Stream
  <2> QED
    BY <1>1, <2>1, <2>2 DEF Told, Behind, Covered, Ordered, Attached
<1>5. CASE ResolveTarget(s)
  <2>1. /\ sub'[s] = [sub[s] EXCEPT !.pc = "select", !.ids = Resolved(sub[s].ask.target)]
        /\ log' = log /\ sent'[s] = <<>> /\ sub[s].next = sub[s].since /\ Attached(s)
    BY <1>1, <1>5 DEF ResolveTarget, world, Told, Behind, Attached
  <2> QED
    BY <1>1, <2>1 DEF Told, Behind, Covered, Ordered, Stream, Attached, SubType
<1> QED
  BY <1>2, <1>3, <1>4, <1>5

\* What is received next: nothing, or a frame that begins at or after `next` and ends
\* before the receiver's new place, and stands for all that was asked for in between.
LEMMA Received ==
  ASSUME IInv, NEW s \in Subscribers, sub[s].pc = "select", log' = log, sent' = sent,
         NEW q \in Nat, sub[s].next <= q, q <= Len(log) + 1, NEW f \in Frames,
         \/ /\ sub'[s] = [sub[s] EXCEPT !.pc = "write", !.next = q, !.frame = f]
            /\ f.from = sub[s].next /\ f.from + f.n = q
         \/ /\ sub'[s] = [sub[s] EXCEPT !.next = q]
            /\ \A p \in sub[s].next .. q - 1 : ~ Asked(s, log[p])
  PROVE  Told(s)'
<1> DEFINE st == sent[s]
<1>1. /\ Told(s) /\ st \in Seq(Frames) /\ Stream(s) = st /\ sub[s] \in SubType
      /\ Len(log) \in Nat
  BY DEF IInv, TypeOK, Stream
<1>2. /\ sub[s].since \in Nat /\ sub[s].next \in Nat /\ sub[s].since <= sub[s].next
      /\ 1 <= sub[s].since
      /\ \A k \in 1 .. Len(st) : /\ st[k].from \in Nat /\ st[k].n \in Nat
                               /\ st[k].from + st[k].n <= sub[s].next
  <2>1. \A k \in 1 .. Len(st) : st[k] \in Frames
    BY <1>1
  <2>2. Behind(s) /\ Attached(s)
    BY <1>1 DEF Told, Attached
  <2>3. sub[s].since \in Nat /\ sub[s].next \in Nat
    BY <1>1 DEF SubType
  <2>4. \A k \in 1 .. Len(st) : st[k].from + st[k].n <= sub[s].next
    BY <1>1, <2>2 DEF Behind
  <2> HIDE DEF st
  <2> QED
    BY <2>1, <2>2, <2>3, <2>4 DEF Behind, Frames
<1>3. \A e : Asked(s, e)' = Asked(s, e)
  BY <1>1 DEF Asked, TopicAsked, SubType
<1>4. CASE /\ sub'[s] = [sub[s] EXCEPT !.pc = "write", !.next = q, !.frame = f]
           /\ f.from = sub[s].next /\ f.from + f.n = q
  <2>1. /\ sub'[s].pc = "write" /\ sub'[s].next = q /\ sub'[s].since = sub[s].since
        /\ sub'[s].frame = f
    BY <1>1, <1>4 DEF SubType
  <2>2. /\ Stream(s)' = Append(st, f) /\ Len(Append(st, f)) = Len(st) + 1 /\ Len(st) \in Nat
        /\ \A k \in 1 .. Len(st) : Append(st, f)[k] = st[k]
        /\ Append(st, f)[Len(st) + 1] = f
    BY <1>1, <2>1 DEF Stream
  <2>3. Behind(s)'
    BY <1>2, <1>4, <2>1, <2>2 DEF Behind, Attached
  <2>4. Ordered(s)'
    <3> SUFFICES ASSUME NEW j \in 1 .. Len(st) + 1, NEW k \in 1 .. Len(st) + 1, j < k
                 PROVE  Append(st, f)[j].from + Append(st, f)[j].n <= Append(st, f)[k].from
      BY <2>2 DEF Ordered
    <3>1. j \in 1 .. Len(st)
      BY <2>2
    <3>2. CASE k = Len(st) + 1
      BY <1>2, <1>4, <2>2, <3>1, <3>2
    <3>3. CASE k \in 1 .. Len(st)
      BY <1>1, <2>2, <3>1, <3>3 DEF Told, Ordered
    <3> QED
      BY <2>2, <3>2, <3>3
  <2>5. Covered(s)'
    <3> SUFFICES ASSUME NEW p \in sub[s].since .. q - 1, Asked(s, log[p])
                 PROVE  \E k \in 1 .. Len(st) + 1 : Covers(Append(st, f)[k], p)
      BY <1>3, <2>1, <2>2 DEF Covered
    <3>1. CASE p < sub[s].next
      <4>1. \E k \in 1 .. Len(st) : Covers(st[k], p)
        BY <1>1, <1>2, <3>1 DEF Told, Covered
      <4> QED
        BY <2>2, <4>1
    <3>2. CASE p >= sub[s].next
      <4>1. Covers(f, p)
        BY <1>2, <1>4, <3>2 DEF Covers, Frames
      <4> QED
        BY <2>2, <4>1
    <3> QED
      BY <1>2, <3>1, <3>2
  <2> QED
    BY <2>3, <2>4, <2>5 DEF Told
<1>5. CASE /\ sub'[s] = [sub[s] EXCEPT !.next = q]
           /\ \A p \in sub[s].next .. q - 1 : ~ Asked(s, log[p])
  <2>1. /\ sub'[s].pc = "select" /\ sub'[s].next = q /\ sub'[s].since = sub[s].since
        /\ Stream(s)' = st
    BY <1>1, <1>5 DEF SubType, Stream
  <2>a. \A k \in 1 .. Len(st) : st[k].from + st[k].n <= q
    BY <1>2
  <2>b. 1 <= sub[s].since /\ sub[s].since <= q /\ q <= Len(log') + 1
    BY <1>2
  <2> HIDE DEF st
  <2>2. Behind(s)'
    BY <2>1, <2>a, <2>b DEF Behind, Attached
  <2>3. Ordered(s)'
    BY <1>1, <2>1 DEF Told, Ordered
  <2>4. Covered(s)'
    BY <1>1, <1>2, <1>3, <1>5, <2>1 DEF Told, Covered
  <2> QED
    BY <2>2, <2>3, <2>4 DEF Told
<1> QED
  BY <1>4, <1>5

\* A filter drops nothing that was asked for.
LEMMA FiltersKeep ==
  ASSUME NEW s \in Subscribers, NEW e, Asked(s, e)
  PROVE  Matches(s, e)
BY DEF Asked, Matches

LEMMA RecvInv ==
  ASSUME IInv, NEW s \in Subscribers, RecvLagged(s) \/ RecvEvent(s)
  PROVE  Told(s)'
<1>1. /\ Told(s) /\ TypeOK /\ sub[s] \in SubType /\ s \in DOMAIN sub /\ Len(log) \in Nat
      /\ sub[s].next \in Nat
  BY DEF IInv, TypeOK, SubType
<1>2. CASE RecvLagged(s)
  <2> DEFINE f == [lagged |-> TRUE, from |-> sub[s].next, n |-> Oldest - sub[s].next]
  <2>1. f \in Frames /\ Oldest \in Nat /\ Oldest <= Len(log) + 1 /\ sub[s].next < Oldest
    BY <1>1, <1>2, LaggedFrame DEF RecvLagged, Told
  <2>2. f.from = sub[s].next /\ f.from + f.n = Oldest
    BY <1>1, <2>1
  <2>3. sub'[s] = [sub[s] EXCEPT !.pc = "write", !.next = Oldest, !.frame = f]
    BY <1>1, <1>2 DEF RecvLagged
  <2>4. sub[s].pc = "select" /\ log' = log /\ sent' = sent /\ sub[s].next <= Oldest
    BY <1>1, <1>2, <2>1 DEF RecvLagged, Ready, world
  <2> HIDE DEF f
  <2> QED
    BY <1>1, <2>1, <2>2, <2>3, <2>4, Received
<1>3. CASE RecvEvent(s)
  <2> DEFINE p == sub[s].next
             f == [lagged |-> FALSE, from |-> p, n |-> 1]
  <2>1. f \in Frames /\ p + 1 \in Nat /\ p <= p + 1 /\ p + 1 <= Len(log) + 1
    BY <1>1, <1>3 DEF RecvEvent, Ready, Frames
  <2>2. f.from = p /\ f.from + f.n = p + 1
    OBVIOUS
  <2>3. \/ sub'[s] = [sub[s] EXCEPT !.pc = "write", !.next = p + 1, !.frame = f]
        \/ /\ sub'[s] = [sub[s] EXCEPT !.next = p + 1]
           /\ \A r \in p .. p : ~ Asked(s, log[r])
    BY <1>1, <1>3, FiltersKeep DEF RecvEvent
  <2>4. \A r \in p .. (p + 1) - 1 : r \in p .. p
    BY <1>1
  <2>5. sub[s].pc = "select" /\ log' = log /\ sent' = sent
    BY <1>3 DEF RecvEvent, Ready, world
  <2> HIDE DEF f
  <2> QED
    BY <1>1, <2>1, <2>2, <2>3, <2>4, <2>5, Received
<1> QED
  BY <1>2, <1>3

LEMMA WriteInv ==
  ASSUME IInv, NEW s \in Subscribers, Write(s)
  PROVE  Told(s)'
<1>1. /\ Told(s) /\ sub[s] \in SubType /\ s \in DOMAIN sub /\ s \in DOMAIN sent
  BY DEF IInv, TypeOK
<1>2. CASE Closed(s)
  BY <1>1, <1>2, GoneKeep DEF Write, Goes, SubType
<1>3. CASE ~ Closed(s)
  <2>1. /\ sub'[s].pc = "select" /\ sub'[s].next = sub[s].next /\ sub'[s].since = sub[s].since
        /\ sub'[s].ask = sub[s].ask /\ sub'[s].ids = sub[s].ids
        /\ sent'[s] = Append(sent[s], sub[s].frame) /\ log' = log
    BY <1>1, <1>3 DEF Write, SubType, world
  <2>2. Stream(s)' = Stream(s) /\ sub[s].pc = "write"
    BY <1>3, <2>1 DEF Stream, Write
  <2>3. \A e : Asked(s, e)' = Asked(s, e)
    BY <2>1 DEF Asked, TopicAsked
  <2> QED
    BY <1>1, <2>1, <2>2, <2>3 DEF Told, Behind, Covered, Ordered, Attached
<1> QED
  BY <1>2, <1>3

LEMMA StepInv == IInv /\ [Next]_vars => IInv'
<1> SUFFICES ASSUME IInv, [Next]_vars, NEW s \in Subscribers PROVE Told(s)'
  BY TypeStep DEF IInv
<1>1. TypeOK
  BY DEF IInv
<1>2. CASE \/ \E a \in Names : Insert(a)
           \/ \E i \in Ids : Remove(i)
           \/ \E t \in Topics, i \in Ids, a \in Names : Publish(t, i, a)
           \/ ShutDown \/ UNCHANGED vars
  BY <1>2, OthersKeep DEF Insert, Remove, Publish, ShutDown, vars
<1>3. CASE Exit
  <2>1. \/ sub'[s].pc = "gone"
        \/ sub'[s] = sub[s]
    <3>1. sub[s] \in SubType
      BY <1>1 DEF TypeOK
    <3> QED
      BY <1>3, <3>1 DEF Exit, SubType
  <2> QED
    BY <1>3, <2>1, OthersKeep, GoneKeep DEF Exit
<1>4. ASSUME NEW t \in Subscribers,
             \/ \E r \in Asks : Ask(t, r)
             \/ HandlerStep(t) \/ Read(t) \/ Eof(t) \/ Close(t)
      PROVE  Told(s)'
  <2>1. CASE s # t
    <3>1. UNCHANGED <<sub[s], sent[s]>>
      BY <1>1, <1>4, <2>1 DEF Ask, HandlerStep, Reply, Attach, ResolveTarget, RecvLagged, RecvEvent,
                 HangUp, Write, Read, Eof, Close, Goes, TypeOK
    <3> QED
      BY <3>1, OthersKeep
  <2>2. CASE s = t /\ HangUp(s)
    BY <1>1, <2>2, GoneKeep DEF HangUp, Goes, TypeOK, SubType
  <2>3. CASE s = t /\ (Read(s) \/ Eof(s) \/ Close(s))
    BY <2>3, OthersKeep DEF Read, Eof, Close
  <2> QED
    BY <1>4, <2>1, <2>2, <2>3, BeforeReading, RecvInv, WriteInv DEF HandlerStep
<1> QED
  BY <1>2, <1>3, <1>4 DEF Next

LEMMA InvHolds == Spec => []IInv
BY InitInv, StepInv, PTL DEF Spec

\* Every variable of the bus has its type.
THEOREM TypesHold == Spec => []TypeOK
<1>1. IInv => TypeOK
  BY DEF IInv
<1> QED
  BY <1>1, InvHolds, PTL

\* What a subscriber misses it is told of, in its place, whatever the sizes of the ring
\* and of the sockets (forward_events).
THEOREM NothingIsLostSilently == Spec => []NothingLostSilently
<1>1. IInv => NothingLostSilently
  BY DEF IInv, NothingLostSilently, Told, Covered, Ordered
<1> QED
  BY <1>1, InvHolds, PTL

-----------------------------------------------------------------------------
(* What a subscription by name shows.                                      *)

\* An id has had the name that it has, and those that its events are of.
Owned ==
  /\ \A i \in Ids : table[i] # NoName => table[i] \in had[i]
  /\ \A p \in 1 .. Len(log) : IsAboutProcess(log[p]) => log[p].name \in had[log[p].id]

NamesOf(s) == sub[s].ask.target.of

\* Ids that names were resolved to have had one of them.
IdsNamed(s) ==
  sub[s].pc \in {"select", "write"} /\ sub[s].ask.target.kind = "names" =>
    \A i \in sub[s].ids : had[i] \cap NamesOf(s) # {}

\* What a frame shows that is no notice of a lag.
Shows(s, f) ==
  ~ f.lagged =>
    /\ f.from \in 1 .. Len(log) /\ TopicAsked(sub[s].ask, log[f.from])
    /\ \/ Asked(s, log[f.from])
       \/ /\ IsAboutProcess(log[f.from])
          /\ log[f.from].name \in had[log[f.from].id] /\ had[log[f.from].id] \cap NamesOf(s) # {}

AllShown(s) == \A k \in 1 .. Len(Stream(s)) : Shows(s, Stream(s)[k])

FInv == Owned /\ \A s \in Subscribers : IdsNamed(s) /\ AllShown(s)

LEMMA EventTypes ==
  ASSUME TypeOK, NEW p \in 1 .. Len(log), IsAboutProcess(log[p])
  PROVE  log[p].id \in Ids /\ log[p].name \in Names
<1>1. log[p] \in Events
  BY DEF TypeOK
<1> QED
  BY <1>1, BusAssumption DEF Events, IsAboutProcess

\* What an id has had it will have had.
LEMMA HadGrows ==
  ASSUME TypeOK, [Next]_vars
  PROVE  \A i \in Ids : had[i] \subseteq had'[i]
<1>1. CASE \E a \in Names : Insert(a)
  BY <1>1 DEF Insert, TypeOK
<1>2. CASE had' = had
  BY <1>2
<1>3. (\E a \in Names : Insert(a)) \/ had' = had
  BY DEF Next, Remove, Publish, ShutDown, Exit, Ask, HandlerStep, Reply, Attach, ResolveTarget, RecvLagged,
     RecvEvent, HangUp, Write, Read, Eof, Close, world, vars
<1> QED
  BY <1>1, <1>2, <1>3

LEMMA OwnedStep == ASSUME TypeOK, Owned, [Next]_vars PROVE Owned'
<1>1. \A i \in Ids : had[i] \subseteq had'[i]
  BY HadGrows
<1>2. CASE \E a \in Names : Insert(a)
  <2>1. PICK a \in Names : Insert(a)
    BY <1>2
  <2> DEFINE j == IF Rows = {} THEN 0 ELSE nextId
  <2>2. /\ j \in Ids /\ table' = [table EXCEPT ![j] = a] /\ had' = [had EXCEPT ![j] = @ \cup {a}]
        /\ log' = log
    BY <2>1, BusAssumption DEF Insert, TypeOK, Ids
  <2> HIDE DEF j
  <2>3. \A i \in Ids : table'[i] # NoName => table'[i] \in had'[i]
    BY <2>2 DEF Owned, TypeOK
  <2>4. ASSUME NEW p \in 1 .. Len(log), IsAboutProcess(log[p])
        PROVE  log[p].name \in had'[log[p].id]
    BY <1>1, <2>4, EventTypes DEF Owned
  <2> QED
    BY <2>2, <2>3, <2>4 DEF Owned, IsAboutProcess
<1>3. CASE \E i \in Ids : Remove(i)
  BY <1>3 DEF Remove, Owned, TypeOK, IsAboutProcess
<1>4. CASE \E t \in Topics, i \in Ids, a \in Names : Publish(t, i, a)
  <2>1. PICK t \in Topics, i \in Ids, a \in Names : Publish(t, i, a)
    BY <1>4
  <2>2. /\ log' = Append(log, [topic |-> t, id |-> i, name |-> a]) /\ a \in had[i]
        /\ table' = table /\ had' = had
    BY <2>1 DEF Publish
  <2>3. /\ Len(log') = Len(log) + 1 /\ Len(log) \in Nat
        /\ log'[Len(log) + 1] = [topic |-> t, id |-> i, name |-> a]
        /\ \A p \in 1 .. Len(log) : log'[p] = log[p]
    BY <2>2 DEF TypeOK
  <2> QED
    BY <2>2, <2>3 DEF Owned, IsAboutProcess
<1>5. CASE ShutDown
  <2>1. table' = table /\ had' = had
    BY <1>5 DEF ShutDown
  <2>2. \/ log' = log
        \/ log' = Append(log, [topic |-> Kill, id |-> 0, name |-> NoName])
    BY <1>5 DEF ShutDown
  <2>3. CASE log' = Append(log, [topic |-> Kill, id |-> 0, name |-> NoName])
    <3>1. /\ Len(log') = Len(log) + 1 /\ Len(log) \in Nat
          /\ log'[Len(log) + 1].topic = Kill
          /\ \A p \in 1 .. Len(log) : log'[p] = log[p]
      BY <2>3 DEF TypeOK
    <3> QED
      BY <2>1, <3>1 DEF Owned, IsAboutProcess
  <2> QED
    BY <2>1, <2>2, <2>3 DEF Owned, IsAboutProcess
<1>6. UNCHANGED <<table, had, log>> => Owned'
  BY DEF Owned, IsAboutProcess
<1>7. CASE Exit \/ UNCHANGED vars
  BY <1>6, <1>7 DEF Exit, vars
<1>8. CASE \E s \in Subscribers : \/ \E r \in Asks : Ask(s, r)
                                 \/ HandlerStep(s) \/ Read(s) \/ Eof(s) \/ Close(s)
  BY <1>6, <1>8 DEF HandlerStep, Ask, Reply, Attach, ResolveTarget, RecvLagged, RecvEvent, HangUp,
     Write, Read, Eof, Close, world
<1> QED
  BY <1>2, <1>3, <1>4, <1>5, <1>7, <1>8 DEF Next

\* A frame shows later what it shows now, while the request and its ids are the same.
LEMMA ShowsKeep ==
  ASSUME TypeOK, [Next]_vars, NEW s \in Subscribers, NEW f, Shows(s, f),
         sub'[s].ask = sub[s].ask, sub'[s].ids = sub[s].ids
  PROVE  Shows(s, f)'
<1> SUFFICES ASSUME ~ f.lagged
             PROVE  /\ f.from \in 1 .. Len(log') /\ TopicAsked(sub[s].ask, log'[f.from])
                    /\ \/ Asked(s, log[f.from])'
                       \/ /\ IsAboutProcess(log'[f.from])
                          /\ log'[f.from].name \in had'[log'[f.from].id]
                          /\ had'[log'[f.from].id] \cap NamesOf(s) # {}
  BY DEF Shows, NamesOf, TopicAsked, IsAboutProcess
<1>1. f.from \in 1 .. Len(log) /\ f.from \in 1 .. Len(log') /\ log'[f.from] = log[f.from]
  BY LogGrows DEF Shows
<1>2. Asked(s, log[f.from])' <=> Asked(s, log[f.from])
  BY <1>1 DEF Asked, TopicAsked, IsAboutProcess
<1>3. IsAboutProcess(log[f.from]) => had[log[f.from].id] \subseteq had'[log[f.from].id]
  BY <1>1, HadGrows, EventTypes
<1>4. /\ TopicAsked(sub[s].ask, log[f.from])
      /\ \/ Asked(s, log[f.from])
         \/ /\ IsAboutProcess(log[f.from])
            /\ log[f.from].name \in had[log[f.from].id] /\ had[log[f.from].id] \cap NamesOf(s) # {}
  BY DEF Shows
<1> QED
  BY <1>1, <1>2, <1>3, <1>4

\* What was sent is the stream, or all of it but a pending frame.
LEMMA SentIsStream ==
  ASSUME TypeOK, NEW s \in Subscribers
  PROVE  \A k \in 1 .. Len(sent[s]) : \E j \in 1 .. Len(Stream(s)) : sent[s][k] = Stream(s)[j]
<1>1. sent[s] \in Seq(Frames) /\ sub[s].frame \in Frames
  BY DEF TypeOK, SubType
<1>2. \A k \in 1 .. Len(sent[s]) : k \in 1 .. Len(Stream(s)) /\ sent[s][k] = Stream(s)[k]
  BY <1>1 DEF Stream
<1> QED
  BY <1>2

\* The next frames are among the present ones, for the same request.
LEMMA StreamKeeps ==
  ASSUME TypeOK, FInv, [Next]_vars, NEW s \in Subscribers,
         sub'[s].ask = sub[s].ask, sub'[s].ids = sub[s].ids,
         sub'[s].pc \in {"select", "write"} => sub[s].pc \in {"select", "write"},
         \A k \in 1 .. Len(Stream(s)') : \E j \in 1 .. Len(Stream(s)) : Stream(s)'[k] = Stream(s)[j]
  PROVE  (IdsNamed(s) /\ AllShown(s))'
<1>1. AllShown(s)'
  BY ShowsKeep DEF FInv, AllShown
<1>2. sub[s].ids \subseteq Ids
  BY DEF TypeOK, SubType
<1>3. IdsNamed(s)'
  BY <1>2, HadGrows DEF FInv, IdsNamed, NamesOf
<1> QED
  BY <1>1, <1>3

\* A receiver takes a frame.
LEMMA FrameTaken ==
  ASSUME TypeOK, FInv, [Next]_vars, NEW s \in Subscribers, sub[s].pc = "select", sent' = sent,
         sub'[s].ask = sub[s].ask, sub'[s].ids = sub[s].ids, sub'[s].pc = "write",
         Shows(s, sub'[s].frame)
  PROVE  (IdsNamed(s) /\ AllShown(s))'
<1>1. /\ Stream(s)' = Append(sent[s], sub'[s].frame) /\ Stream(s) = sent[s]
      /\ sent[s] \in Seq(Frames)
  BY DEF Stream, TypeOK
<1>2. ASSUME NEW k \in 1 .. Len(Stream(s)') PROVE Shows(s, Stream(s)'[k])
  BY <1>1 DEF FInv, AllShown
<1>3. AllShown(s)'
  BY <1>2, ShowsKeep DEF AllShown
<1>4. sub[s].ids \subseteq Ids
  BY DEF TypeOK, SubType
<1>5. IdsNamed(s)'
  BY <1>4, HadGrows DEF FInv, IdsNamed, NamesOf
<1> QED
  BY <1>3, <1>5

\* What passes the filters is what was asked for, or comes from an id that a name was
\* resolved to.
LEMMA FiltersPass ==
  ASSUME TypeOK, FInv, NEW s \in Subscribers, sub[s].pc = "select", NEW p \in 1 .. Len(log),
         Matches(s, log[p])
  PROVE  Shows(s, [lagged |-> FALSE, from |-> p, n |-> 1])
<1>1. TopicAsked(sub[s].ask, log[p])
  BY DEF Matches
<1>2. sub[s].ask.target.kind \in {"none", "all", "ids", "names"}
  BY BusAssumption DEF TypeOK, SubType, NoAsk, TargetSet
<1>3. CASE ~ Asked(s, log[p])
  <2> DEFINE kind == sub[s].ask.target.kind
  <2>a. IsAboutProcess(log[p]) /\ kind # "none"
    BY <1>1, <1>3 DEF Asked
  <2>b. log[p].id \in sub[s].ids \/ (kind = "names" /\ log[p].name \in sub[s].ask.target.of)
    BY <2>a DEF Matches
  <2>1. /\ IsAboutProcess(log[p]) /\ sub[s].ask.target.kind = "names"
        /\ log[p].id \in sub[s].ids
    <3>1. CASE kind = "names"
      <4>1. log[p].name \notin sub[s].ask.target.of
        BY <1>1, <1>3, <2>a, <3>1 DEF Asked
      <4> QED
        BY <2>a, <2>b, <3>1, <4>1
    <3>2. CASE kind # "names"
      <4>1. log[p].id \in sub[s].ids
        BY <2>b, <3>2
      <4>2. Asked(s, log[p])
        BY <1>1, <2>a, <3>2, <4>1 DEF Asked
      <4> QED
        BY <1>3, <4>2
    <3> QED
      BY <3>1, <3>2
  <2>2. log[p].name \in had[log[p].id] /\ had[log[p].id] \cap NamesOf(s) # {}
    BY <2>1 DEF FInv, Owned, IdsNamed
  <2> QED
    BY <1>1, <2>1, <2>2 DEF Shows
<1> QED
  BY <1>1, <1>3 DEF Shows

LEMMA HandlerShows ==
  ASSUME IInv, FInv, [Next]_vars, NEW s \in Subscribers,
         HandlerStep(s) \/ \E r \in Asks : Ask(s, r)
  PROVE  (IdsNamed(s) /\ AllShown(s))'
<1>1. /\ TypeOK /\ Told(s) /\ sub[s] \in SubType /\ s \in DOMAIN sub /\ s \in DOMAIN sent
      /\ sent[s] \in Seq(Frames) /\ sub[s].frame \in Frames
  BY DEF IInv, TypeOK, SubType
<1>2. CASE Reply(s) \/ Attach(s) \/ \E r \in Asks : Ask(s, r)
  <2>1. sub[s].pc \in {"idle", "asked", "attach"} /\ sent' = sent
    BY <1>2 DEF Reply, Attach, Ask
  <2>2. sent'[s] = <<>>
    BY <1>1, <2>1 DEF Told, Behind
  <2>3. sub'[s].pc \in {"asked", "attach", "resolve", "gone"}
    <3>1. CASE Reply(s)
      BY <1>1, <3>1 DEF Reply, Goes, SubType
    <3>2. CASE Attach(s)
      BY <1>1, <3>2 DEF Attach, SubType
    <3>3. CASE \E r \in Asks : Ask(s, r)
      BY <1>1, <3>3 DEF Ask, IdleSub
    <3> QED
      BY <1>2, <3>1, <3>2, <3>3
  <2>4. Stream(s)' = <<>>
    BY <2>2, <2>3 DEF Stream
  <2> QED
    BY <2>3, <2>4 DEF IdsNamed, AllShown
<1>3. CASE ResolveTarget(s)
  <2>1. /\ sub'[s].pc = "select" /\ sub'[s].ask = sub[s].ask /\ had' = had
        /\ sub'[s].ids = Resolved(sub[s].ask.target) /\ sent'[s] = <<>>
    BY <1>1, <1>3 DEF ResolveTarget, Told, Behind, SubType, world
  <2>2. Stream(s)' = <<>>
    BY <2>1 DEF Stream
  <2>3. ASSUME sub[s].ask.target.kind = "names", NEW i \in Resolved(sub[s].ask.target)
        PROVE  had[i] \cap NamesOf(s) # {}
    <3>1. i \in Rows /\ table[i] \in NamesOf(s)
      BY <2>3 DEF Resolved, NamesOf
    <3> QED
      BY <3>1 DEF Rows, FInv, Owned
  <2>4. IdsNamed(s)'
    BY <2>1, <2>3 DEF IdsNamed, NamesOf
  <2> QED
    BY <2>2, <2>4 DEF AllShown
<1>4. CASE RecvLagged(s)
  <2>1. /\ sub[s].pc = "select" /\ sub'[s].ask = sub[s].ask /\ sub'[s].ids = sub[s].ids
        /\ sub'[s].pc = "write" /\ sub'[s].frame.lagged /\ sent' = sent
    BY <1>1, <1>4 DEF RecvLagged, Ready, SubType
  <2> QED
    BY <1>1, <2>1, FrameTaken DEF Shows
<1>5. CASE RecvEvent(s)
  <2> DEFINE p == sub[s].next
             f == [lagged |-> FALSE, from |-> p, n |-> 1]
  <2>1. sub[s].pc = "select" /\ sent' = sent /\ p \in 1 .. Len(log)
    <3>1. p \in Nat /\ sub[s].since \in Nat /\ Len(log) \in Nat
      BY <1>1 DEF SubType, TypeOK
    <3> QED
      BY <1>1, <1>5, <3>1 DEF RecvEvent, Ready, Told, Behind, Attached
  <2>2. CASE Matches(s, log[p])
    <3>1. /\ sub'[s].ask = sub[s].ask /\ sub'[s].ids = sub[s].ids /\ sub'[s].pc = "write"
          /\ sub'[s].frame = f
      BY <1>1, <1>5, <2>2 DEF RecvEvent, SubType
    <3>2. Shows(s, f)
      BY <1>1, <2>1, <2>2, FiltersPass
    <3> HIDE DEF f
    <3> QED
      BY <1>1, <2>1, <3>1, <3>2, FrameTaken
  <2>3. CASE ~ Matches(s, log[p])
    <3>1. /\ sub'[s].ask = sub[s].ask /\ sub'[s].ids = sub[s].ids /\ sub'[s].pc = "select"
          /\ Stream(s)' = Stream(s)
      BY <1>1, <1>5, <2>1, <2>3 DEF RecvEvent, SubType, Stream
    <3> QED
      BY <1>1, <2>1, <3>1, StreamKeeps
  <2> QED
    BY <2>2, <2>3
<1>6. CASE HangUp(s) \/ (Write(s) /\ Closed(s))
  <2>1. /\ sub'[s].ask = sub[s].ask /\ sub'[s].ids = sub[s].ids /\ sub'[s].pc = "gone"
        /\ Stream(s)' = sent[s]
    BY <1>1, <1>6 DEF HangUp, Write, Goes, SubType, Stream
  <2> QED
    BY <1>1, <2>1, SentIsStream, StreamKeeps
<1>7. CASE Write(s) /\ ~ Closed(s)
  <2>1. /\ sub'[s].ask = sub[s].ask /\ sub'[s].ids = sub[s].ids /\ sub'[s].pc = "select"
        /\ Stream(s)' = Stream(s) /\ sub[s].pc = "write"
    BY <1>1, <1>7 DEF Write, SubType, Stream
  <2> QED
    BY <1>1, <2>1, StreamKeeps
<1> QED
  BY <1>2, <1>3, <1>4, <1>5, <1>6, <1>7 DEF HandlerStep

LEMMA FStep == IInv /\ FInv /\ [Next]_vars => FInv'
<1> SUFFICES ASSUME IInv, FInv, [Next]_vars, NEW s \in Subscribers
             PROVE  (IdsNamed(s) /\ AllShown(s))'
  BY OwnedStep DEF IInv, FInv
<1>1. TypeOK /\ sub[s] \in SubType
  BY DEF IInv, TypeOK
<1>2. CASE UNCHANGED <<sub[s], sent[s]>>
  <2>1. Stream(s)' = Stream(s)
    BY <1>2 DEF Stream
  <2> QED
    BY <1>1, <1>2, <2>1, StreamKeeps
<1>3. CASE Exit
  <2>1. CASE sub[s].pc = "idle"
    <3>1. UNCHANGED <<sub[s], sent[s]>>
      BY <1>1, <1>3, <2>1 DEF Exit, SubType
    <3> QED
      BY <1>2, <3>1
  <2>2. CASE sub[s].pc # "idle"
    <3>1. /\ sub'[s].ask = sub[s].ask /\ sub'[s].ids = sub[s].ids /\ sub'[s].pc = "gone"
          /\ Stream(s)' = sent[s]
      BY <1>1, <1>3, <2>2 DEF Exit, SubType, Stream
    <3> QED
      BY <1>1, <3>1, SentIsStream, StreamKeeps
  <2> QED
    BY <2>1, <2>2
<1>4. CASE HandlerStep(s) \/ \E r \in Asks : Ask(s, r)
  BY <1>4, HandlerShows
<1>5. UNCHANGED <<sub[s], sent[s]>> \/ Exit \/ HandlerStep(s) \/ \E r \in Asks : Ask(s, r)
  <2>1. CASE \/ \E a \in Names : Insert(a)
             \/ \E i \in Ids : Remove(i)
             \/ \E t \in Topics, i \in Ids, a \in Names : Publish(t, i, a)
             \/ ShutDown \/ Exit \/ UNCHANGED vars
    BY <2>1 DEF Insert, Remove, Publish, ShutDown, vars
  <2>2. ASSUME NEW t \in Subscribers,
               \/ \E r \in Asks : Ask(t, r)
               \/ HandlerStep(t) \/ Read(t) \/ Eof(t) \/ Close(t)
        PROVE  UNCHANGED <<sub[s], sent[s]>> \/ HandlerStep(s) \/ \E r \in Asks : Ask(s, r)
    <3>1. CASE s # t
      BY <1>1, <2>2, <3>1 DEF Ask, HandlerStep, Reply, Attach, ResolveTarget, RecvLagged, RecvEvent,
         HangUp, Write, Read, Eof, Close, Goes, TypeOK
    <3>2. CASE s = t
      BY <2>2, <3>2 DEF Read, Eof, Close
    <3> QED
      BY <3>1, <3>2
  <2> QED
    BY <2>1, <2>2 DEF Next
<1> QED
  BY <1>2, <1>3, <1>4, <1>5

LEMMA FInit == Init => FInv
BY DEF Init, FInv, Owned, IdsNamed, AllShown, Stream, IdleSub

\* A subscription by name shows an event of another app only if both have had its id
\* (forward_events against alloc_id).
THEOREM ForeignOnlyAfterReuse == Spec => []ForeignAfterReuse
<1>1. IInv /\ FInv => ForeignAfterReuse
  <2> SUFFICES ASSUME IInv, FInv, NEW s \in Subscribers, NEW k \in 1 .. Len(Stream(s)),
                      ~ Stream(s)[k].lagged, ~ Asked(s, log[Stream(s)[k].from])
               PROVE  LET e == log[Stream(s)[k].from]
                      IN /\ TopicAsked(sub[s].ask, e)
                         /\ e.name \in had[e.id] /\ had[e.id] \cap sub[s].ask.target.of # {}
    BY DEF ForeignAfterReuse
  <2>1. Shows(s, Stream(s)[k])
    BY DEF FInv, AllShown
  <2> QED
    BY <2>1 DEF Shows, NamesOf
<1> QED
  BY <1>1, FInit, InvHolds, FStep, PTL DEF Spec

=============================================================================
