-------------------------- MODULE EventStreamProofs --------------------------
(***************************************************************************)
(* What is proved of the event stream for any number of publishers, streams, *)
(* queue size and log length.                                                *)
(***************************************************************************)
EXTENDS EventStream, FiniteSetTheorems, SequenceTheorems, TLAPS

-----------------------------------------------------------------------------
(* Sequences: what appending and taking the tail do to the type.             *)

(* A sequence over a set is one over any larger set: the log only grows.     *)
LEMMA SeqGrows == ASSUME NEW S, NEW T, S \subseteq T PROVE Seq(S) \subseteq Seq(T)
  OBVIOUS

(* What Tail and Head return.                                                *)
LEMMA TailKeeps ==
  ASSUME NEW S, NEW s \in Seq(S), s # <<>>
  PROVE /\ Tail(s) \in Seq(S) /\ Head(s) \in S
        /\ Len(Tail(s)) = Len(s) - 1
  OBVIOUS

(* What Append returns.                                                      *)
LEMMA AppendLonger ==
  ASSUME NEW S, NEW s \in Seq(S), NEW x \in S
  PROVE /\ Append(s, x) \in Seq(S) /\ Len(Append(s, x)) = Len(s) + 1
        /\ Len(s) \in Nat
  OBVIOUS

-----------------------------------------------------------------------------
(* TypeOK.                                                                   *)

(* Everything starts empty and well typed.                                   *)
LEMMA InitTyped == Init => TypeOK
  BY DEF Init, TypeOK, Events, Steps

(* Every step keeps every variable's type; an event in hand is one of the    *)
(* log.                                                                      *)
LEMMA NextTyped == TypeOK /\ [Next]_vars => TypeOK'
<1> SUFFICES ASSUME TypeOK, [Next]_vars PROVE TypeOK'
  OBVIOUS
<1>1. ASSUME NEW p \in Publishers, NEW type \in Types, Record(p, type) PROVE TypeOK'
  BY <1>1 DEF Record, publishing, TypeOK, Events, Steps
<1>2. ASSUME NEW p \in Publishers, Snapshot(p) PROVE TypeOK'
  BY <1>2 DEF Snapshot, publishing, TypeOK, Events, Steps
<1>3. ASSUME NEW p \in Publishers, NEW c \in Connections, Deliver(p, c) PROVE TypeOK'
  <2>1. hand[p] \in Events
    BY <1>3 DEF Deliver, TypeOK, Events
  <2>2. queue' \in [Connections -> Seq(Events)]
    <3>1. Append(queue[c], hand[p]) \in Seq(Events)
      BY <2>1, AppendLonger DEF TypeOK
    <3>2. \/ queue' = queue
          \/ queue' = [queue EXCEPT ![c] = Append(@, hand[p])]
      BY <1>3 DEF Deliver
    <3> QED
      BY <3>1, <3>2 DEF TypeOK
  <2>3. dropped' \in [Connections -> SUBSET Events]
    <3>1. dropped[c] \cup {hand[p]} \in SUBSET Events
      BY <2>1 DEF TypeOK
    <3>2. \/ dropped' = dropped
          \/ dropped' = [dropped EXCEPT ![c] = @ \cup {hand[p]}]
      BY <1>3 DEF Deliver
    <3> QED
      BY <3>1, <3>2 DEF TypeOK
  <2>4. /\ targets' \in [Publishers -> SUBSET Connections]
        /\ \A q \in Publishers : IF snapped[q] THEN hand[q] # 0 ELSE targets'[q] = {}
    BY <1>3 DEF Deliver, TypeOK
  <2> QED
    BY <1>3, <2>2, <2>3, <2>4 DEF Deliver, TypeOK, Events, Steps
<1>4. ASSUME NEW p \in Publishers, Published(p) PROVE TypeOK'
  BY <1>4 DEF Published, publishing, TypeOK, Events, Steps
<1>5. ASSUME NEW c \in Connections, NEW type \in Types \cup {AnyType}, Connect(c, type) PROVE TypeOK'
  BY <1>5 DEF Connect, Goto, publishing, TypeOK, Events, Steps
<1>6. ASSUME NEW c \in Connections, Leave(c) PROVE TypeOK'
  BY <1>6 DEF Leave, publishing, TypeOK, Events, Steps
<1>7. ASSUME NEW c \in Connections, SendHeaders(c) PROVE TypeOK'
  <2>1. peer' \in [Connections -> {"up", "left", "reset"}]
    BY <1>7 DEF SendHeaders, WriteSucceeds, WriteRaises, TypeOK
  <2>2. cpc' \in [Connections -> Steps]
    BY <1>7 DEF SendHeaders, Goto, TypeOK, Steps
  <2> QED
    BY <1>7, <2>1, <2>2 DEF SendHeaders, publishing, TypeOK, Events
<1>8. ASSUME NEW c \in Connections, Skip(c) PROVE TypeOK'
  BY <1>8 DEF Skip, publishing, TypeOK, Events, Steps
<1>9. ASSUME NEW c \in Connections, Write(c) PROVE TypeOK'
  <2>1. peer' \in [Connections -> {"up", "left", "reset"}]
    BY <1>9 DEF Write, WriteSucceeds, WriteRaises, TypeOK
  <2>2. cpc' \in [Connections -> Steps]
    BY <1>9 DEF Write, Goto, TypeOK, Steps
  <2>3. /\ queue' \in [Connections -> Seq(Events)]
        /\ delivered' \in [Connections -> Seq(Events)]
    <3>1. Tail(queue[c]) \in Seq(Events) /\ Head(queue[c]) \in Events
      BY <1>9, TailKeeps DEF Write, TypeOK
    <3>2. queue' \in [Connections -> Seq(Events)]
      BY <1>9, <3>1 DEF Write, TypeOK
    <3>3. Append(delivered[c], Head(queue[c])) \in Seq(Events)
      BY <3>1, AppendLonger DEF TypeOK
    <3>4. delivered' \in [Connections -> Seq(Events)]
      BY <1>9, <3>3 DEF Write, TypeOK
    <3> QED
      BY <3>2, <3>4
  <2> QED
    BY <1>9, <2>1, <2>2, <2>3 DEF Write, publishing, TypeOK, Events
<1>10. ASSUME NEW c \in Connections, Keepalive(c) PROVE TypeOK'
  BY <1>10 DEF Keepalive, Goto, WriteSucceeds, WriteRaises, publishing, TypeOK, Events, Steps
<1>11. ASSUME NEW c \in Connections, Unsubscribe(c) PROVE TypeOK'
  BY <1>11 DEF Unsubscribe, Goto, publishing, TypeOK, Events, Steps
<1>12. CASE UNCHANGED vars
  BY <1>12 DEF vars, publishing, TypeOK, Events, Steps
<1> QED
  BY <1>1, <1>2, <1>3, <1>4, <1>5, <1>6, <1>7, <1>8, <1>9, <1>10, <1>11, <1>12 DEF Next, PublisherStep, ConnectionStep

(* Every variable keeps its type, for any number of publishers, connections   *)
(* and records.                                                              *)
THEOREM Typing == Spec => []TypeOK
  BY InitTyped, NextTyped, PTL DEF Spec

-----------------------------------------------------------------------------
(* SlotsAccounted.                                                           *)

(* Every step keeps the slots accounted for: try_subscribe takes one on the  *)
(* way to the headers, the finally clause gives it back (daemon.py:415-444). *)
LEMMA NextSlots == TypeOK /\ SlotsAccounted /\ [Next]_vars => SlotsAccounted'
<1> SUFFICES ASSUME TypeOK, SlotsAccounted, [Next]_vars PROVE SlotsAccounted'
  OBVIOUS
<1>1. ASSUME NEW p \in Publishers, NEW type \in Types, Record(p, type) PROVE SlotsAccounted'
  BY <1>1 DEF Record, publishing, TypeOK, SlotsAccounted
<1>2. ASSUME NEW p \in Publishers, Snapshot(p) PROVE SlotsAccounted'
  BY <1>2 DEF Snapshot, publishing, TypeOK, SlotsAccounted
<1>3. ASSUME NEW p \in Publishers, NEW c \in Connections, Deliver(p, c) PROVE SlotsAccounted'
  BY <1>3 DEF Deliver, publishing, TypeOK, SlotsAccounted
<1>4. ASSUME NEW p \in Publishers, Published(p) PROVE SlotsAccounted'
  BY <1>4 DEF Published, publishing, TypeOK, SlotsAccounted
<1>5. ASSUME NEW c \in Connections, NEW type \in Types \cup {AnyType}, Connect(c, type) PROVE SlotsAccounted'
  BY <1>5 DEF Connect, Goto, publishing, TypeOK, SlotsAccounted
<1>6. ASSUME NEW c \in Connections, Leave(c) PROVE SlotsAccounted'
  BY <1>6 DEF Leave, publishing, TypeOK, SlotsAccounted
<1>7. ASSUME NEW c \in Connections, SendHeaders(c) PROVE SlotsAccounted'
  BY <1>7 DEF SendHeaders, Goto, WriteSucceeds, WriteRaises, publishing, TypeOK, SlotsAccounted
<1>8. ASSUME NEW c \in Connections, Skip(c) PROVE SlotsAccounted'
  BY <1>8 DEF Skip, publishing, TypeOK, SlotsAccounted
<1>9. ASSUME NEW c \in Connections, Write(c) PROVE SlotsAccounted'
  BY <1>9 DEF Write, Goto, WriteSucceeds, WriteRaises, publishing, TypeOK, SlotsAccounted
<1>10. ASSUME NEW c \in Connections, Keepalive(c) PROVE SlotsAccounted'
  BY <1>10 DEF Keepalive, Goto, WriteSucceeds, WriteRaises, publishing, TypeOK, SlotsAccounted
<1>11. ASSUME NEW c \in Connections, Unsubscribe(c) PROVE SlotsAccounted'
  BY <1>11 DEF Unsubscribe, Goto, publishing, TypeOK, SlotsAccounted
<1>12. CASE UNCHANGED vars
  BY <1>12 DEF vars, publishing, TypeOK, SlotsAccounted
<1> QED
  BY <1>1, <1>2, <1>3, <1>4, <1>5, <1>6, <1>7, <1>8, <1>9, <1>10, <1>11, <1>12 DEF Next, PublisherStep, ConnectionStep

(* Slots are held by exactly the running streams and the aborted ones.        *)
THEOREM SlotsAreAccounted == Spec => []SlotsAccounted
<1>1. Init => SlotsAccounted
  BY DEF Init, SlotsAccounted
<1> QED
  BY <1>1, Typing, NextSlots, PTL DEF Spec

-----------------------------------------------------------------------------
(* Bounded.                                                                  *)

(* Every step keeps the bounds: try_subscribe tests and adds in one step,    *)
(* put_nowait refuses a full queue (daemon.py:407-415, events.py:72-80).     *)
LEMMA NextBounded == TypeOK /\ Bounded /\ [Next]_vars => Bounded'
<1> SUFFICES ASSUME TypeOK, Bounded, [Next]_vars PROVE Bounded'
  OBVIOUS
<1> USE StreamAssumption
<1>1. ASSUME NEW p \in Publishers, NEW type \in Types, Record(p, type) PROVE Bounded'
  BY <1>1 DEF Record, publishing, TypeOK, Bounded
<1>2. ASSUME NEW p \in Publishers, Snapshot(p) PROVE Bounded'
  BY <1>2 DEF Snapshot, publishing, TypeOK, Bounded
<1>3. ASSUME NEW p \in Publishers, NEW c \in Connections, Deliver(p, c) PROVE Bounded'
  <2>1. CASE queue' = queue
    BY <1>3, <2>1 DEF Deliver, Bounded
  <2>2. CASE Len(queue[c]) < QueueSize /\ queue' = [queue EXCEPT ![c] = Append(@, hand[p])]
    <3>1. hand[p] \in Events
      BY <1>3 DEF Deliver, TypeOK, Events
    <3>2. Len(Append(queue[c], hand[p])) <= QueueSize
      BY <2>2, <3>1, AppendLonger DEF TypeOK
    <3> QED
      BY <1>3, <2>2, <3>2 DEF Deliver, TypeOK, Bounded
  <2> QED
    BY <1>3, <2>1, <2>2 DEF Deliver
<1>4. ASSUME NEW p \in Publishers, Published(p) PROVE Bounded'
  BY <1>4 DEF Published, publishing, TypeOK, Bounded
<1>5. ASSUME NEW c \in Connections, NEW type \in Types \cup {AnyType}, Connect(c, type) PROVE Bounded'
  <2>1. CASE subscribers' = subscribers
    BY <1>5, <2>1 DEF Connect, TypeOK, Bounded
  <2>2. CASE Cardinality(subscribers) < Cap /\ subscribers' = subscribers \cup {c}
    <3>1. IsFiniteSet(subscribers)
      BY FS_Subset DEF TypeOK
    <3>2. Cardinality(subscribers) \in Nat
      BY <3>1, FS_CardinalityType
    <3>3. Cardinality(subscribers \cup {c}) =
            IF c \in subscribers THEN Cardinality(subscribers) ELSE Cardinality(subscribers) + 1
      BY <3>1, FS_AddElement
    <3>4. Cardinality(subscribers') <= Cap
      BY <2>2, <3>2, <3>3
    <3> QED
      BY <1>5, <3>4 DEF Connect, Bounded
  <2> QED
    BY <1>5, <2>1, <2>2 DEF Connect
<1>6. ASSUME NEW c \in Connections, Leave(c) PROVE Bounded'
  BY <1>6 DEF Leave, publishing, TypeOK, Bounded
<1>7. ASSUME NEW c \in Connections, SendHeaders(c) PROVE Bounded'
  BY <1>7 DEF SendHeaders, Goto, WriteSucceeds, WriteRaises, publishing, TypeOK, Bounded
<1>8. ASSUME NEW c \in Connections, Skip(c) PROVE Bounded'
  BY <1>8 DEF Skip, publishing, TypeOK, Bounded
<1>9. ASSUME NEW c \in Connections, Write(c) PROVE Bounded'
  BY <1>9 DEF Write, Goto, WriteSucceeds, WriteRaises, publishing, TypeOK, Bounded
<1>10. ASSUME NEW c \in Connections, Keepalive(c) PROVE Bounded'
  BY <1>10 DEF Keepalive, Goto, WriteSucceeds, WriteRaises, publishing, TypeOK, Bounded
<1>11. ASSUME NEW c \in Connections, Unsubscribe(c) PROVE Bounded'
  <2>1. IsFiniteSet(subscribers)
    BY FS_Subset DEF TypeOK
  <2>2. Cardinality(subscribers) \in Nat
    BY <2>1, FS_CardinalityType
  <2>3. Cardinality(subscribers \ {c}) =
          IF c \in subscribers THEN Cardinality(subscribers) - 1 ELSE Cardinality(subscribers)
    BY <2>1, FS_RemoveElement
  <2>4. Cardinality(subscribers') <= Cap
    BY <1>11, <2>2, <2>3 DEF Unsubscribe, Bounded
  <2> QED
    BY <1>11, <2>4 DEF Unsubscribe, Bounded
<1>12. CASE UNCHANGED vars
  BY <1>12 DEF vars, publishing, TypeOK, Bounded
<1> QED
  BY <1>1, <1>2, <1>3, <1>4, <1>5, <1>6, <1>7, <1>8, <1>9, <1>10, <1>11, <1>12 DEF Next, PublisherStep, ConnectionStep

(* Neither the subscribers nor a queue outgrow their limits.                  *)
THEOREM LimitsHold == Spec => []Bounded
<1>1. Init => Bounded
  BY StreamAssumption, FS_EmptySet DEF Init, Bounded
<1> QED
  BY <1>1, Typing, NextBounded, PTL DEF Spec

-----------------------------------------------------------------------------
(* NothingElseLost.                                                          *)

(* Nothing is due to a connection that has not subscribed yet.               *)
NothingDueYet == \A c \in Connections : cpc[c] = "new" => due[c] = {}

(* Every step leaves a connection that has not subscribed without anything   *)
(* due to it.                                                                *)
LEMMA NextNotDue ==
  TypeOK /\ SlotsAccounted /\ NothingDueYet /\ [Next]_vars => NothingDueYet'
<1> SUFFICES ASSUME TypeOK, SlotsAccounted, NothingDueYet, [Next]_vars PROVE NothingDueYet'
  OBVIOUS
<1>1. ASSUME NEW p \in Publishers, NEW type \in Types, Record(p, type) PROVE NothingDueYet'
  BY <1>1 DEF Record, TypeOK, NothingDueYet
<1>2. ASSUME NEW p \in Publishers, Snapshot(p) PROVE NothingDueYet'
  BY <1>2 DEF Snapshot, SlotsAccounted, TypeOK, NothingDueYet
<1>3. ASSUME NEW p \in Publishers, NEW c \in Connections, Deliver(p, c) PROVE NothingDueYet'
  BY <1>3 DEF Deliver, TypeOK, NothingDueYet
<1>4. ASSUME NEW p \in Publishers, Published(p) PROVE NothingDueYet'
  BY <1>4 DEF Published, TypeOK, NothingDueYet
<1>5. ASSUME NEW c \in Connections, NEW type \in Types \cup {AnyType}, Connect(c, type) PROVE NothingDueYet'
  BY <1>5 DEF Connect, Goto, TypeOK, NothingDueYet
<1>6. ASSUME NEW c \in Connections, Leave(c) PROVE NothingDueYet'
  BY <1>6 DEF Leave, TypeOK, NothingDueYet
<1>7. ASSUME NEW c \in Connections, SendHeaders(c) PROVE NothingDueYet'
  BY <1>7 DEF SendHeaders, Goto, TypeOK, NothingDueYet
<1>8. ASSUME NEW c \in Connections, Skip(c) PROVE NothingDueYet'
  BY <1>8 DEF Skip, TypeOK, NothingDueYet
<1>9. ASSUME NEW c \in Connections, Write(c) PROVE NothingDueYet'
  BY <1>9 DEF Write, Goto, TypeOK, NothingDueYet
<1>10. ASSUME NEW c \in Connections, Keepalive(c) PROVE NothingDueYet'
  BY <1>10 DEF Keepalive, Goto, TypeOK, NothingDueYet
<1>11. ASSUME NEW c \in Connections, Unsubscribe(c) PROVE NothingDueYet'
  BY <1>11 DEF Unsubscribe, Goto, TypeOK, NothingDueYet
<1>12. CASE UNCHANGED vars
  BY <1>12 DEF vars, NothingDueYet
<1> QED
  BY <1>1, <1>2, <1>3, <1>4, <1>5, <1>6, <1>7, <1>8, <1>9, <1>10, <1>11, <1>12
     DEF Next, PublisherStep, ConnectionStep

(* Append adds one element to what a sequence holds.                         *)
LEMMA ContentsOfAppend ==
  ASSUME NEW S, NEW s \in Seq(S), NEW x \in S
  PROVE Contents(Append(s, x)) = Contents(s) \cup {x}
<1>1. ASSUME NEW y \in Contents(s) PROVE y \in Contents(Append(s, x))
  <2>1. PICK i \in DOMAIN s : y = s[i]
    BY DEF Contents
  <2>2. i \in DOMAIN Append(s, x) /\ Append(s, x)[i] = s[i]
    BY <2>1
  <2> QED
    BY <2>1, <2>2 DEF Contents
<1>2. x \in Contents(Append(s, x))
  <2>1. Len(s) + 1 \in DOMAIN Append(s, x) /\ Append(s, x)[Len(s) + 1] = x
    OBVIOUS
  <2> QED
    BY <2>1 DEF Contents
<1>3. ASSUME NEW y \in Contents(Append(s, x)) PROVE y \in Contents(s) \cup {x}
  <2>1. PICK i \in DOMAIN Append(s, x) : y = Append(s, x)[i]
    BY DEF Contents
  <2>2. i = Len(s) + 1 \/ (i \in DOMAIN s /\ Append(s, x)[i] = s[i])
    BY <2>1
  <2> QED
    BY <2>1, <2>2 DEF Contents
<1> QED
  BY <1>1, <1>2, <1>3

(* What a sequence holds is its head or in its tail.                         *)
LEMMA ContentsOfTail ==
  ASSUME NEW S, NEW s \in Seq(S), s # <<>>, NEW y \in Contents(s)
  PROVE y = Head(s) \/ y \in Contents(Tail(s))
<1>1. PICK i \in DOMAIN s : y = s[i]
  BY DEF Contents
<1>2. CASE i = 1
  BY <1>1, <1>2
<1>3. CASE i # 1
  <2>1. i - 1 \in DOMAIN Tail(s) /\ Tail(s)[i - 1] = s[i]
    BY <1>3
  <2> QED
    BY <1>1, <2>1 DEF Contents
<1> QED
  BY <1>2, <1>3

(* What is in flight and wanted depends on the publishers, the log and the     *)
(* filters alone.                                                            *)
LEMMA SameFlight ==
  ASSUME hand' = hand, targets' = targets, NEW c PROVE InFlight(c)' = InFlight(c)
  BY DEF InFlight

(* A step that leaves log and filters alone changes no type test.            *)
LEMMA SameWanted ==
  ASSUME log' = log, filter' = filter, NEW c, NEW e PROVE Wanted(c, e)' = Wanted(c, e)
  BY DEF Wanted

(* Every step keeps every event that is due accounted for: it moves from     *)
(* hand to queue or to dropped, and from the queue to the client             *)
(* (events.py:87-95, daemon.py:408-438).                                     *)
LEMMA NextLossless ==
  TypeOK /\ SlotsAccounted /\ NothingDueYet /\ NothingElseLost /\ [Next]_vars
    => NothingElseLost'
<1> SUFFICES ASSUME TypeOK, SlotsAccounted, NothingDueYet, NothingElseLost, [Next]_vars,
                    NEW d \in Connections, cpc'[d] \in {"headers", "loop"},
                    NEW e \in due'[d]
             PROVE  Accounted(d, e)'
  BY DEF NothingElseLost
(* Unless the step is about d, what held of e before it still does.           *)
<1>0. (cpc[d] \in {"headers", "loop"} /\ e \in due[d]) => Accounted(d, e)
  BY DEF NothingElseLost
<1>1. ASSUME NEW p \in Publishers, NEW type \in Types, Record(p, type)
      PROVE  Accounted(d, e)'
  <2>1. InFlight(d)' = InFlight(d)
    <3>1. \A q \in Publishers : d \in targets[q] => hand'[q] = hand[q]
      BY <1>1 DEF Record, TypeOK
    <3> QED
      BY <1>1, <3>1 DEF Record, InFlight
  <2>2. Wanted(d, e)' = Wanted(d, e)
    BY <1>1 DEF Record, Wanted, TypeOK, Events
  <2> QED
    BY <1>0, <1>1, <2>1, <2>2 DEF Record, Accounted
<1>2. ASSUME NEW p \in Publishers, Snapshot(p) PROVE Accounted(d, e)'
  <2>1. CASE e = hand[p] /\ d \in subscribers
    BY <1>2, <2>1 DEF Snapshot, Accounted, InFlight, TypeOK
  <2>2. CASE e \in due[d]
    <3>1. InFlight(d) \subseteq InFlight(d)'
      BY <1>2 DEF Snapshot, InFlight, TypeOK
    <3> QED
      BY <1>0, <1>2, <2>2, <3>1, SameWanted DEF Snapshot, Accounted
  <2> QED
    BY <1>2, <2>1, <2>2 DEF Snapshot, TypeOK
<1>3. ASSUME NEW p \in Publishers, NEW c \in Connections, Deliver(p, c)
      PROVE  Accounted(d, e)'
  <2>0. hand[p] \in Events /\ queue[c] \in Seq(Events)
    BY <1>3 DEF Deliver, TypeOK
  <2>1. CASE e = hand[p] /\ d = c
    <3>1. CASE queue' = [queue EXCEPT ![c] = Append(@, hand[p])]
      BY <2>0, <2>1, <3>1, ContentsOfAppend DEF Accounted, TypeOK
    <3>2. CASE dropped' = [dropped EXCEPT ![c] = @ \cup {hand[p]}]
      BY <2>1, <3>2 DEF Accounted, TypeOK
    <3> QED
      BY <1>3, <3>1, <3>2 DEF Deliver
  <2>2. CASE ~(e = hand[p] /\ d = c)
    <3>1. e \in InFlight(d) => e \in InFlight(d)'
      BY <1>3, <2>2 DEF Deliver, InFlight, TypeOK
    <3>2. Contents(queue[d]) \subseteq Contents(queue'[d])
      <4>1. Contents(queue[c]) \subseteq Contents(Append(queue[c], hand[p]))
        BY <2>0, ContentsOfAppend
      <4> QED
        BY <1>3, <4>1 DEF Deliver, TypeOK
    <3>3. dropped[d] \subseteq dropped'[d]
      BY <1>3 DEF Deliver, TypeOK
    <3> QED
      BY <1>0, <1>3, <3>1, <3>2, <3>3, SameWanted DEF Deliver, Accounted
  <2> QED
    BY <2>1, <2>2
<1>4. ASSUME NEW p \in Publishers, Published(p) PROVE Accounted(d, e)'
  <2>1. InFlight(d) \subseteq InFlight(d)'
    BY <1>4 DEF Published, InFlight, TypeOK
  <2> QED
    BY <1>0, <1>4, <2>1, SameWanted DEF Published, Accounted
<1>5. ASSUME NEW c \in Connections, NEW type \in Types \cup {AnyType}, Connect(c, type)
      PROVE  Accounted(d, e)'
  <2>1. d # c
    BY <1>5 DEF Connect, NothingDueYet
  <2>2. cpc'[d] = cpc[d] /\ filter'[d] = filter[d]
    BY <1>5, <2>1 DEF Connect, Goto, TypeOK
  <2>3. Wanted(d, e)' = Wanted(d, e)
    BY <1>5, <2>2 DEF Connect, Wanted
  <2> QED
    BY <1>0, <1>5, <2>2, <2>3, SameFlight DEF Connect, publishing, Accounted
<1>6. ASSUME NEW c \in Connections, Leave(c) PROVE Accounted(d, e)'
  BY <1>0, <1>6, SameFlight, SameWanted DEF Leave, publishing, Accounted
<1>7. ASSUME NEW c \in Connections, SendHeaders(c) PROVE Accounted(d, e)'
  <2>1. cpc[d] \in {"headers", "loop"}
    BY <1>7 DEF SendHeaders, Goto, TypeOK
  <2> QED
    BY <1>0, <1>7, <2>1, SameFlight, SameWanted DEF SendHeaders, publishing, Accounted
<1>8. ASSUME NEW c \in Connections, Skip(c) PROVE Accounted(d, e)'
  <2>1. e \in Contents(queue[d]) => e \in Contents(queue'[d]) \/ ~Wanted(d, e)
    <3>1. queue[c] \in Seq(Events) /\ queue[c] # <<>>
      BY <1>8 DEF Skip, TypeOK
    <3> QED
      BY <1>8, <3>1, ContentsOfTail DEF Skip, TypeOK
  <2> QED
    BY <1>0, <1>8, <2>1, SameFlight, SameWanted DEF Skip, publishing, Accounted
<1>9. ASSUME NEW c \in Connections, Write(c) PROVE Accounted(d, e)'
  <2>0. queue[c] \in Seq(Events) /\ queue[c] # <<>> /\ Head(queue[c]) \in Events
    BY <1>9, TailKeeps DEF Write, TypeOK
  <2>1. cpc[d] \in {"headers", "loop"}
    BY <1>9 DEF Write, Goto, TypeOK
  <2>2. e \in Contents(queue[d]) => e \in Contents(queue'[d]) \/ e \in Contents(delivered'[d])
    <3>1. CASE d # c
      BY <1>9, <3>1 DEF Write, TypeOK
    <3>2. CASE d = c
      <4>1. delivered'[c] = Append(delivered[c], Head(queue[c]))
        BY <1>9, <3>2 DEF Write, Goto, TypeOK
      <4>2. Contents(delivered'[c]) = Contents(delivered[c]) \cup {Head(queue[c])}
        BY <2>0, <4>1, ContentsOfAppend DEF TypeOK
      <4> QED
        BY <1>9, <2>0, <3>2, <4>2, ContentsOfTail DEF Write, TypeOK
    <3> QED
      BY <3>1, <3>2
  <2>3. Contents(delivered[d]) \subseteq Contents(delivered'[d])
    <3>1. Contents(delivered[c]) \subseteq Contents(Append(delivered[c], Head(queue[c])))
      BY <2>0, ContentsOfAppend DEF TypeOK
    <3> QED
      BY <1>9, <3>1 DEF Write, TypeOK
  <2> QED
    BY <1>0, <1>9, <2>1, <2>2, <2>3, SameFlight, SameWanted DEF Write, publishing, Accounted
<1>10. ASSUME NEW c \in Connections, Keepalive(c) PROVE Accounted(d, e)'
  <2>1. cpc[d] \in {"headers", "loop"}
    BY <1>10 DEF Keepalive, Goto, TypeOK
  <2> QED
    BY <1>0, <1>10, <2>1, SameFlight, SameWanted DEF Keepalive, publishing, Accounted
<1>11. ASSUME NEW c \in Connections, Unsubscribe(c) PROVE Accounted(d, e)'
  <2>1. cpc[d] \in {"headers", "loop"}
    BY <1>11 DEF Unsubscribe, Goto, TypeOK
  <2> QED
    BY <1>0, <1>11, <2>1, SameFlight, SameWanted DEF Unsubscribe, publishing, Accounted
<1>12. CASE UNCHANGED vars
  BY <1>0, <1>12, SameFlight, SameWanted DEF vars, publishing, Accounted
<1> QED
  BY <1>1, <1>2, <1>3, <1>4, <1>5, <1>6, <1>7, <1>8, <1>9, <1>10, <1>11, <1>12
     DEF Next, PublisherStep, ConnectionStep

(* While a stream runs no event published since it subscribed is lost, unless *)
(* its queue was full.                                                       *)
THEOREM NothingIsLost == Spec => []NothingElseLost
<1>1. Init => NothingDueYet /\ NothingElseLost
  BY DEF Init, NothingDueYet, NothingElseLost
<1> QED
  BY <1>1, Typing, SlotsAreAccounted, NextNotDue, NextLossless, PTL DEF Spec

-----------------------------------------------------------------------------
(* OwnOrder.                                                                 *)

(* What a thread holds and has yet to hand to a connection is its own, and     *)
(* later than all that the connection has of it.                              *)
HandsLatest ==
  \A p \in Publishers : hand[p] # 0 =>
    /\ log[hand[p]].by = p
    /\ \A c \in Connections : ~snapped[p] \/ c \in targets[p] =>
         \A i \in DOMAIN Seen(c) : log[Seen(c)[i]].by = p => Seen(c)[i] < hand[p]

InOrder == OwnOrder /\ HandsLatest

(* What a connection has seen and will see are events.                        *)
LEMMA SeenTyped == ASSUME TypeOK, NEW c \in Connections PROVE Seen(c) \in Seq(Events)
  BY DEF TypeOK, Seen

(* A step that touches neither publishers nor queues keeps the order.          *)
LEMMA OrderUntouched ==
  InOrder /\ UNCHANGED <<log, publishing, queue, delivered>> => InOrder'
  BY DEF InOrder, OwnOrder, HandsLatest, Seen, publishing

(* So does one that only leaves events out.                                   *)
LEMMA OrderThinned ==
  ASSUME InOrder, UNCHANGED <<log, publishing>>,
         \A c \in Connections : \A i \in DOMAIN Seen(c)' :
           \E a \in DOMAIN Seen(c) : Seen(c)'[i] = Seen(c)[a],
         \A c \in Connections : \A i, j \in DOMAIN Seen(c)' : i < j =>
           \E a, b \in DOMAIN Seen(c) : a < b /\ Seen(c)'[i] = Seen(c)[a] /\ Seen(c)'[j] = Seen(c)[b]
  PROVE  InOrder'
<1>1. OwnOrder'
  BY DEF InOrder, OwnOrder
<1>2. HandsLatest'
  BY DEF InOrder, HandsLatest, publishing
<1> QED
  BY <1>1, <1>2 DEF InOrder

(* Taking the first of what waits leaves one out.                             *)
LEMMA HeadLeftOut ==
  ASSUME TypeOK, NEW c \in Connections, queue[c] # <<>>,
         queue'[c] = Tail(queue[c]), delivered'[c] = delivered[c]
  PROVE  /\ \A i \in DOMAIN Seen(c)' : \E a \in DOMAIN Seen(c) : Seen(c)'[i] = Seen(c)[a]
         /\ \A i, j \in DOMAIN Seen(c)' : i < j => \E a, b \in DOMAIN Seen(c) :
              a < b /\ Seen(c)'[i] = Seen(c)[a] /\ Seen(c)'[j] = Seen(c)[b]
<1> DEFINE d == delivered[c]
           q == queue[c]
           Old(i) == IF i <= Len(d) THEN i ELSE i + 1
<1>1. d \in Seq(Events) /\ q \in Seq(Events) /\ q # <<>>
  BY DEF TypeOK
<1>2. Seen(c) = d \o q /\ Seen(c)' = d \o Tail(q)
  BY DEF Seen
<1> HIDE DEF d, q
<1>3. /\ Len(d \o q) = Len(d) + Len(q) /\ Len(d \o Tail(q)) = Len(d) + Len(q) - 1
      /\ Len(d) \in Nat /\ Len(q) \in Nat \ {0}
  BY <1>1
<1>4. ASSUME NEW i \in DOMAIN (d \o Tail(q))
      PROVE  Old(i) \in DOMAIN (d \o q) /\ (d \o Tail(q))[i] = (d \o q)[Old(i)]
  <2>1. i \in 1..(Len(d) + Len(q) - 1)
    BY <1>1, <1>3
  <2>2. CASE i <= Len(d)
    BY <1>1, <1>3, <2>1, <2>2
  <2>3. CASE ~(i <= Len(d))
    <3>1. i - Len(d) \in 1..Len(Tail(q)) /\ Tail(q)[i - Len(d)] = q[i - Len(d) + 1]
      BY <1>1, <1>3, <2>1, <2>3
    <3>2. (d \o Tail(q))[i] = Tail(q)[i - Len(d)]
      BY <1>1, <1>3, <2>1, <2>3
    <3>3. (d \o q)[i + 1] = q[i + 1 - Len(d)]
      BY <1>1, <1>3, <2>1, <2>3
    <3> QED
      BY <1>1, <1>3, <2>1, <2>3, <3>1, <3>2, <3>3
  <2> QED
    BY <2>2, <2>3
<1>5. \A i, j \in DOMAIN (d \o Tail(q)) : i < j => Old(i) < Old(j)
  BY <1>1, <1>3
<1> HIDE DEF Old
<1>6. \A i \in DOMAIN Seen(c)' : Old(i) \in DOMAIN Seen(c) /\ Seen(c)'[i] = Seen(c)[Old(i)]
  BY <1>2, <1>4
<1>7. \A i, j \in DOMAIN Seen(c)' : i < j => Old(i) < Old(j)
  BY <1>2, <1>5
<1> QED
  BY <1>6, <1>7

(* Writing it moves it from one to the other.                                 *)
LEMMA HeadMoved ==
  ASSUME NEW S, NEW d \in Seq(S), NEW q \in Seq(S), q # <<>>
  PROVE  Append(d, Head(q)) \o Tail(q) = d \o q
<1>1. Append(d, Head(q)) \in Seq(S) /\ Tail(q) \in Seq(S) /\ d \o q \in Seq(S)
      /\ Append(d, Head(q)) \o Tail(q) \in Seq(S)
  OBVIOUS
<1>2. Len(Append(d, Head(q)) \o Tail(q)) = Len(d) + Len(q) /\ Len(d \o q) = Len(d) + Len(q)
  OBVIOUS
<1>3. ASSUME NEW i \in 1..(Len(d) + Len(q))
      PROVE  (Append(d, Head(q)) \o Tail(q))[i] = (d \o q)[i]
  <2>1. CASE i <= Len(d)
    BY <2>1
  <2>2. CASE i = Len(d) + 1
    BY <2>2
  <2>3. CASE i > Len(d) + 1
    <3>1. (Append(d, Head(q)) \o Tail(q))[i] = Tail(q)[i - (Len(d) + 1)]
      BY <2>3
    <3>2. Tail(q)[i - (Len(d) + 1)] = q[i - Len(d)]
      BY <2>3
    <3>3. (d \o q)[i] = q[i - Len(d)]
      BY <2>3
    <3> QED
      BY <3>1, <3>2, <3>3
  <2> QED
    BY <2>1, <2>2, <2>3
<1> QED
  BY <1>1, <1>2, <1>3, SeqEqual

(* Putting one more into the queue puts it last.                              *)
LEMMA PutLast ==
  ASSUME TypeOK, NEW c \in Connections, NEW x \in Events,
         queue'[c] = Append(queue[c], x), delivered'[c] = delivered[c]
  PROVE  /\ Len(Seen(c)') = Len(Seen(c)) + 1 /\ Len(Seen(c)) \in Nat
         /\ Seen(c)'[Len(Seen(c)) + 1] = x
         /\ \A i \in DOMAIN Seen(c) : Seen(c)'[i] = Seen(c)[i]
         /\ Seen(c)' \in Seq(Events)
<1> DEFINE d == delivered[c]
           q == queue[c]
<1>1. d \in Seq(Events) /\ q \in Seq(Events)
  BY DEF TypeOK
<1>2. Seen(c) = d \o q /\ Seen(c)' = d \o Append(q, x)
  BY DEF Seen
<1> HIDE DEF d, q
<1>3. Len(d \o q) = Len(d) + Len(q) /\ Len(d \o Append(q, x)) = Len(d) + Len(q) + 1
      /\ Len(d) \in Nat /\ Len(q) \in Nat
  BY <1>1
<1>4. (d \o Append(q, x))[Len(d) + Len(q) + 1] = x
  BY <1>1
<1>5. ASSUME NEW i \in DOMAIN (d \o q) PROVE (d \o Append(q, x))[i] = (d \o q)[i]
  BY <1>1
<1>6. d \o Append(q, x) \in Seq(Events)
  BY <1>1
<1> QED
  BY <1>2, <1>3, <1>4, <1>5, <1>6

(* Every step keeps the order: a record is later than everything logged        *)
(* before, and its thread logs no other until it has called everybody back.    *)
LEMMA NextOrdered == TypeOK /\ InOrder /\ [Next]_vars => InOrder'
<1> SUFFICES ASSUME TypeOK, InOrder, [Next]_vars PROVE InOrder'
  OBVIOUS
<1>0. /\ \A d \in Connections : Seen(d) \in Seq(Events)
      /\ \A d \in Connections : \A i \in DOMAIN Seen(d) : Seen(d)[i] \in Events
  BY SeenTyped
<1>1. ASSUME NEW p \in Publishers, NEW type \in Types, Record(p, type) PROVE InOrder'
  <2>1. /\ \A e \in Events : log'[e] = log[e] /\ e \in Nat /\ e < Len(log')
        /\ log'[Len(log')].by = p /\ Len(log') # 0
    BY <1>1 DEF Record, TypeOK, Events
  <2>2. \A d \in Connections : Seen(d)' = Seen(d)
    BY <1>1 DEF Record, Seen
  <2>3. OwnOrder'
    BY <1>0, <2>1, <2>2 DEF InOrder, OwnOrder
  <2>4. HandsLatest'
    <3> SUFFICES ASSUME NEW r \in Publishers, hand'[r] # 0
                 PROVE  /\ log'[hand'[r]].by = r
                        /\ \A d \in Connections : ~snapped[r] \/ d \in targets[r] =>
                             \A i \in DOMAIN Seen(d) : log'[Seen(d)[i]].by = r => Seen(d)[i] < hand'[r]
      <4>1. snapped' = snapped /\ targets' = targets
        BY <1>1 DEF Record
      <4> QED
        BY <2>2, <4>1 DEF HandsLatest
    <3>1. CASE r = p
      <4>1. hand'[r] = Len(log')
        BY <1>1, <3>1 DEF Record, TypeOK
      <4> QED
        BY <1>0, <2>1, <3>1, <4>1
    <3>2. CASE r # p
      <4>1. hand'[r] = hand[r] /\ hand[r] \in Events
        BY <1>1, <3>2 DEF Record, TypeOK
      <4> QED
        BY <1>0, <2>1, <4>1 DEF InOrder, HandsLatest
    <3> QED
      BY <3>1, <3>2
  <2> QED
    BY <2>3, <2>4 DEF InOrder
<1>2. ASSUME NEW p \in Publishers, Snapshot(p) PROVE InOrder'
  <2>1. \A d \in Connections : Seen(d)' = Seen(d)
    BY <1>2 DEF Snapshot, Seen
  <2>2. \A r \in Publishers : /\ hand'[r] = hand[r]
                              /\ \A d \in Connections : ~snapped'[r] \/ d \in targets'[r]
                                                          => ~snapped[r] \/ d \in targets[r]
    BY <1>2 DEF Snapshot, TypeOK
  <2> QED
    BY <1>2, <2>1, <2>2 DEF Snapshot, InOrder, OwnOrder, HandsLatest
<1>3. ASSUME NEW p \in Publishers, NEW c \in Connections, Deliver(p, c) PROVE InOrder'
  <2>1. /\ hand[p] \in Events /\ log[hand[p]].by = p
        /\ \A i \in DOMAIN Seen(c) : log[Seen(c)[i]].by = p => Seen(c)[i] < hand[p]
    BY <1>3 DEF Deliver, InOrder, HandsLatest, TypeOK, Events
  <2>2. /\ \A d \in Connections : d # c => Seen(d)' = Seen(d)
        /\ UNCHANGED <<log, hand, snapped, delivered>>
        /\ \A r \in Publishers : targets'[r] \subseteq targets[r] /\ (r # p => targets'[r] = targets[r])
        /\ c \notin targets'[p]
    BY <1>3 DEF Deliver, Seen, TypeOK
  <2>3. CASE queue' = queue
    <3>1. \A d \in Connections : Seen(d)' = Seen(d)
      BY <2>2, <2>3 DEF Seen
    <3> QED
      BY <2>2, <3>1 DEF InOrder, OwnOrder, HandsLatest
  <2>4. CASE queue' = [queue EXCEPT ![c] = Append(@, hand[p])]
    <3>1. /\ Len(Seen(c)') = Len(Seen(c)) + 1 /\ Len(Seen(c)) \in Nat
          /\ Seen(c)'[Len(Seen(c)) + 1] = hand[p]
          /\ \A i \in DOMAIN Seen(c) : Seen(c)'[i] = Seen(c)[i]
          /\ Seen(c)' \in Seq(Events)
      <4>1. queue'[c] = Append(queue[c], hand[p]) /\ delivered'[c] = delivered[c]
        BY <2>2, <2>4 DEF TypeOK
      <4> QED
        BY <2>1, <4>1, PutLast
    <3>2. \A i \in DOMAIN Seen(c)' : i = Len(Seen(c)) + 1 \/ i \in DOMAIN Seen(c)
      BY <1>0, <3>1
    <3>3. \A i, j \in DOMAIN Seen(c)' : i < j => i \in DOMAIN Seen(c)
      BY <1>0, <3>1, <3>2
    <3>4. OwnOrder'
      <4> SUFFICES ASSUME NEW d \in Connections, NEW i \in DOMAIN Seen(d)', NEW j \in DOMAIN Seen(d)',
                          i < j, log[Seen(d)'[i]].by = log[Seen(d)'[j]].by
                   PROVE  Seen(d)'[i] < Seen(d)'[j]
        BY <2>2 DEF OwnOrder
      <4>1. CASE d # c
        BY <2>2, <4>1 DEF InOrder, OwnOrder
      <4>2. CASE d = c
        BY <2>1, <3>1, <3>2, <3>3, <4>2 DEF InOrder, OwnOrder
      <4> QED
        BY <4>1, <4>2
    <3>5. HandsLatest'
      <4> SUFFICES ASSUME NEW r \in Publishers, hand[r] # 0, NEW d \in Connections,
                          ~snapped[r] \/ d \in targets'[r],
                          NEW i \in DOMAIN Seen(d)', log[Seen(d)'[i]].by = r
                   PROVE  Seen(d)'[i] < hand[r]
        BY <2>2 DEF InOrder, HandsLatest
      <4>1. CASE d # c
        BY <2>2, <4>1 DEF InOrder, HandsLatest
      <4>2. CASE d = c
        <5>1. r # p
          BY <1>3, <2>2, <4>2 DEF Deliver
        <5>2. i \in DOMAIN Seen(c) /\ Seen(c)'[i] = Seen(c)[i]
          BY <2>1, <3>1, <3>2, <4>2, <5>1
        <5> QED
          BY <2>2, <4>2, <5>1, <5>2 DEF InOrder, HandsLatest
      <4> QED
        BY <4>1, <4>2
    <3> QED
      BY <3>4, <3>5 DEF InOrder
  <2> QED
    BY <1>3, <2>3, <2>4 DEF Deliver
<1>4. ASSUME NEW p \in Publishers, Published(p) PROVE InOrder'
  <2>1. \A d \in Connections : Seen(d)' = Seen(d)
    BY <1>4 DEF Published, Seen
  <2>2. /\ UNCHANGED <<log, targets>>
        /\ \A r \in Publishers : hand'[r] # 0 => hand'[r] = hand[r] /\ snapped'[r] = snapped[r]
    BY <1>4 DEF Published, TypeOK
  <2> QED
    BY <2>1, <2>2 DEF InOrder, OwnOrder, HandsLatest
<1>5. ASSUME NEW c \in Connections, NEW type \in Types \cup {AnyType}, Connect(c, type) PROVE InOrder'
  BY <1>5, OrderUntouched DEF Connect
<1>6. ASSUME NEW c \in Connections, Leave(c) PROVE InOrder'
  BY <1>6, OrderUntouched DEF Leave
<1>7. ASSUME NEW c \in Connections, SendHeaders(c) PROVE InOrder'
  BY <1>7, OrderUntouched DEF SendHeaders
<1>8. ASSUME NEW c \in Connections, UNCHANGED <<log, publishing, delivered>>,
             queue[c] # <<>>, queue' = [queue EXCEPT ![c] = Tail(@)]
      PROVE  InOrder'
  <2>1. \A d \in Connections : d # c => Seen(d)' = Seen(d)
    BY <1>8 DEF Seen, TypeOK
  <2>2. ASSUME NEW d \in Connections
        PROVE  /\ \A i \in DOMAIN Seen(d)' : \E a \in DOMAIN Seen(d) : Seen(d)'[i] = Seen(d)[a]
               /\ \A i, j \in DOMAIN Seen(d)' : i < j => \E a, b \in DOMAIN Seen(d) :
                    a < b /\ Seen(d)'[i] = Seen(d)[a] /\ Seen(d)'[j] = Seen(d)[b]
    <3>1. CASE d # c
      BY <2>1, <3>1
    <3>2. CASE d = c
      <4>1. queue'[c] = Tail(queue[c]) /\ delivered'[c] = delivered[c]
        BY <1>8 DEF TypeOK
      <4> QED
        BY <1>8, <3>2, <4>1, HeadLeftOut
    <3> QED
      BY <3>1, <3>2
  <2> QED
    BY <1>8, <2>2, OrderThinned
<1>9. ASSUME NEW c \in Connections, Write(c) PROVE InOrder'
  <2>1. CASE UNCHANGED delivered
    BY <1>8, <1>9, <2>1 DEF Write
  <2>2. CASE delivered' = [delivered EXCEPT ![c] = Append(@, Head(queue[c]))]
    <3>1. delivered[c] \in Seq(Events) /\ queue[c] \in Seq(Events) /\ queue[c] # <<>>
      BY <1>9 DEF Write, TypeOK
    <3>2. Seen(c)' = Append(delivered[c], Head(queue[c])) \o Tail(queue[c])
      BY <1>9, <2>2 DEF Write, Seen, TypeOK
    <3>3. \A d \in Connections : d # c => Seen(d)' = Seen(d)
      BY <1>9, <2>2 DEF Write, Seen, TypeOK
    <3>4. \A d \in Connections : Seen(d)' = Seen(d)
      BY <3>1, <3>2, <3>3, HeadMoved DEF Seen
    <3> QED
      BY <1>9, <3>4 DEF Write, publishing, InOrder, OwnOrder, HandsLatest
  <2> QED
    BY <1>9, <2>1, <2>2 DEF Write
<1>10. ASSUME NEW c \in Connections, Keepalive(c) PROVE InOrder'
  BY <1>10, OrderUntouched DEF Keepalive
<1>11. ASSUME NEW c \in Connections, Unsubscribe(c) PROVE InOrder'
  BY <1>11, OrderUntouched DEF Unsubscribe
<1>12. CASE UNCHANGED vars
  BY <1>12, OrderUntouched DEF vars
<1>13. ASSUME NEW c \in Connections, Skip(c) PROVE InOrder'
  BY <1>8, <1>13 DEF Skip
<1> QED
  BY <1>1, <1>2, <1>3, <1>4, <1>5, <1>6, <1>7, <1>9, <1>10, <1>11, <1>12, <1>13
     DEF Next, PublisherStep, ConnectionStep

(* A client gets each thread's records in the order they were logged and once   *)
(* at most, however the threads overtake one another on the bus.               *)
THEOREM OrderIsKept == Spec => []OwnOrder
<1>1. Init => InOrder
  BY DEF Init, InOrder, OwnOrder, HandsLatest, Seen
<1>2. InOrder => OwnOrder
  BY DEF InOrder
<1> QED
  BY <1>1, <1>2, Typing, NextOrdered, PTL DEF Spec

-----------------------------------------------------------------------------
(* PublishingRunsOut.                                                        *)

(* The lists of subscribers that publishers hold are finite, and the bus' own   *)
(* has at most Cap.                                                          *)
LEMMA TargetsCounted ==
  ASSUME TypeOK, Bounded
  PROVE  /\ Cardinality(subscribers) \in Nat /\ Cardinality(subscribers) <= Cap /\ Cap \in Nat
         /\ \A p \in Publishers :
              /\ Cardinality(targets[p]) \in Nat
              /\ \A c \in targets[p] : Cardinality(targets[p] \ {c}) = Cardinality(targets[p]) - 1
<1>1. \A S \in SUBSET Connections : IsFiniteSet(S)
  BY StreamAssumption, FS_Subset
<1> QED
  BY <1>1, StreamAssumption, FS_CardinalityType, FS_RemoveElement DEF TypeOK, Bounded

(* Each of a publisher's steps uses up one of those it had left.               *)
LEMMA PublisherStepsCount ==
  ASSUME TypeOK, Bounded, NEW p \in Publishers, hand[p] # 0, PublisherStep(p)
  PROVE  StepsLeft(p)' < StepsLeft(p)
<1>1. CASE Snapshot(p)
  <2>1. hand'[p] # 0 /\ snapped'[p] /\ targets'[p] = subscribers
    BY <1>1 DEF Snapshot, TypeOK
  <2>2. StepsLeft(p) = Cap + 2 /\ StepsLeft(p)' = Cardinality(subscribers) + 1
    BY <1>1, <2>1 DEF Snapshot, StepsLeft
  <2> QED BY <2>2, TargetsCounted
<1>2. ASSUME NEW c \in Connections, Deliver(p, c) PROVE StepsLeft(p)' < StepsLeft(p)
  <2>1. /\ hand'[p] # 0 /\ snapped'[p] /\ targets'[p] = targets[p] \ {c}
        /\ c \in targets[p] /\ snapped[p]
    BY <1>2 DEF Deliver, TypeOK
  <2>2. /\ StepsLeft(p) = Cardinality(targets[p]) + 1
        /\ StepsLeft(p)' = Cardinality(targets[p] \ {c}) + 1
    BY <2>1 DEF StepsLeft
  <2> QED BY <2>1, <2>2, TargetsCounted
<1>3. CASE Published(p)
  <2>1. StepsLeft(p)' = 0
    BY <1>3 DEF Published, TypeOK, StepsLeft
  <2>2. StepsLeft(p) = Cardinality(targets[p]) + 1
    BY <1>3 DEF Published, StepsLeft
  <2> QED BY <2>1, <2>2, TargetsCounted
<1> QED BY <1>1, <1>2, <1>3 DEF PublisherStep

(* Nobody else's step touches what it is about.                               *)
LEMMA OthersDoNotCount ==
  ASSUME TypeOK, NEW p \in Publishers, hand[p] # 0, [Next]_vars, ~PublisherStep(p)
  PROVE  hand'[p] = hand[p] /\ snapped'[p] = snapped[p] /\ targets'[p] = targets[p]
<1> USE DEF TypeOK, publishing
<1>1. ASSUME NEW q \in Publishers, q # p, Snapshot(q) \/ (\E c \in Connections : Deliver(q, c)) \/ Published(q)
      PROVE  hand'[p] = hand[p] /\ snapped'[p] = snapped[p] /\ targets'[p] = targets[p]
  BY <1>1 DEF Snapshot, Deliver, Published
<1>2. ASSUME NEW q \in Publishers, NEW type \in Types, Record(q, type)
      PROVE  hand'[p] = hand[p] /\ snapped'[p] = snapped[p] /\ targets'[p] = targets[p]
  BY <1>2 DEF Record
<1>3. ASSUME NEW c \in Connections,
             Leave(c) \/ ConnectionStep(c) \/ \E type \in Types \cup {AnyType} : Connect(c, type)
      PROVE  UNCHANGED publishing
  BY <1>3 DEF Leave, ConnectionStep, Connect, SendHeaders, Skip, Write, Keepalive, Unsubscribe
<1>4. CASE UNCHANGED vars
  BY <1>4 DEF vars
<1> QED BY <1>1, <1>2, <1>3, <1>4 DEF Next, PublisherStep

(* However many connections there are and whatever they do, an audit record     *)
(* costs its thread Cap + 2 steps at most, none of which waits: this is why     *)
(* PublisherNeverStuck holds (events.py:54-57, 72-95).                        *)
THEOREM PublishingEnds == Spec => PublishingRunsOut
<1>1. TypeOK /\ Bounded /\ [Next]_vars
      => [\A p \in Publishers : hand[p] # 0 =>
            IF PublisherStep(p) THEN StepsLeft(p)' < StepsLeft(p) ELSE StepsLeft(p)' = StepsLeft(p)]_vars
  <2> SUFFICES ASSUME TypeOK, Bounded, [Next]_vars, NEW p \in Publishers, hand[p] # 0
      PROVE  IF PublisherStep(p) THEN StepsLeft(p)' < StepsLeft(p) ELSE StepsLeft(p)' = StepsLeft(p)
    OBVIOUS
  <2>1. CASE PublisherStep(p)
    BY <2>1, PublisherStepsCount
  <2>2. CASE ~PublisherStep(p)
    BY <2>2, OthersDoNotCount DEF StepsLeft
  <2> QED BY <2>1, <2>2
<1> QED BY <1>1, Typing, LimitsHold, PTL DEF Spec, PublishingRunsOut
=============================================================================
