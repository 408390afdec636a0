----------------------------- MODULE EventStream ----------------------------
(***************************************************************************)
(* From an audit record to a browser: AuditLogger.write (lmcp/audit.py)      *)
(* appends the record to the log under its own lock and then publishes it on *)
(* the EventBus (lmcp/events.py), which calls every subscriber back; each    *)
(* GET /events connection (lmcp/daemon.py) has subscribed a bounded queue    *)
(* and writes what it finds there to its client.                             *)
(*                                                                          *)
(* A connection stands for one request and its thread, so its subscription   *)
(* id, never used twice by the bus, is the connection itself.                *)
(***************************************************************************)
EXTENDS Naturals, Sequences, FiniteSets

CONSTANTS
  Publishers,   \* threads that write audit records
  Connections,  \* GET /events requests
  Types,        \* event types
  AnyType,      \* no ?event_type= given
  Cap,          \* _MAX_SSE_SUBSCRIBERS, 50 in the code
  QueueSize,    \* maxsize of a subscriber's queue, 256 in the code
  MaxEvents     \* bound on the records written

ASSUME StreamAssumption ==
  /\ Cap \in Nat \ {0} /\ QueueSize \in Nat \ {0} /\ MaxEvents \in Nat
  /\ IsFiniteSet(Connections)
  /\ AnyType \notin Types

VARIABLES
  log,          \* the audit log: records [type, by]; an event is its index here
  hand,         \* per publisher: the event it is publishing, 0 for none
  snapped,      \* per publisher: it has copied the list of subscribers
  targets,      \* per publisher: subscribers in that copy still to be called
  subscribers,  \* the bus' _subscribers
  queue,        \* per connection: its queue
  cpc,          \* per connection: where its thread is
  filter,       \* per connection: the event type asked for, or AnyType
  peer,         \* per connection: the client is up, has left, or has reset it
  delivered,    \* per connection: events written to the client
  due, dropped  \* history: events published to it; those its full queue lost

publishing == <<hand, snapped, targets>>
vars == <<log, publishing, subscribers, queue, cpc, filter, peer, delivered, due, dropped>>

Init ==
  /\ log = <<>>
  /\ hand = [p \in Publishers |-> 0]
  /\ snapped = [p \in Publishers |-> FALSE]
  /\ targets = [p \in Publishers |-> {}]
  /\ subscribers = {}
  /\ queue = [c \in Connections |-> <<>>]
  /\ cpc = [c \in Connections |-> "new"]
  /\ filter = [c \in Connections |-> AnyType]
  /\ peer = [c \in Connections |-> "up"]
  /\ delivered = [c \in Connections |-> <<>>]
  /\ due = [c \in Connections |-> {}]
  /\ dropped = [c \in Connections |-> {}]

-----------------------------------------------------------------------------
(* AuditLogger.write and EventBus.publish.                                  *)

(* Mutant: the write to the file fails and the record is published all the    *)
(* same.                                                                     *)
Record_NotWritten(p, type) ==
  /\ hand[p] = 0 /\ Len(log) < MaxEvents
  /\ hand' = [hand EXCEPT ![p] = Len(log) + 1]
  /\ UNCHANGED <<log, snapped, targets, subscribers, queue, cpc, filter, peer, delivered, due, dropped>>

(* The record goes to the file under the logger's lock.                      *)
Record(p, type) ==
  /\ hand[p] = 0 /\ Len(log) < MaxEvents
  /\ log' = Append(log, [type |-> type, by |-> p])
  /\ hand' = [hand EXCEPT ![p] = Len(log')]
  /\ UNCHANGED <<snapped, targets, subscribers, queue, cpc, filter, peer, delivered, due, dropped>>

(* publish copies the subscribers under the bus' lock, no longer holding the *)
(* logger's: another record may be logged and published in between.          *)
Snapshot(p) ==
  /\ hand[p] # 0 /\ ~snapped[p]
  /\ snapped' = [snapped EXCEPT ![p] = TRUE]
  /\ targets' = [targets EXCEPT ![p] = subscribers]
  /\ due' = [c \in Connections |-> IF c \in subscribers THEN due[c] \cup {hand[p]} ELSE due[c]]
  /\ UNCHANGED <<log, hand, subscribers, queue, cpc, filter, peer, delivered, dropped>>

(* Mutants: the callback waits for room; it is called again; the exception    *)
(* of a full queue ends the publisher's loop.                                *)
Deliver_Waiting(p, c) ==
  /\ snapped[p] /\ c \in targets[p] /\ Len(queue[c]) < QueueSize
  /\ targets' = [targets EXCEPT ![p] = @ \ {c}]
  /\ queue' = [queue EXCEPT ![c] = Append(@, hand[p])]
  /\ UNCHANGED <<log, hand, snapped, subscribers, cpc, filter, peer, delivered, due, dropped>>

Deliver_Again(p, c) ==
  /\ snapped[p] /\ c \in targets[p] /\ Len(queue[c]) < QueueSize
  /\ queue' = [queue EXCEPT ![c] = Append(@, hand[p])]
  /\ \E rest \in {targets[p], targets[p] \ {c}} : targets' = [targets EXCEPT ![p] = rest]
  /\ UNCHANGED <<log, hand, snapped, subscribers, cpc, filter, peer, delivered, due, dropped>>

Deliver_FullEndsLoop(p, c) ==
  /\ snapped[p] /\ c \in targets[p]
  /\ \/ /\ Len(queue[c]) < QueueSize
        /\ queue' = [queue EXCEPT ![c] = Append(@, hand[p])]
        /\ targets' = [targets EXCEPT ![p] = @ \ {c}]
        /\ UNCHANGED dropped
     \/ /\ Len(queue[c]) >= QueueSize
        /\ dropped' = [dropped EXCEPT ![c] = @ \cup {hand[p]}]
        /\ targets' = [targets EXCEPT ![p] = {}]
        /\ UNCHANGED queue
  /\ UNCHANGED <<log, hand, snapped, subscribers, cpc, filter, peer, delivered, due>>

(* One callback: put_nowait, and when the queue is full the event is lost.   *)
Deliver(p, c) ==
  /\ snapped[p] /\ c \in targets[p]
  /\ targets' = [targets EXCEPT ![p] = @ \ {c}]
  /\ \/ /\ Len(queue[c]) < QueueSize
        /\ queue' = [queue EXCEPT ![c] = Append(@, hand[p])]
        /\ UNCHANGED dropped
     \/ /\ Len(queue[c]) >= QueueSize
        /\ dropped' = [dropped EXCEPT ![c] = @ \cup {hand[p]}]
        /\ UNCHANGED queue
  /\ UNCHANGED <<log, hand, snapped, subscribers, cpc, filter, peer, delivered, due>>

Published(p) ==
  /\ snapped[p] /\ targets[p] = {}
  /\ hand' = [hand EXCEPT ![p] = 0]
  /\ snapped' = [snapped EXCEPT ![p] = FALSE]
  /\ UNCHANGED <<log, targets, subscribers, queue, cpc, filter, peer, delivered, due, dropped>>

-----------------------------------------------------------------------------
(* GET /events.                                                             *)

Goto(c, step) == cpc' = [cpc EXCEPT ![c] = step]

(* Mutant: the count is compared with <=.                                    *)
Connect_PastCap(c, type) ==
  /\ cpc[c] = "new"
  /\ filter' = [filter EXCEPT ![c] = type]
  /\ Cardinality(subscribers) <= Cap
  /\ subscribers' = subscribers \cup {c}
  /\ Goto(c, "headers")
  /\ UNCHANGED <<log, publishing, queue, peer, delivered, due, dropped>>

(* try_subscribe counts and adds in one locked section; at the cap: 503.     *)
Connect(c, type) ==
  /\ cpc[c] = "new"
  /\ filter' = [filter EXCEPT ![c] = type]
  /\ \/ /\ Cardinality(subscribers) < Cap
        /\ subscribers' = subscribers \cup {c}
        /\ Goto(c, "headers")
     \/ /\ Cardinality(subscribers) >= Cap
        /\ Goto(c, "refused")
        /\ UNCHANGED subscribers
  /\ UNCHANGED <<log, publishing, queue, peer, delivered, due, dropped>>

(* The client goes away without a word.                                      *)
Leave(c) ==
  /\ cpc[c] \in {"headers", "loop"} /\ peer[c] = "up"
  /\ peer' = [peer EXCEPT ![c] = "left"]
  /\ UNCHANGED <<log, publishing, subscribers, queue, cpc, filter, delivered, due, dropped>>

(* A write to a client that has left may still succeed, and draws the reset  *)
(* that makes the next one fail.                                             *)
WriteSucceeds(c) ==
  /\ peer[c] \in {"up", "left"}
  /\ peer' = [peer EXCEPT ![c] = IF @ = "left" THEN "reset" ELSE @]

WriteRaises(c) == peer[c] \in {"left", "reset"} /\ UNCHANGED peer

(* The headers are sent before the try block: if that write raises, the      *)
(* thread is gone and the finally clause with the unsubscribe never runs.    *)
SendHeaders(c) ==
  /\ cpc[c] = "headers"
  /\ \/ WriteSucceeds(c) /\ Goto(c, "loop")
     \/ WriteRaises(c) /\ Goto(c, "aborted")
  /\ UNCHANGED <<log, publishing, subscribers, queue, filter, delivered, due, dropped>>

Wanted(c, event) == filter[c] \in {AnyType, log[event].type}

(* An event of another type than asked for is skipped without a write.       *)
Skip(c) ==
  /\ cpc[c] = "loop" /\ queue[c] # <<>> /\ ~Wanted(c, Head(queue[c]))
  /\ queue' = [queue EXCEPT ![c] = Tail(@)]
  /\ UNCHANGED <<log, publishing, subscribers, cpc, filter, peer, delivered, due, dropped>>

Write(c) ==
  /\ cpc[c] = "loop" /\ queue[c] # <<>> /\ Wanted(c, Head(queue[c]))
  /\ queue' = [queue EXCEPT ![c] = Tail(@)]
  /\ \/ /\ WriteSucceeds(c)
        /\ delivered' = [delivered EXCEPT ![c] = Append(@, Head(queue[c]))]
        /\ UNCHANGED cpc
     \/ WriteRaises(c) /\ Goto(c, "cleanup") /\ UNCHANGED delivered
  /\ UNCHANGED <<log, publishing, subscribers, filter, due, dropped>>

(* Mutant: an error of the keepalive's write is swallowed.                   *)
Keepalive_Swallowed(c) ==
  /\ cpc[c] = "loop" /\ queue[c] = <<>>
  /\ WriteSucceeds(c) \/ WriteRaises(c)
  /\ UNCHANGED <<log, publishing, subscribers, queue, cpc, filter, delivered, due, dropped>>

(* Thirty seconds without an event.                                          *)
Keepalive(c) ==
  /\ cpc[c] = "loop" /\ queue[c] = <<>>
  /\ \/ WriteSucceeds(c) /\ UNCHANGED cpc
     \/ WriteRaises(c) /\ Goto(c, "cleanup")
  /\ UNCHANGED <<log, publishing, subscribers, queue, filter, delivered, due, dropped>>

(* Mutant: nobody unsubscribes.                                              *)
Unsubscribe_Forgotten(c) ==
  /\ cpc[c] = "cleanup"
  /\ Goto(c, "ended")
  /\ UNCHANGED <<log, publishing, subscribers, queue, filter, peer, delivered, due, dropped>>

(* The finally clause.                                                       *)
Unsubscribe(c) ==
  /\ cpc[c] = "cleanup"
  /\ subscribers' = subscribers \ {c}
  /\ Goto(c, "ended")
  /\ UNCHANGED <<log, publishing, queue, filter, peer, delivered, due, dropped>>

ConnectionStep(c) ==
  SendHeaders(c) \/ Skip(c) \/ Write(c) \/ Keepalive(c) \/ Unsubscribe(c)

PublisherStep(p) == Snapshot(p) \/ (\E c \in Connections : Deliver(p, c)) \/ Published(p)

Next ==
  \/ \E p \in Publishers, type \in Types : Record(p, type)
  \/ \E p \in Publishers : PublisherStep(p)
  \/ \E c \in Connections, type \in Types \cup {AnyType} : Connect(c, type)
  \/ \E c \in Connections : Leave(c) \/ ConnectionStep(c)

(* A publisher's thread goes on by itself: the callbacks only put into queues *)
(* and never wait. A connection's thread is promised to go on only once its   *)
(* client is gone: the wait on the queue times out and the socket's writes    *)
(* end or fail, whereas a client that is up and does not read can hold a      *)
(* write for ever.                                                           *)
Fairness ==
  /\ \A p \in Publishers : WF_vars(PublisherStep(p))
  /\ \A c \in Connections : WF_vars(peer[c] # "up" /\ ConnectionStep(c))

Spec == Init /\ [][Next]_vars /\ Fairness

-----------------------------------------------------------------------------
Events == 1..Len(log)
Steps == {"new", "refused", "headers", "aborted", "loop", "cleanup", "ended"}

(* What every variable holds; a publisher calls back only with an event in    *)
(* hand.                                                                     *)
TypeOK ==
  /\ log \in Seq([type : Types, by : Publishers])
  /\ hand \in [Publishers -> {0} \cup Events]
  /\ snapped \in [Publishers -> BOOLEAN]
  /\ targets \in [Publishers -> SUBSET Connections]
  /\ \A p \in Publishers : IF snapped[p] THEN hand[p] # 0 ELSE targets[p] = {}
  /\ subscribers \subseteq Connections
  /\ queue \in [Connections -> Seq(Events)]
  /\ cpc \in [Connections -> Steps]
  /\ filter \in [Connections -> Types \cup {AnyType}]
  /\ peer \in [Connections -> {"up", "left", "reset"}]
  /\ delivered \in [Connections -> Seq(Events)]
  /\ due \in [Connections -> SUBSET Events]
  /\ dropped \in [Connections -> SUBSET Events]

(* However many connections race for the last slot, the bus never has more    *)
(* than Cap subscribers and no queue outgrows its size (daemon.py:399-415,    *)
(* events.py:72-80).                                                         *)
Bounded ==
  /\ Cardinality(subscribers) <= Cap
  /\ \A c \in Connections : Len(queue[c]) <= QueueSize

(* A slot is held by exactly the connections between their subscription and   *)
(* the finally clause, and for good by those whose headers could not be       *)
(* written: no stream is cut off from the bus while it runs, and no other     *)
(* slot is lost (daemon.py:415-444).                                         *)
SlotsAccounted ==
  \A c \in Connections :
    c \in subscribers <=> cpc[c] \in {"headers", "loop", "cleanup", "aborted"}

InFlight(c) == {hand[p] : p \in {p \in Publishers : c \in targets[p]}}
Contents(s) == {s[i] : i \in DOMAIN s}

Accounted(c, e) ==
  \/ e \in InFlight(c)
  \/ e \in Contents(queue[c])
  \/ e \in Contents(delivered[c])
  \/ e \in dropped[c]
  \/ ~Wanted(c, e)

(* While a stream runs, an event published since it subscribed is on its way, *)
(* waiting, written, refused by a full queue, or not of the type asked for:   *)
(* none is lost otherwise, whatever the other publishers and connections do   *)
(* (daemon.py:408-438, events.py:87-95).                                     *)
NothingElseLost ==
  \A c \in Connections : cpc[c] \in {"headers", "loop"} =>
    \A e \in due[c] : Accounted(c, e)

(* What the client has been sent and what waits for it.                       *)
Seen(c) == delivered[c] \o queue[c]

(* Two publishers may overtake one another between the log and the bus, but a *)
(* client sees the records of one thread in the order they were logged, each  *)
(* at most once (audit.py:46-58, events.py:87-95).                           *)
OwnOrder ==
  \A c \in Connections : \A i, j \in DOMAIN Seen(c) :
    i < j /\ log[Seen(c)[i]].by = log[Seen(c)[j]].by => Seen(c)[i] < Seen(c)[j]

(* A full queue or a stuck client never holds up a thread that writes an      *)
(* audit record (events.py:54-57: slow subscribers do not block the           *)
(* publisher); connections are given no help by fairness here unless their    *)
(* client is gone.                                                           *)
PublisherNeverStuck == \A p \in Publishers : hand[p] # 0 ~> hand[p] = 0

(* How many steps a publisher has left: the copy of the list, one callback for  *)
(* each subscriber in it, the return.                                        *)
StepsLeft(p) ==
  IF hand[p] = 0 THEN 0
  ELSE IF snapped[p] THEN Cardinality(targets[p]) + 1
  ELSE Cap + 2

(* Writing an audit record costs its thread Cap callbacks at most: connections  *)
(* that come and go meanwhile, other publishers and full queues add none       *)
(* (events.py:72-95).                                                        *)
PublishingRunsOut ==
  [][\A p \in Publishers : hand[p] # 0 =>
       IF PublisherStep(p) THEN StepsLeft(p)' < StepsLeft(p) ELSE StepsLeft(p)' = StepsLeft(p)]_vars

(* Once the client of a running stream is gone and records stop being         *)
(* written, a keepalive finds it out and the slot is given back               *)
(* (daemon.py:426-444).                                                      *)
GoneClientFreesSlot ==
  \A c \in Connections : (cpc[c] = "loop" /\ peer[c] # "up") ~> c \notin subscribers

(* CHANGELOG.md:195, "Subscriber cleanup on disconnect": a connection whose   *)
(* thread has ended keeps no slot.                                           *)
CleanupOnDisconnect ==
  \A c \in Connections : cpc[c] \in {"aborted", "ended"} => c \notin subscribers
=============================================================================
