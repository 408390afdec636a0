---------------------------- MODULE StdioSession ----------------------------
(***************************************************************************)
(* One exchange with a stdio server (lmcp/stdio_mcp.py), as the daemon makes  *)
(* it for a tools/list or a tools/call: a child process is spawned, sent      *)
(* initialize, the initialized notification and the request, and killed.      *)
(* Every read has a thread of its own; when it times out the thread stays     *)
(* behind, still reading the same pipe. No answer is matched with its         *)
(* request: the next message on the pipe is taken for the answer.            *)
(*                                                                          *)
(* The child is external: it may answer, refuse, ignore, write lines of its   *)
(* own, exit or hang.                                                        *)
(***************************************************************************)
EXTENDS UpstreamSettings, Sequences, FiniteSets

CONSTANTS
  MaxNotices,   \* bound on the lines that the child writes unasked
  Large         \* the arguments of a tools/call may be more than a pipe holds

ASSUME SessionAssumption == MaxNotices \in Nat /\ Large \in BOOLEAN

VARIABLES
  method,       \* what the daemon wants: "tools/list" or "tools/call"
  pc,           \* where the daemon's thread is
  attempt,      \* timeouts so far of the request being made
  orphans,      \* reader threads whose wait timed out
  outcome,      \* "none", "result", or why the exchange failed
  result,       \* the message taken for the answer
  alive,        \* the child runs
  stdin, stdout,\* the pipes to and from the child
  notices,      \* lines written unasked
  sent,         \* history: every message sent
  disturbed     \* history: a read timed out or the child wrote unasked

child == <<alive, stdin, stdout, notices>>
thread == <<pc, attempt, orphans, outcome, result>>
vars == <<method, thread, child, sent, disturbed>>

Requests == {"initialize", "tools/list", "tools/call"}
Messages == [kind : {"answer", "error", "notice", "junk"}, to : Requests \cup {"none"}]
Unasked(kind) == [kind |-> kind, to |-> "none"]

Fresh ==
  /\ method \in {"tools/list", "tools/call"}
  /\ attempt = 0 /\ orphans = 0
  /\ outcome = "none" /\ result = Unasked("notice")
  /\ alive = FALSE
  /\ stdin = <<>> /\ stdout = <<>>
  /\ notices = 0
  /\ sent = <<>>
  /\ disturbed = FALSE

Init == Fresh /\ pc = "spawn"

-----------------------------------------------------------------------------
(* Mutant: initialized is sent without waiting for the answer to initialize.   *)
Following_NoWait ==
  [send_init |-> "notify", notify |-> "send_request", send_request |-> "wait_request"]

(* What is sent at a step, and the step after it.                             *)
Sending == [send_init |-> "initialize", notify |-> "initialized", send_request |-> method]
Following == [send_init |-> "wait_init", notify |-> "send_request", send_request |-> "wait_request"]

(* An exception leaves for the finally clause that closes the session.        *)
Fail(why) == outcome' = why /\ pc' = "closing"

(* The command does not start (OSError), or the entry names none.             *)
Spawn ==
  /\ pc = "spawn"
  /\ \/ /\ alive' = TRUE /\ pc' = "send_init"
        /\ UNCHANGED outcome
     \/ /\ outcome' \in {"spawn_failed", "protocol"} /\ pc' = "closed"
        /\ UNCHANGED alive
  /\ UNCHANGED <<method, attempt, orphans, result, stdin, stdout, notices, sent, disturbed>>

(* A write to a child that has exited raises, and nothing retries it.         *)
Send ==
  /\ pc \in {"send_init", "notify", "send_request"}
  /\ \/ /\ alive
        /\ stdin' = Append(stdin, Sending[pc])
        /\ sent' = Append(sent, Sending[pc])
        /\ pc' = Following[pc]
        /\ UNCHANGED outcome
     \/ /\ ~alive
        /\ Fail("broken_pipe")
        /\ UNCHANGED <<stdin, sent>>
  /\ UNCHANGED <<method, attempt, orphans, result, alive, stdout, notices, disturbed>>

(* The arguments do not fit into the pipe: the write waits, with no timeout,   *)
(* until the child has read them or is gone.                                  *)
SendLarge ==
  /\ Large /\ pc = "send_request" /\ method = "tools/call" /\ alive
  /\ stdin' = Append(stdin, method)
  /\ sent' = Append(sent, method)
  /\ pc' = "writing"
  /\ UNCHANGED <<method, attempt, orphans, outcome, result, alive, stdout, notices, disturbed>>

WriteEnds ==
  /\ pc = "writing"
  /\ \/ stdin = <<>> /\ pc' = "wait_request" /\ UNCHANGED outcome
     \/ ~alive /\ Fail("broken_pipe")
  /\ UNCHANGED <<method, attempt, orphans, result, child, sent, disturbed>>

Waiting == pc \in {"wait_init", "wait_request"}

(* The reader of this request gets the next message, whatever it is. What is   *)
(* no message raises, and so does any one that a single read of the unbuffered  *)
(* pipe does not return whole (content-length mode).                          *)
Read ==
  /\ Waiting /\ stdout # <<>>
  /\ stdout' = Tail(stdout)
  /\ attempt' = 0
  /\ LET m == Head(stdout) IN
     \/ Fail("protocol") /\ UNCHANGED result
     \/ m.kind # "junk" /\ pc = "wait_init" /\ pc' = "notify" /\ UNCHANGED <<outcome, result>>
     \/ /\ m.kind # "junk" /\ pc = "wait_request"
        /\ pc' = "closing" /\ outcome' = "result" /\ result' = m
  /\ UNCHANGED <<method, orphans, alive, stdin, notices, sent, disturbed>>

(* A reader left behind gets it instead.                                     *)
Steal ==
  /\ orphans > 0 /\ stdout # <<>>
  /\ stdout' = Tail(stdout)
  /\ orphans' = orphans - 1
  /\ UNCHANGED <<method, pc, attempt, outcome, result, alive, stdin, notices, sent, disturbed>>

(* Two readers of an unbuffered pipe may also share out a message's bytes.     *)
Garble ==
  /\ Waiting /\ orphans > 0 /\ stdout # <<>>
  /\ stdout' = Tail(stdout)
  /\ Fail("protocol")
  /\ UNCHANGED <<method, attempt, orphans, result, alive, stdin, notices, sent, disturbed>>

(* The end of the pipe: the child is gone and all it wrote has been read.      *)
ReadEnd ==
  /\ ~alive /\ stdout = <<>>
  /\ \/ /\ Waiting /\ Fail("protocol")
        /\ UNCHANGED orphans
     \/ /\ orphans > 0 /\ orphans' = orphans - 1
        /\ UNCHANGED <<pc, outcome>>
  /\ UNCHANGED <<method, attempt, result, child, sent, disturbed>>

(* Mutant: tools/call is retried like the others.                            *)
Retried_Always == TRUE

(* Only initialize and tools/list are made through the helper that retries.    *)
Retried == pc = "wait_init" \/ method = "tools/list"

(* Mutant: the wait for the request's own answer has no timeout.              *)
TimesOut_InitOnly ==
  /\ pc = "wait_init"
  /\ orphans' = orphans + 1
  /\ disturbed' = TRUE
  /\ \/ /\ Retried /\ attempt < Retries
        /\ attempt' = attempt + 1
        /\ pc' = "send_init"
        /\ UNCHANGED outcome
     \/ /\ ~(Retried /\ attempt < Retries)
        /\ Fail("timeout")
        /\ UNCHANGED attempt
  /\ UNCHANGED <<method, result, child, sent>>

(* Mutant: one retry too many.                                               *)
TimesOut_OneMore ==
  /\ Waiting
  /\ orphans' = orphans + 1
  /\ disturbed' = TRUE
  /\ \/ /\ Retried /\ attempt <= Retries
        /\ attempt' = attempt + 1
        /\ pc' = IF pc = "wait_init" THEN "send_init" ELSE "send_request"
        /\ UNCHANGED outcome
     \/ /\ ~(Retried /\ attempt <= Retries)
        /\ Fail("timeout")
        /\ UNCHANGED attempt
  /\ UNCHANGED <<method, result, child, sent>>

(* The wait is over, the reader stays; after the backoff the request is sent   *)
(* once more, in the same session.                                           *)
TimesOut ==
  /\ Waiting
  /\ orphans' = orphans + 1
  /\ disturbed' = TRUE
  /\ \/ /\ Retried /\ attempt < Retries
        /\ attempt' = attempt + 1
        /\ pc' = IF pc = "wait_init" THEN "send_init" ELSE "send_request"
        /\ UNCHANGED outcome
     \/ /\ ~(Retried /\ attempt < Retries)
        /\ Fail("timeout")
        /\ UNCHANGED attempt
  /\ UNCHANGED <<method, result, child, sent>>

(* Mutant: the child is left running.                                        *)
Close_Unkilled ==
  /\ pc = "closing"
  /\ pc' = "closed"
  /\ UNCHANGED <<method, attempt, orphans, outcome, result, child, sent, disturbed>>

(* The finally clause: terminate and kill.                                   *)
Close ==
  /\ pc = "closing"
  /\ pc' = "closed"
  /\ alive' = FALSE
  /\ UNCHANGED <<method, attempt, orphans, outcome, result, stdin, stdout, notices, sent, disturbed>>

-----------------------------------------------------------------------------
(* The child.                                                               *)

(* It takes the next message; a request is answered, or not.                 *)
Take ==
  /\ alive /\ stdin # <<>>
  /\ stdin' = Tail(stdin)
  /\ \/ UNCHANGED stdout
     \/ /\ Head(stdin) \in Requests
        /\ \E kind \in {"answer", "error"} :
             stdout' = Append(stdout, [kind |-> kind, to |-> Head(stdin)])
  /\ UNCHANGED <<method, thread, alive, notices, sent, disturbed>>

(* A notification, or a line that is no message at all.                      *)
Notice ==
  /\ alive /\ notices < MaxNotices
  /\ notices' = notices + 1
  /\ \E kind \in {"notice", "junk"} : stdout' = Append(stdout, Unasked(kind))
  /\ disturbed' = TRUE
  /\ UNCHANGED <<method, thread, alive, stdin, sent>>

Exit ==
  /\ alive
  /\ alive' = FALSE
  /\ UNCHANGED <<method, thread, stdin, stdout, notices, sent, disturbed>>

DaemonStep == Spawn \/ Send \/ SendLarge \/ WriteEnds \/ Read \/ Garble \/ TimesOut \/ Close
ReaderStep == Steal \/ ReadEnd

Next == DaemonStep \/ ReaderStep \/ Take \/ Notice \/ Exit

(* The daemon's thread and the readers go on when they can: a read ends at its *)
(* timeout, a blocked write only as WriteEnds says; of the child nothing is     *)
(* expected.                                                                 *)
Fairness == WF_vars(DaemonStep) /\ WF_vars(ReaderStep)

Spec == Init /\ [][Next]_vars /\ Fairness

-----------------------------------------------------------------------------
Steps == {"spawn", "send_init", "wait_init", "notify", "send_request", "writing",
          "wait_request", "closing", "closed"}

(* What every variable holds.                                               *)
TypeOK ==
  /\ method \in {"tools/list", "tools/call"}
  /\ pc \in Steps
  /\ attempt \in 0..Retries
  /\ orphans \in Nat
  /\ outcome \in {"none", "result", "spawn_failed", "broken_pipe", "protocol", "timeout"}
  /\ result \in Messages
  /\ alive \in BOOLEAN
  /\ stdin \in Seq(Requests \cup {"initialized"})
  /\ stdout \in Seq(Messages)
  /\ notices \in Nat
  /\ sent \in Seq(Requests \cup {"initialized"})
  /\ disturbed \in BOOLEAN

(* As long as no read times out and the child writes nothing unasked, the      *)
(* message handed over as the answer is the answer to that request, though     *)
(* nothing compares ids (stdio_mcp.py:123-139, 205-241).                      *)
OwnAnswer ==
  (outcome = "result" /\ ~disturbed) => result.to = method

(* How often a message has been sent.                                        *)
Times(m) == Cardinality({i \in DOMAIN sent : sent[i] = m})

(* The request is never sent before initialized, initialized never before a    *)
(* message was read for initialize, tools/call at most once, and no request    *)
(* more often than its retries allow (stdio_mcp.py:183-202, 262-275).         *)
HandshakeKept ==
  /\ Times("initialized") <= 1
  /\ Times("tools/call") <= 1
  /\ Times("initialize") <= Retries + 1 /\ Times("tools/list") <= Retries + 1
  /\ \A i \in DOMAIN sent : sent[i] = method => \E j \in 1..(i - 1) : sent[j] = "initialized"
  /\ \A i \in DOMAIN sent : sent[i] = "initialized" => sent[1] = "initialize"

(* A large message that the child does not take holds the daemon's thread.     *)
WriteBlocked == pc = "writing" /\ alive /\ stdin # <<>>

(* Whatever the child does, hanging included, the exchange ends and the child  *)
(* is dead; nothing but a blocked write, which has no timeout, can keep it     *)
(* open (stdio_mcp.py:87-121 and 136, daemon.py:328-329 and 710-711).          *)
SessionEnds == <>[](pc = "closed" /\ ~alive) \/ <>[]WriteBlocked

(* No reader thread stays behind for good: with the child dead the pipe ends   *)
(* under each of them (stdio_mcp.py:92-105, 151-159).                         *)
NoReaderStays == <>[](orphans = 0) \/ <>[]WriteBlocked

(* How many steps the daemon's thread has left at most: three more for each     *)
(* retry of the request, two for each one of initialize.                      *)
StepsLeft ==
  LET retries == Retries - attempt IN
  CASE pc = "spawn"        -> 5 * Retries + 8
    [] pc = "send_init"    -> 3 * Retries + 2 * retries + 7
    [] pc = "wait_init"    -> 3 * Retries + 2 * retries + 6
    [] pc = "notify"       -> 3 * Retries + 5
    [] pc = "send_request" -> 3 * retries + 4
    [] pc = "writing"      -> 3 * retries + 3
    [] pc = "wait_request" -> 3 * retries + 2
    [] pc = "closing"      -> 1
    [] pc = "closed"       -> 0

(* Every timeout leaves a reader thread behind on the pipe. Over the whole      *)
(* exchange these are no more than the retries of initialize, those of the     *)
(* request, and the last timeout (stdio_mcp.py:92-110, 123-139).              *)
ReadersBounded ==
  /\ orphans <= 2 * Retries + 1
  /\ method = "tools/call" => orphans <= Retries + 1

(* daemon.py:332, "Cache successful results only (empty list from error is not *)
(* cached above)": what is cached for a listing is an answer with tools.       *)
CachesOnlySuccess ==
  (pc = "closed" /\ method = "tools/list" /\ outcome = "result")
    => result.kind = "answer" /\ result.to = "tools/list"
=============================================================================
