----------------------------- MODULE TokenBucket ----------------------------
(***************************************************************************)
(* One _TokenBucket of lmcp/daemon.py: the limiter of a client, or the one   *)
(* all the unauthenticated probes share.  It refills continuously; here time *)
(* goes by in ticks, Minute of them to the minute, and a token is Minute     *)
(* units, so that elapsed * (rpm / 60.0) tokens are exactly elapsed * rpm    *)
(* units whatever the tick.  (The code computes it in floating point.)       *)
(***************************************************************************)
EXTENDS Integers

CONSTANTS
  rpm,      \* the limit the bucket was made with
  Minute,   \* ticks in a minute: the granularity of time
  MaxTime   \* bound on the clock

ASSUME BucketAssumption ==
  /\ rpm \in Nat \ {0}
  /\ Minute \in Nat \ {0}
  /\ MaxTime \in Nat

Full == rpm * Minute

VARIABLES
  now,          \* time.monotonic()
  tokens,       \* self.tokens, in units
  last_refill,
  granted_at,   \* history: when allow() last said yes, or the bucket was made
  since, count  \* history: an observer counts what was granted since some time

vars == <<now, tokens, last_refill, granted_at, since, count>>

Init ==
  /\ now = 0
  /\ tokens = Full /\ last_refill = now
  /\ granted_at = now
  /\ since = now /\ count = 0

Tick == now < MaxTime /\ now' = now + 1
        /\ UNCHANGED <<tokens, last_refill, granted_at, since, count>>

(* Mutant: a long quiet time piles up.                                       *)
Refilled_Uncapped == tokens + (now - last_refill) * rpm

(* What the bucket holds once the time since the last call is credited.      *)
Refilled ==
  LET credited == tokens + (now - last_refill) * rpm
  IN  IF credited <= Full THEN credited ELSE Full

(* Mutant: a token is taken whether there is one or not.                     *)
Grant_Unchecked ==
  /\ tokens' = Refilled - Minute
  /\ last_refill' = now
  /\ granted_at' = now /\ count' = count + 1
  /\ UNCHANGED <<now, since>>

(* The two outcomes of allow(), each one critical section.                   *)
Grant ==
  /\ Refilled >= Minute
  /\ tokens' = Refilled - Minute
  /\ last_refill' = now
  /\ granted_at' = now /\ count' = count + 1
  /\ UNCHANGED <<now, since>>

(* Mutant: the credit is kept only by a grant, the clock is reset by both.   *)
Refuse_Forgetful ==
  /\ Refilled < Minute
  /\ last_refill' = now
  /\ UNCHANGED <<now, tokens, granted_at, since, count>>

Refuse ==
  /\ Refilled < Minute
  /\ tokens' = Refilled
  /\ last_refill' = now
  /\ UNCHANGED <<now, granted_at, since, count>>

(* The observer starts counting afresh; it is no part of the program.        *)
Observe ==
  /\ since # now
  /\ since' = now /\ count' = 0
  /\ UNCHANGED <<now, tokens, last_refill, granted_at>>

Next == Tick \/ Grant \/ Refuse \/ Observe

Spec == Init /\ [][Next]_vars

-----------------------------------------------------------------------------
(* Properties.                                                              *)

(* The clock never runs behind what the bucket remembers of it, and the      *)
(* bucket holds between nothing and rpm tokens (daemon.py:71-75).            *)
TypeOK ==
  /\ now \in Nat
  /\ last_refill \in 0..now /\ since \in 0..now
  /\ granted_at \in 0..last_refill
  /\ tokens \in 0..Full
  /\ count \in Nat

(* From any moment on, no more is granted than a full bucket and what has    *)
(* been refilled since: in a window of w ticks at most rpm * (1 + w/Minute), *)
(* hence at most 2 * rpm in a minute and, in the long run, rpm a minute      *)
(* (daemon.py:68-79).                                                        *)
WindowBound == count * Minute <= Full + rpm * (now - since)

(* A caller is refused only within 60/rpm seconds of the last grant: being   *)
(* refused again and again does not put off the next token, so a client, or  *)
(* a flood of probes, cannot lock everybody out for longer                   *)
(* (daemon.py:71-79).                                                        *)
RefusedOnlySoonAfterGrant == [][Refuse => (now - granted_at) * rpm < Minute]_vars

-----------------------------------------------------------------------------
(* Inductive strengthenings.                                                *)

(* What is left in the bucket counts against what may still be granted: the   *)
(* observed grants and the tokens left come from a full bucket and the refills *)
(* credited since.                                                           *)
Budget ==
  IF last_refill < since THEN count = 0
  ELSE count * Minute + tokens <= Full + rpm * (last_refill - since)

(* Nothing credited since the last grant has been lost, but to the cap.      *)
Saved == tokens = Full \/ tokens >= (last_refill - granted_at) * rpm
=============================================================================
