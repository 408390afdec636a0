---------------------------- MODULE LiveRegistry ----------------------------
(***************************************************************************)
(* What an apply promises of the daemon's one shared Registry object: what   *)
(* is in force is always one of the registries that may be loaded, whole,    *)
(* and only the holder of the write lock replaces it, once while holding it.  *)
(* Module Gateway, where the reload is three assignments, keeps it, and so    *)
(* does module RegistryStore, where the reload is one of the many steps of an *)
(* apply and the daemon may die and start again.                             *)
(***************************************************************************)
CONSTANTS
  Loadable,   \* the registries
  Appliers    \* the threads that apply

VARIABLES
  live,       \* the registry in force
  holder,     \* the thread that holds the write lock, as a set
  replaced    \* it has replaced the registry

liveVars == <<live, holder, replaced>>

LiveInit == live \in Loadable /\ holder = {} /\ replaced = FALSE

Take(a) == holder = {} /\ holder' = {a} /\ UNCHANGED <<live, replaced>>

(* With what was loaded, or, where loading failed, with itself.              *)
Replace(a) ==
  /\ holder = {a} /\ ~replaced
  /\ live' \in Loadable
  /\ replaced' = TRUE
  /\ UNCHANGED holder

Release(a) ==
  /\ holder = {a} /\ holder' = {}
  /\ replaced' = FALSE
  /\ UNCHANGED live

(* The daemon starts again; the lock went with the process.                  *)
Restart == holder = {} /\ live' \in Loadable /\ UNCHANGED <<holder, replaced>>

LiveNext == \E a \in Appliers : Take(a) \/ Replace(a) \/ Release(a)

LiveSpec == LiveInit /\ [][LiveNext]_liveVars

LiveSpecWithRestarts == LiveInit /\ [][LiveNext \/ Restart]_liveVars
=============================================================================
