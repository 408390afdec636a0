---------------------------- MODULE RegistryStore ---------------------------
(***************************************************************************)
(* The registry on disk and in memory: the HTTP threads that serve           *)
(* POST /registry/apply and /registry/validate (lmcp/management.py, called    *)
(* from lmcp/daemon.py), the file and its backup, disk errors, and the        *)
(* daemon's death and restart at any moment.                                 *)
(*                                                                          *)
(* The four assignments of the reload are one step here; module Gateway       *)
(* takes them one by one.                                                    *)
(***************************************************************************)
EXTENDS RegistryData, Naturals

CONSTANTS
  Handlers,     \* threads that serve management requests
  NoOne,        \* the write lock is free
  Originals,    \* the registries that the daemon may first be started with
  Menu          \* the patches that operators send

ASSUME StoreAssumption ==
  /\ NoOne \notin Handlers
  /\ \A d \in Originals : d \in Registries /\ Valid(d)
  /\ Menu \subseteq Patches /\ Menu # {}

VARIABLES
  file, bak,    \* registry.yaml and registry.yaml.bak
  mem,          \* the daemon's Registry
  up,           \* the daemon runs
  lock,         \* holder of _write_lock
  pc, op, patch,\* per handler: where it is and what it was asked
  current,      \* per handler: the content it read
  answer,       \* per handler: what it is about to answer, or has answered
  good,         \* history: the last registry written whole, or started from;
                \* Broken from where an apply may overwrite the only copy
  damaged,      \* history: rewriting the file has come to nothing since
  apart,        \* history: a reload or a restore failed, and no reload or
                \* restart has made memory and file agree since
  notice        \* history: since the daemon started, the caller of an apply
                \* that changed the settings was told so, or lost its answer

disk == <<file, bak>>
asked == <<op, patch, current>>
handling == <<pc, asked, answer>>
history == <<good, damaged, apart, notice>>
vars == <<disk, mem, up, lock, handling, history>>

Contents == Drafts \cup {Broken}
Steps == {"idle", "admitted", "held", "merged", "backing", "backed", "writing",
          "written", "failed", "restoring", "auditing", "done"}
Answers == {"none", "forbidden", "valid", "invalid", "raised", "in_progress",
            "refused", "backup_failed", "preserved", "lost", "applied", "applied_only"}

NoPatch == CHOOSE p \in Menu : TRUE

Init ==
  /\ file \in Originals
  /\ bak = Broken
  /\ mem = file
  /\ up = TRUE
  /\ lock = NoOne
  /\ pc = [h \in Handlers |-> "idle"]
  /\ op = [h \in Handlers |-> "apply"]
  /\ patch = [h \in Handlers |-> NoPatch]
  /\ current = [h \in Handlers |-> Blank]
  /\ answer = [h \in Handlers |-> "none"]
  /\ good = file
  /\ damaged = FALSE
  /\ apart = FALSE
  /\ notice = FALSE

-----------------------------------------------------------------------------
(* Where a thread goes, what it answers, and the finally clause.              *)

Goto(h, step) == pc' = [pc EXCEPT ![h] = step]
Answer(h, what) == answer' = [answer EXCEPT ![h] = what]
ReleaseLock(h) == lock' = IF lock = h THEN NoOne ELSE lock

(* The thread is about to answer; nothing else of the request is left.        *)
Leave(h) ==
  /\ Goto(h, "done")
  /\ op' = [op EXCEPT ![h] = "apply"]
  /\ patch' = [patch EXCEPT ![h] = NoPatch]
  /\ current' = [current EXCEPT ![h] = Blank]

(* An exception that nobody catches: no answer, no record, the lock is freed. *)
Raise(h) == Answer(h, "raised") /\ Leave(h) /\ ReleaseLock(h)

(* The attempt is over but for its record; the lock is still held.            *)
Verdict(h, what) == Answer(h, what) /\ Goto(h, "auditing")

-----------------------------------------------------------------------------
(* The request, and check_management_auth on the token in memory.             *)
Request(h, what, token, p) ==
  /\ up /\ pc[h] = "idle"
  /\ \/ /\ mem.token # NoToken /\ token = mem.token
        /\ op' = [op EXCEPT ![h] = what]
        /\ patch' = [patch EXCEPT ![h] = p]
        /\ Goto(h, "admitted")
        /\ UNCHANGED <<current, answer>>
     \/ /\ mem.token = NoToken \/ token # mem.token
        /\ Answer(h, "forbidden") /\ Leave(h)
  /\ UNCHANGED <<disk, mem, up, lock, history>>

(* The answer has been sent.                                                 *)
Return(h) ==
  /\ pc[h] = "done"
  /\ Goto(h, "idle")
  /\ Answer(h, "none")
  /\ UNCHANGED <<disk, mem, up, lock, asked, history>>

Readable(h) == file # Broken /\ patch[h].kind # "malformed"

(* validate_patch takes no lock: it reads whatever the file holds.            *)
Validate(h) ==
  /\ pc[h] = "admitted" /\ op[h] = "validate"
  /\ Answer(h, IF ~Readable(h) THEN "raised"
               ELSE IF Passes(file, patch[h]) THEN "valid" ELSE "invalid")
  /\ Leave(h)
  /\ UNCHANGED <<disk, mem, up, lock, history>>

(* Mutant: the lock is taken whoever holds it.                               *)
Acquire_Anyway(h) ==
  /\ pc[h] = "admitted" /\ op[h] = "apply"
  /\ lock' = h /\ Goto(h, "held")
  /\ UNCHANGED <<disk, mem, up, asked, answer, history>>

(* acquire(blocking=False): taken, or answered with 409.                     *)
Acquire(h) ==
  /\ pc[h] = "admitted" /\ op[h] = "apply"
  /\ \/ /\ lock = NoOne
        /\ lock' = h /\ Goto(h, "held")
        /\ UNCHANGED <<asked, answer>>
     \/ /\ lock # NoOne
        /\ Answer(h, "in_progress") /\ Leave(h)
        /\ UNCHANGED lock
  /\ UNCHANGED <<disk, mem, up, history>>

(* What the apply goes on with.                                              *)
Take(h, content) ==
  /\ current' = [current EXCEPT ![h] = content]
  /\ \/ /\ Passes(content, patch[h])
        /\ Goto(h, "merged")
        /\ UNCHANGED answer
     \/ /\ ~Passes(content, patch[h])
        /\ Verdict(h, "refused")
  /\ UNCHANGED <<lock, op, patch>>

(* Mutant: the patch is merged into the registry in memory.                   *)
Read_FromMemory(h) ==
  /\ pc[h] = "held"
  /\ \/ ~Readable(h) /\ Raise(h)
     \/ Readable(h) /\ Take(h, mem)
  /\ UNCHANGED <<disk, mem, up, history>>

(* Read the file, merge, validate.                                           *)
Read(h) ==
  /\ pc[h] = "held"
  /\ \/ ~Readable(h) /\ Raise(h)
     \/ Readable(h) /\ Take(h, file)
  /\ UNCHANGED <<disk, mem, up, history>>

-----------------------------------------------------------------------------
(* shutil.copy2 to the backup: opening it empties it, even if it held the only  *)
(* good copy and the file, as the patch completes it, what a failure had left.  *)
OpenBackup(h) ==
  /\ pc[h] = "merged"
  /\ bak' = Blank
  /\ good' = IF damaged THEN Broken ELSE good
  /\ Goto(h, "backing")
  /\ UNCHANGED <<file, mem, up, lock, asked, answer, damaged, apart, notice>>

CopyBackup(h) ==
  /\ pc[h] = "backing"
  /\ bak' = file
  /\ Goto(h, "backed")
  /\ UNCHANGED <<file, mem, up, lock, asked, answer, history>>

(* Mutant: an apply goes on without its backup.                              *)
BackupFails_Ignored(h) ==
  /\ pc[h] \in {"merged", "backing"}
  /\ bak' \in IF pc[h] = "merged" THEN {bak} ELSE Torn(file)
  /\ Goto(h, "backed")
  /\ UNCHANGED <<file, mem, up, lock, asked, answer, history>>

BackupFails(h) ==
  /\ pc[h] \in {"merged", "backing"}
  /\ bak' \in IF pc[h] = "merged" THEN {bak} ELSE Torn(file)
  /\ Verdict(h, "backup_failed")
  /\ UNCHANGED <<file, mem, up, lock, asked, history>>

-----------------------------------------------------------------------------
(* write_text: opening the file empties it, too; what is written lands in     *)
(* one piece or, before that, in part.                                       *)

Result(h) == Merge(current[h], patch[h])

(* Mutant: compared with the file as it is by then.                          *)
RestartRequired_Reread(h) == file # Broken /\ Result(h).bound # file.bound

(* _check_restart_required: the merged registry against the file that was      *)
(* read, not against the settings that the daemon runs with.                 *)
RestartRequired(h) == Result(h).bound # current[h].bound

OpenFile(h) ==
  /\ pc[h] = "backed"
  /\ file' = Blank
  /\ Goto(h, "writing")
  /\ UNCHANGED <<bak, mem, up, lock, asked, answer, history>>

WritePart(h) ==
  /\ pc[h] = "writing" /\ file = Blank
  /\ file' \in Torn(Result(h))
  /\ UNCHANGED <<bak, mem, up, lock, handling, history>>

WriteFile(h) ==
  /\ pc[h] = "writing"
  /\ file' = Result(h)
  /\ good' = Result(h) /\ damaged' = FALSE
  /\ Goto(h, "written")
  /\ UNCHANGED <<bak, mem, up, lock, asked, answer, apart, notice>>

(* Dumping, opening or writing fails.                                        *)
WriteFails(h) ==
  /\ pc[h] \in {"backed", "writing"}
  /\ Goto(h, "failed")
  /\ UNCHANGED <<disk, mem, up, lock, asked, answer, history>>

(* copy2 back from the backup.                                               *)
OpenRestore(h) ==
  /\ pc[h] = "failed"
  /\ file' = Blank
  /\ Goto(h, "restoring")
  /\ UNCHANGED <<bak, mem, up, lock, asked, answer, history>>

(* Mutant: the restore goes the wrong way round.                             *)
Restore_Swapped(h) ==
  /\ pc[h] = "restoring"
  /\ bak' = file
  /\ Verdict(h, "preserved")
  /\ UNCHANGED <<file, mem, up, lock, asked, history>>

Restore(h) ==
  /\ pc[h] = "restoring"
  /\ file' = bak
  /\ Verdict(h, "preserved")
  /\ UNCHANGED <<bak, mem, up, lock, asked, history>>

(* Whoever applies next is not told of settings that are left in the file.     *)
SettingsLeft(h) == file' # Broken /\ file'.bound \notin {Missing, current[h].bound}

RestoreFails(h) ==
  /\ pc[h] \in {"failed", "restoring"}
  /\ file' \in IF pc[h] = "failed" THEN {file} ELSE Torn(bak)
  /\ damaged' = TRUE
  /\ apart' = TRUE
  /\ notice' = (notice \/ SettingsLeft(h))
  /\ Verdict(h, "lost")
  /\ UNCHANGED <<bak, mem, up, lock, asked, good>>

-----------------------------------------------------------------------------
(* Mutant: one of the four assignments is missing.                           *)
Reload_NoToken(h) ==
  /\ pc[h] = "written"
  /\ mem' = [Loaded(file) EXCEPT !.token = mem.token, !.bound = mem.bound]
  /\ apart' = FALSE
  /\ Verdict(h, "applied")
  /\ UNCHANGED <<disk, up, lock, asked, good, damaged, notice>>

(* load_registry reads the file just written and the live registry gets its   *)
(* clients, servers, limit and management token, but not the settings that    *)
(* take effect at a start.                                                   *)
Reload(h) ==
  /\ pc[h] = "written"
  /\ mem' = [Loaded(file) EXCEPT !.bound = mem.bound]
  /\ apart' = FALSE
  /\ Verdict(h, "applied")
  /\ UNCHANGED <<disk, up, lock, asked, good, damaged, notice>>

(* Whatever loading raises is caught before the first assignment.            *)
ReloadFails(h) ==
  /\ pc[h] = "written"
  /\ apart' = TRUE
  /\ Verdict(h, "applied_only")
  /\ UNCHANGED <<disk, mem, up, lock, asked, good, damaged, notice>>

Written(h) == answer[h] \in {"applied", "applied_only"}

(* The config_change record, the return with or without restart_required, and  *)
(* the finally clause.                                                       *)
Conclude(h) ==
  /\ pc[h] = "auditing"
  /\ notice' = (notice \/ (Written(h) /\ RestartRequired(h)))
  /\ Leave(h) /\ ReleaseLock(h)
  /\ UNCHANGED <<disk, mem, up, answer, good, damaged, apart>>

(* Mutant: the exception leaves the lock taken.                              *)
AuditFails_Locked(h) ==
  /\ pc[h] = "auditing"
  /\ notice' = (notice \/ (Written(h) /\ RestartRequired(h)))
  /\ Answer(h, "raised") /\ Leave(h)
  /\ UNCHANGED <<disk, mem, up, lock, good, damaged, apart>>

(* The record cannot be written: what has been done stays done, and nobody is  *)
(* told of it.                                                               *)
AuditFails(h) ==
  /\ pc[h] = "auditing"
  /\ notice' = (notice \/ (Written(h) /\ RestartRequired(h)))
  /\ Raise(h)
  /\ UNCHANGED <<disk, mem, up, good, damaged, apart>>

-----------------------------------------------------------------------------
Rewriting(h) == pc[h] \in {"writing", "failed", "restoring"}

(* The process dies: threads and lock go with it.                            *)
Crash ==
  /\ up
  /\ damaged' = (damaged \/ \E h \in Handlers : Rewriting(h))
  /\ up' = FALSE
  /\ lock' = NoOne
  /\ pc' = [h \in Handlers |-> "idle"]
  /\ op' = [h \in Handlers |-> "apply"]
  /\ patch' = [h \in Handlers |-> NoPatch]
  /\ current' = [h \in Handlers |-> Blank]
  /\ answer' = [h \in Handlers |-> "none"]
  /\ UNCHANGED <<disk, mem, good, apart, notice>>

(* Starting is load_registry and no validation; a file that does not parse    *)
(* keeps the daemon from starting.                                           *)
Restart ==
  /\ ~up /\ file # Broken
  /\ up' = TRUE
  /\ mem' = Loaded(file)
  /\ apart' = FALSE /\ notice' = FALSE
  /\ UNCHANGED <<disk, lock, handling, good, damaged>>

ApplyStep(h) ==
  \/ Acquire(h) \/ Read(h)
  \/ OpenBackup(h) \/ CopyBackup(h) \/ BackupFails(h)
  \/ OpenFile(h) \/ WritePart(h) \/ WriteFile(h) \/ WriteFails(h)
  \/ OpenRestore(h) \/ Restore(h) \/ RestoreFails(h)
  \/ Reload(h) \/ ReloadFails(h)
  \/ Conclude(h) \/ AuditFails(h)

Next ==
  \/ \E h \in Handlers :
       \/ \E what \in {"apply", "validate"}, token \in Tokens, p \in Menu : Request(h, what, token, p)
       \/ Validate(h)
       \/ ApplyStep(h)
       \/ Return(h)
  \/ Crash
  \/ Restart

(* A thread that serves an apply goes on as long as the process lives: each   *)
(* of its calls on the file returns or raises.                               *)
Fairness == \A h \in Handlers : WF_vars(ApplyStep(h))

Spec == Init /\ [][Next]_vars /\ Fairness

-----------------------------------------------------------------------------
(* What every variable holds; the lock's holder is the one thread inside.     *)
Inside == Steps \ {"idle", "admitted", "done"}

TypeOK ==
  /\ file \in Contents /\ bak \in Contents
  /\ mem \in Registries
  /\ up \in BOOLEAN
  /\ lock \in Handlers \cup {NoOne}
  /\ pc \in [Handlers -> Steps]
  /\ op \in [Handlers -> {"apply", "validate"}]
  /\ patch \in [Handlers -> Menu]
  /\ current \in [Handlers -> Contents]
  /\ answer \in [Handlers -> Answers]
  /\ good \in Registries \cup {Broken} /\ damaged \in BOOLEAN
  /\ apart \in BOOLEAN
  /\ notice \in BOOLEAN
  /\ \A h \in Handlers : pc[h] \in Inside <=> lock = h

(* The registry that was last written whole stays on disk: it is what the file  *)
(* holds, or its backup while an apply rewrites the file. A write and a restore  *)
(* that both fail, or the daemon's death in between, leave it in the backup, and *)
(* there it stays until an apply has written another, or has taken what is left *)
(* in the file for the registry: if the patch completes that, the copy of it    *)
(* replaces the good one (management.py:246-300).                              *)
Recoverable ==
  good # Broken =>
    good = IF damaged \/ \E h \in Handlers : Rewriting(h) THEN bak ELSE file

(* What an apply is about to tell its caller is true of the file while it     *)
(* still holds the lock: refused, without a backup or restored means that the *)
(* file is the one it read, applied that it is that one with the patch, and   *)
(* lost that the backup is the one it read (management.py:246-307).           *)
AnswerMatchesDisk ==
  \A h \in Handlers : pc[h] = "auditing" =>
    /\ answer[h] \in {"refused", "backup_failed", "preserved"} => file = current[h]
    /\ answer[h] \in {"applied", "applied_only"} => file = Result(h)
    /\ answer[h] = "lost" => bak = current[h]

(* What is in force of d while the daemon runs with memory m.                 *)
Live(d, m) == [d EXCEPT !.bound = m.bound]

(* Between applies the daemon serves the registry that is on disk, but for the *)
(* settings that need a restart, except after a reload or a restore that      *)
(* failed: an operator who reads the file sees what is in force              *)
(* (management.py:278-322).                                                  *)
MemoryFollowsFile ==
  (up /\ lock = NoOne /\ ~apart) => mem = Live(Loaded(file), mem)

(* Whenever the file's settings are not those the daemon runs with, an apply   *)
(* since its start has answered restart_required, or has lost its answer to a  *)
(* failing log or restore: that later applies compare with the file only, and  *)
(* keep silent, hides nothing (management.py:205-213, 258-259, 339-340).      *)
RestartAnnounced ==
  (up /\ lock = NoOne /\ file # Broken /\ file.bound \notin {Missing, mem.bound})
    => notice

(* A sound patch to a valid registry is refused only for a list of its own    *)
(* that names a server neither there nor put: removing a server, which leaves *)
(* every list, is never refused (management.py:158-166, config.py:214-218).   *)
RefusedForCause ==
  \A h \in Handlers :
    (/\ pc[h] = "auditing" /\ answer[h] = "refused"
     /\ patch[h].kind = "sound" /\ Complete(current[h]) /\ Valid(current[h]))
      => \E c \in DOMAIN patch[h].clients :
           ~(patch[h].clients[c] \subseteq current[h].servers \cup patch[h].put)

(* The lock is free again and again: an apply that has begun ends and gives it  *)
(* back, whatever raises in it (management.py:239-242 and 349-350).           *)
LockFreed == []<>(lock = NoOne)

(* How many steps an apply has left at most before it gives the lock back; a    *)
(* file still empty is one more.                                             *)
StepsLeft(h) ==
  CASE pc[h] = "held"     -> 9
    [] pc[h] = "merged"   -> 8
    [] pc[h] = "backing"  -> 7
    [] pc[h] = "backed"   -> 6
    [] pc[h] = "writing"  -> IF file = Blank THEN 5 ELSE 4
    [] pc[h] = "failed"   -> 3
    [] pc[h] \in {"restoring", "written"} -> 2
    [] pc[h] = "auditing" -> 1
    [] pc[h] \in Steps \ Inside -> 0

(* An apply never goes back to a file it has dealt with: each step of the      *)
(* lock's holder uses up one of those left, failures and restore included, and *)
(* nobody else, and no other apply, puts it back or ends it (management.py:     *)
(* 239-350).                                                                 *)
ApplyRunsOut ==
  [][\A h \in Handlers : lock = h =>
       \/ Crash
       \/ IF ApplyStep(h) THEN StepsLeft(h)' < StepsLeft(h)
          ELSE StepsLeft(h)' = StepsLeft(h) /\ lock' = h]_vars

(* docs/management_api.md:417, "concurrent readers either see fully old or     *)
(* fully new state on disk": what a validate reads while an apply rewrites     *)
(* the file is the registry before it or the one after it.                    *)
ReadersSeeOldOrNew ==
  [][\A h, k \in Handlers :
       Validate(h) /\ Rewriting(k) => file \in {current[k], Result(k)}]_vars

(* The file, as the applies' callers may think of it: what it was, which its    *)
(* backup has, until the write is complete, and unchanged by a write that is    *)
(* taken back.                                                               *)
DiskSeen == IF \E h \in Handlers : Rewriting(h) THEN bak ELSE file

Abstract == INSTANCE AtomicRegistry WITH disk <- DiskSeen

(* Applies are atomic: the store implements AtomicRegistry. No interleaving    *)
(* of two applies loses a patch or mixes two.                                *)
AppliesAreAtomic == Abstract!AtomicSpec

InMemory == INSTANCE LiveRegistry WITH
  Loadable <- Registries, Appliers <- Handlers, live <- mem, holder <- {lock} \ {NoOne},
  replaced <- \E h \in Handlers : pc[h] = "auditing" /\ Written(h)

(* The registry in force is replaced, too, under the lock only, and once by    *)
(* each apply that comes so far; else it takes a restart. This is what module  *)
(* Gateway, too, keeps of the reload (management.py:239, 304-322, 350).       *)
RegistryReplacedOnce == InMemory!LiveSpecWithRestarts
=============================================================================
