------------------------- MODULE RegistryStoreProofs -------------------------
(***************************************************************************)
(* What is proved of the registry store for any number of handlers, clients, *)
(* servers and tokens, any menu of patches, and any failures and crashes.    *)
(***************************************************************************)
EXTENDS RegistryStore, TLAPS

-----------------------------------------------------------------------------
(* The data: what the operators of RegistryData return.                      *)

(* A setting is the old one or the one given.                                *)
LEMMA SettingTyped ==
  ASSUME NEW S, NEW old \in S, NEW given, given = {} \/ \E v \in S : given = {v}
  PROVE  Setting(old, given) \in S
  BY DEF Setting

(* What a draft lists, and that a section which is there is not missing.       *)
LEMMA DraftSections ==
  ASSUME NEW d \in Drafts
  PROVE  /\ Listed(d) \in SUBSET ClientIds
         /\ \A c \in Listed(d) : d.allow[c] \in Lists
         /\ There(d) \in SUBSET ServerIds
         /\ d.token \in Tokens \cup {NoToken} /\ d.bound \in {Missing} \cup Settings
<1>1. CASE d.allow = Missing
  BY <1>1 DEF Drafts, Listed, There
<1>2. CASE d.allow # Missing
  <2>1. PICK C \in SUBSET ClientIds : d.allow \in [C -> Lists]
    BY <1>2 DEF Drafts
  <2> QED BY <1>2, <2>1 DEF Drafts, Listed, There
<1> QED BY <1>1, <1>2

(* A complete draft is a registry, and a registry is a complete draft.         *)
LEMMA CompleteDrafts ==
  /\ \A d \in Drafts : Complete(d) => d \in Registries
  /\ \A d \in Registries : d \in Drafts /\ Complete(d) /\ Listed(d) = DOMAIN d.allow /\ There(d) = d.servers
<1>1. ASSUME NEW d \in Registries
      PROVE  d \in Drafts /\ Complete(d) /\ Listed(d) = DOMAIN d.allow /\ There(d) = d.servers
  <2>1. d \in Drafts
    BY DEF Registries, Drafts
  <2>2. PICK C \in SUBSET ClientIds : d.allow \in [C -> Lists]
    BY DEF Registries
  <2>3. d.servers \in SUBSET ServerIds /\ d.bound \in Settings
    BY DEF Registries
  <2>4. Complete(d)
    BY <2>2, <2>3, DataAssumption DEF Complete
  <2> QED BY <2>1, <2>4 DEF Complete, Listed, There
<1>2. ASSUME NEW d \in Drafts, Complete(d) PROVE d \in Registries
  BY <1>2 DEF Drafts, Registries, Complete
<1> QED BY <1>1, <1>2

(* A file may be empty, not parse, or hold a registry.                         *)
LEMMA DraftsThere == Blank \in Contents /\ Broken \in Contents /\ Registries \subseteq Contents
  BY CompleteDrafts DEF Contents, Blank, Drafts

(* Merging a patch into a draft gives a draft: of the two sections with         *)
(* entries each is missing or holds what the names say.                        *)
LEMMA MergeTyped ==
  ASSUME NEW d \in Drafts, NEW p \in Patches
  PROVE  /\ Merge(d, p) \in Drafts
         /\ NoClients(d, p) <=> Merge(d, p).allow = Missing
         /\ NoServers(d, p) <=> Merge(d, p).servers = Missing
<1> DEFINE allowed == [c \in Clients(d, p) |-> List(d, p, c) \ p.nullServers]
<1>1. PICK P \in SUBSET ClientIds : p.clients \in [P -> Lists]
  BY DEF Patches
<1>2. Clients(d, p) \in SUBSET ClientIds
  BY <1>1, DraftSections DEF Clients
<1>3. \A c \in Clients(d, p) : List(d, p, c) \in Lists
  BY <1>1, DraftSections DEF Clients, List
<1>4. \A c \in Clients(d, p) : List(d, p, c) \ p.nullServers \in Lists
  BY <1>3 DEF Lists
<1>5. allowed \in [Clients(d, p) -> Lists]
  BY <1>4
<1>6. Servers(d, p) \in SUBSET ServerIds
  BY DraftSections DEF Servers, Patches
<1>7. allowed # Missing /\ Servers(d, p) # Missing
  BY <1>2, <1>5, <1>6, DataAssumption
<1>8. /\ Setting(d.token, p.token) \in Tokens \cup {NoToken}
      /\ Setting(d.bound, p.bound) \in {Missing} \cup Settings
  <2>1. /\ p.token = {} \/ \E t \in Tokens \cup {NoToken} : p.token = {t}
        /\ p.bound = {} \/ \E v \in {Missing} \cup Settings : p.bound = {v}
    BY DEF Patches
  <2> QED
    BY <2>1, DraftSections, SettingTyped
<1>9. /\ Merge(d, p).allow = IF NoClients(d, p) THEN Missing ELSE allowed
      /\ Merge(d, p).servers = IF NoServers(d, p) THEN Missing ELSE Servers(d, p)
  BY DEF Merge
<1>10. Merge(d, p) \in Drafts
  BY <1>2, <1>5, <1>6, <1>8 DEF Merge, Drafts
<1> QED
  BY <1>7, <1>9, <1>10

(* What passes is a draft that the patch makes a registry.                    *)
LEMMA PassesTyped ==
  ASSUME NEW d \in Drafts, NEW p \in Patches, Passes(d, p)
  PROVE  Merge(d, p) \in Registries /\ Valid(Merge(d, p))
  BY MergeTyped, CompleteDrafts DEF Passes

(* A setting given twice is the setting given once.                           *)
LEMMA SettingTwice ==
  ASSUME NEW old, NEW given PROVE Setting(Setting(old, given), given) = Setting(old, given)
  BY DEF Setting

(* An apply whose answer was lost may be sent again: merging the same patch     *)
(* once more changes nothing, and what passed once passes again, cascade and   *)
(* nulls included, into whatever a failed write has left, too                  *)
(* (management.py:106, 123-166, config.py:214-218).                            *)
THEOREM RetriedApplyIsHarmless ==
  ASSUME NEW d \in Drafts, NEW p \in Patches
  PROVE  /\ Merge(Merge(d, p), p) = Merge(d, p)
         /\ Passes(d, p) => Passes(Merge(d, p), p)
<1> DEFINE m == Merge(d, p)
<1>1. /\ m \in Drafts
      /\ m.allow = IF NoClients(d, p) THEN Missing
                   ELSE [c \in Clients(d, p) |-> List(d, p, c) \ p.nullServers]
      /\ m.servers = IF NoServers(d, p) THEN Missing ELSE Servers(d, p)
      /\ m.token = Setting(d.token, p.token) /\ m.bound = Setting(d.bound, p.bound)
  BY MergeTyped DEF Merge
<1>2. NoClients(m, p) <=> NoClients(d, p)
  <2>1. NoClients(d, p) <=> m.allow = Missing
    BY MergeTyped
  <2> QED BY <2>1 DEF NoClients
<1>3. NoServers(m, p) <=> NoServers(d, p)
  <2>1. NoServers(d, p) <=> m.servers = Missing
    BY MergeTyped
  <2> QED BY <2>1 DEF NoServers
<1>4. ~NoClients(d, p) =>
        /\ Clients(m, p) = Clients(d, p)
        /\ \A c \in Clients(d, p) : List(m, p, c) \ p.nullServers = List(d, p, c) \ p.nullServers
  <2> SUFFICES ASSUME ~NoClients(d, p)
      PROVE  /\ Clients(m, p) = Clients(d, p)
             /\ \A c \in Clients(d, p) : List(m, p, c) \ p.nullServers = List(d, p, c) \ p.nullServers
    OBVIOUS
  <2>1. m.allow # Missing
    BY MergeTyped
  <2>2. m.allow = [c \in Clients(d, p) |-> List(d, p, c) \ p.nullServers] /\ Listed(m) = Clients(d, p)
    BY <1>1, <2>1 DEF Listed
  <2>3. Clients(m, p) = Clients(d, p)
    BY <2>2 DEF Clients
  <2> QED BY <2>2, <2>3 DEF List
<1>5. ~NoServers(d, p) => Servers(m, p) = Servers(d, p)
  <2>1. ~NoServers(d, p) => m.servers # Missing
    BY MergeTyped
  <2> QED BY <1>1, <2>1 DEF Servers, There
<1>6. /\ Setting(m.token, p.token) = Setting(d.token, p.token)
      /\ Setting(m.bound, p.bound) = Setting(d.bound, p.bound)
  BY <1>1, SettingTwice
<1>7. (IF NoClients(m, p) THEN Missing ELSE [c \in Clients(m, p) |-> List(m, p, c) \ p.nullServers])
        = IF NoClients(d, p) THEN Missing ELSE [c \in Clients(d, p) |-> List(d, p, c) \ p.nullServers]
  BY <1>2, <1>4
<1>8. (IF NoServers(m, p) THEN Missing ELSE Servers(m, p))
        = IF NoServers(d, p) THEN Missing ELSE Servers(d, p)
  BY <1>3, <1>5
<1>9. Merge(m, p) = m
  BY <1>6, <1>7, <1>8 DEF Merge
<1> QED BY <1>1, <1>9, DataAssumption DEF Passes

(* An interrupted write of a draft leaves a content, possibly all of it.       *)
LEMMA TornTyped ==
  ASSUME NEW d \in Drafts
  PROVE  Torn(d) \subseteq Contents /\ d \in Torn(d) /\ Blank \in Torn(d)
<1>0. Blank \in Drafts
  BY DEF Blank, Drafts
<1>1. InClients(d) \subseteq Drafts
  <2> SUFFICES ASSUME d.allow # Missing, NEW C \in Begun(DOMAIN d.allow)
               PROVE  [Blank EXCEPT !.allow = [c \in C |-> d.allow[c]]] \in Drafts
    BY DEF InClients
  <2>1. PICK D \in SUBSET ClientIds : d.allow \in [D -> Lists]
    BY DEF Drafts
  <2>2. C \in SUBSET ClientIds /\ [c \in C |-> d.allow[c]] \in [C -> Lists]
    BY <2>1 DEF Begun
  <2> QED BY <2>2, <1>0 DEF Blank, Drafts
<1>2. InLmcp(d) \subseteq Drafts
  <2>1. \A t \in {NoToken, d.token} : [Blank EXCEPT !.allow = d.allow, !.token = t] \in Drafts
    BY <1>0 DEF Blank, Drafts
  <2>2. \A v \in Settings : [d EXCEPT !.servers = Missing, !.bound = v] \in Drafts
    BY DEF Drafts
  <2> QED BY <2>1, <2>2 DEF InLmcp
<1>3. InServers(d) \subseteq Drafts
  <2>1. \A S \in Begun(d.servers) : d.servers # Missing => [d EXCEPT !.servers = S] \in Drafts
    BY DEF Begun, Drafts
  <2> QED BY <2>1 DEF InServers
<1>4. d \in InServers(d)
  <2>1. d.servers \in Begun(d.servers)
    BY DEF Begun
  <2>2. [d EXCEPT !.servers = d.servers] = d
    BY DEF Drafts
  <2> QED BY <2>1, <2>2 DEF InServers
<1> QED
  BY <1>0, <1>1, <1>2, <1>3, <1>4 DEF Torn, Contents

(* What is loaded from a draft is a registry, and from a registry that one.     *)
LEMMA LoadedTyped ==
  ASSUME NEW d \in Drafts
  PROVE  /\ Loaded(d) \in Registries
         /\ d.bound \in {Missing, Loaded(d).bound}
         /\ d \in Registries => Loaded(d) = d
<1>1. (IF d.allow = Missing THEN [c \in {} |-> {}] ELSE d.allow)
        \in UNION {[C -> Lists] : C \in SUBSET ClientIds}
  <2>1. [c \in {} |-> {}] \in [{} -> Lists]
    OBVIOUS
  <2> QED BY <2>1 DEF Drafts
<1>2. There(d) \in SUBSET ServerIds /\ d.token \in Tokens \cup {NoToken}
  BY DraftSections
<1>3. (IF d.bound = Missing THEN Defaults ELSE d.bound) \in Settings
  BY DataAssumption DEF Drafts
<1>4. d \in Registries => Loaded(d) = d
  BY CompleteDrafts DEF Complete, Loaded, Registries
<1> QED
  BY <1>1, <1>2, <1>3, <1>4 DEF Loaded, Registries

(* A registry with the settings of another is a registry; with its own it is     *)
(* unchanged, and what matters of the other is its settings.                  *)
LEMMA LiveTyped ==
  ASSUME NEW d \in Registries, NEW m \in Registries
  PROVE  /\ Live(d, m) \in Registries
         /\ Live(d, m).bound = m.bound
         /\ Live(d, d) = d
         /\ Live(d, Live(d, m)) = Live(d, m)
<1>1. d.bound \in Settings /\ m.bound \in Settings
  BY DEF Registries
<1> QED
  BY <1>1 DEF Live, Registries

(* A handler without a request has the place holder for a patch.             *)
LEMMA NoPatchTyped == NoPatch \in Menu
  BY StoreAssumption DEF NoPatch

-----------------------------------------------------------------------------
(* The inductive invariant: what holds of the file, its backup and the last    *)
(* good registry at each step of the thread that has the lock.                *)

(* From the check of the patch to the write or the restore.                    *)
Preparing(h) == pc[h] \in {"merged", "backing", "backed", "writing", "failed", "restoring"}

Stage(h) ==
  /\ Preparing(h) => current[h] \in Drafts /\ Passes(current[h], patch[h])
  /\ pc[h] \in {"merged", "backing", "backed"} => file = current[h]
  /\ pc[h] \in {"backed", "writing", "failed", "restoring"} => bak = current[h]
  /\ pc[h] \in {"backing", "backed", "writing", "failed", "restoring"} /\ damaged => good = Broken
  /\ pc[h] \in {"writing", "failed"} => file \in Torn(current[h]) \cup Torn(Result(h))
  /\ pc[h] = "restoring" => file = Blank
  /\ pc[h] = "written" => file = Result(h) /\ Result(h) \in Registries
  /\ pc[h] = "auditing" =>
       /\ answer[h] \in {"refused", "backup_failed", "preserved"} => file = current[h]
       /\ answer[h] \in {"applied", "applied_only"} => file = Result(h)
       /\ answer[h] = "lost" => bak = current[h]
       /\ answer[h] = "refused" => current[h] \in Drafts /\ ~Passes(current[h], patch[h])

Stages == \A h \in Handlers : Stage(h)

IInv == TypeOK /\ Stages /\ Recoverable

(* What a thread past the check of its patch would write is a registry.       *)
LEMMA ResultTyped ==
  ASSUME TypeOK, Stages, NEW h \in Handlers, Preparing(h)
  PROVE  Result(h) \in Registries
<1>1. patch[h] \in Patches
  BY StoreAssumption DEF TypeOK
<1> QED
  BY <1>1, PassesTyped DEF Result, Stages, Stage

-----------------------------------------------------------------------------
(* The invariant is kept.                                                    *)

(* Init establishes it.                                                      *)
LEMMA InitInv == Init => IInv
<1> SUFFICES ASSUME Init PROVE IInv
  OBVIOUS
<1>1. TypeOK
  <2>1. /\ pc \in [Handlers -> Steps] /\ op \in [Handlers -> {"apply", "validate"}]
        /\ patch \in [Handlers -> Menu] /\ current \in [Handlers -> Contents]
        /\ answer \in [Handlers -> Answers]
    BY NoPatchTyped, DraftsThere DEF Init, Steps, Answers
  <2>2. \A h \in Handlers : pc[h] \in Inside <=> lock = h
    BY StoreAssumption DEF Init, Inside
  <2> QED
    BY <2>1, <2>2, StoreAssumption, DraftsThere DEF Init, TypeOK
<1>2. Stages
  BY DEF Init, Stages, Stage, Preparing
<1>3. Recoverable
  BY DEF Init, Recoverable, Rewriting
<1> QED
  BY <1>1, <1>2, <1>3 DEF IInv

(* Every step keeps the types.                                               *)
LEMMA NextTyped == IInv /\ [Next]_vars => TypeOK'
<1> SUFFICES ASSUME TypeOK, Stages, [Next]_vars PROVE TypeOK'
  BY DEF IInv
<1> USE StoreAssumption
<1>0. Blank \in Contents /\ Broken \in Contents /\ Registries \subseteq Contents
  BY DraftsThere
<1>1. ASSUME NEW h \in Handlers, NEW what \in {"apply", "validate"}, NEW token \in Tokens, NEW p \in Menu, Request(h, what, token, p)
      PROVE  TypeOK'
  BY <1>0, <1>1, NoPatchTyped DEF Request, Answer, Leave, Goto, disk, asked, history, TypeOK, Steps, Answers, Inside
<1>2. ASSUME NEW h \in Handlers, Return(h)
      PROVE  TypeOK'
  BY <1>0, <1>2, NoPatchTyped DEF Return, Answer, Goto, disk, asked, history, TypeOK, Steps, Answers, Inside
<1>3. ASSUME NEW h \in Handlers, Validate(h)
      PROVE  TypeOK'
  BY <1>0, <1>3, NoPatchTyped DEF Validate, Answer, Leave, Goto, disk, asked, history, TypeOK, Steps, Answers, Inside
<1>4. ASSUME NEW h \in Handlers, Acquire(h)
      PROVE  TypeOK'
  BY <1>0, <1>4, NoPatchTyped DEF Acquire, Answer, Leave, Goto, disk, asked, history, TypeOK, Steps, Answers, Inside
<1>5. ASSUME NEW h \in Handlers, Read(h)
      PROVE  TypeOK'
  BY <1>0, <1>5, NoPatchTyped DEF Read, Take, Raise, Leave, Verdict, Answer, ReleaseLock, Readable, Goto, disk, asked, history, TypeOK, Steps, Answers, Inside
<1>6. ASSUME NEW h \in Handlers, OpenBackup(h)
      PROVE  TypeOK'
  BY <1>0, <1>6 DEF OpenBackup, Goto, disk, asked, history, TypeOK, Steps, Answers, Inside
<1>7. ASSUME NEW h \in Handlers, CopyBackup(h)
      PROVE  TypeOK'
  BY <1>0, <1>7 DEF CopyBackup, Goto, disk, asked, history, TypeOK, Steps, Answers, Inside
<1>8. ASSUME NEW h \in Handlers, BackupFails(h)
      PROVE  TypeOK'
  <2>1. pc[h] = "backing" => Torn(file) \subseteq Contents
    BY TornTyped DEF Stages, Stage, Preparing
  <2> QED BY <1>0, <1>8, <2>1 DEF BackupFails, Verdict, Answer, Goto, disk, asked, history, TypeOK, Steps, Answers, Inside
<1>9. ASSUME NEW h \in Handlers, OpenFile(h)
      PROVE  TypeOK'
  BY <1>0, <1>9 DEF OpenFile, Goto, disk, asked, history, TypeOK, Steps, Answers, Inside
<1>10. ASSUME NEW h \in Handlers, WritePart(h)
      PROVE  TypeOK'
  BY <1>0, <1>10, ResultTyped, CompleteDrafts, TornTyped DEF Preparing, WritePart, handling, Goto, disk, handling, asked, history, TypeOK, Steps, Answers, Inside
<1>11. ASSUME NEW h \in Handlers, WriteFile(h)
      PROVE  TypeOK'
  BY <1>0, <1>11, ResultTyped DEF Preparing, WriteFile, Goto, disk, asked, history, TypeOK, Steps, Answers, Inside
<1>12. ASSUME NEW h \in Handlers, WriteFails(h)
      PROVE  TypeOK'
  BY <1>0, <1>12 DEF WriteFails, Goto, disk, asked, history, TypeOK, Steps, Answers, Inside
<1>13. ASSUME NEW h \in Handlers, OpenRestore(h)
      PROVE  TypeOK'
  BY <1>0, <1>13 DEF OpenRestore, Goto, disk, asked, history, TypeOK, Steps, Answers, Inside
<1>14. ASSUME NEW h \in Handlers, Restore(h)
      PROVE  TypeOK'
  BY <1>0, <1>14 DEF Restore, Verdict, Answer, Goto, disk, asked, history, TypeOK, Steps, Answers, Inside
<1>15. ASSUME NEW h \in Handlers, RestoreFails(h)
      PROVE  TypeOK'
  <2>1. pc[h] = "restoring" => Torn(bak) \subseteq Contents
    BY TornTyped DEF Stages, Stage, Preparing
  <2> QED BY <1>0, <1>15, <2>1 DEF RestoreFails, Verdict, Answer, Goto, disk, asked, history, TypeOK, Steps, Answers, Inside
<1>16. ASSUME NEW h \in Handlers, Reload(h)
      PROVE  TypeOK'
  <2>1. file \in Registries
    BY <1>16 DEF Reload, Stages, Stage, Preparing
  <2>2. mem' \in Registries
    <3>1. Loaded(file) \in Registries /\ mem \in Registries
      BY <2>1, CompleteDrafts, LoadedTyped DEF TypeOK
    <3>2. mem' = Live(Loaded(file), mem)
      BY <1>16 DEF Reload, Live
    <3> QED
      BY <3>1, <3>2, LiveTyped
  <2> QED
    BY <1>0, <1>16, <2>2 DEF Reload, Verdict, Answer, Goto, disk, asked, history, TypeOK, Steps, Answers, Inside
<1>17. ASSUME NEW h \in Handlers, ReloadFails(h)
      PROVE  TypeOK'
  BY <1>0, <1>17 DEF ReloadFails, Verdict, Answer, Goto, disk, asked, history, TypeOK, Steps, Answers, Inside
<1>18. ASSUME NEW h \in Handlers, Conclude(h)
      PROVE  TypeOK'
  BY <1>0, <1>18, NoPatchTyped DEF Conclude, Leave, ReleaseLock, Goto, disk, asked, history, TypeOK, Steps, Answers, Inside
<1>19. ASSUME NEW h \in Handlers, AuditFails(h)
      PROVE  TypeOK'
  BY <1>0, <1>19, NoPatchTyped DEF AuditFails, Raise, Leave, Answer, ReleaseLock, Goto, disk, asked, history, TypeOK, Steps, Answers, Inside
<1>20. ASSUME Crash PROVE TypeOK'
  BY <1>0, <1>20, NoPatchTyped DEF Crash, disk, asked, history, TypeOK, Steps, Answers, Inside
<1>21. ASSUME Restart PROVE TypeOK'
  BY <1>0, <1>21, LoadedTyped DEF Contents, Restart, disk, handling, asked, history, TypeOK, Steps, Answers, Inside
<1>22. CASE UNCHANGED vars
  BY <1>0, <1>22 DEF vars, disk, handling, asked, history, TypeOK, Steps, Answers, Inside
<1> QED
  BY <1>0, <1>1, <1>2, <1>3, <1>4, <1>5, <1>6, <1>7, <1>8, <1>9, <1>10, <1>11, <1>12, <1>13, <1>14, <1>15, <1>16, <1>17, <1>18, <1>19, <1>20, <1>21, <1>22
     DEF Next, ApplyStep

(* Every step keeps the stages.                                              *)
LEMMA NextStages == IInv /\ [Next]_vars => Stages'
<1> SUFFICES ASSUME TypeOK, Stages, [Next]_vars, NEW k \in Handlers PROVE Stage(k)'
  BY DEF IInv, Stages
<1>0. /\ Stage(k) /\ \A r : Blank \in Torn(r)
      /\ \A d \in Drafts : d \in Torn(d)
      /\ Preparing(k) => Result(k) \in Registries
      /\ file # Broken => file \in Drafts
  BY TornTyped, ResultTyped DEF Stages, Torn, TypeOK, Contents
<1> USE StoreAssumption
<1>1. ASSUME NEW h \in Handlers, NEW what \in {"apply", "validate"}, NEW token \in Tokens, NEW p \in Menu, Request(h, what, token, p)
      PROVE  Stage(k)'
  BY <1>0, <1>1, NoPatchTyped DEF Request, Answer, Leave, Goto, disk, asked, history, Stage, Preparing, Result, TypeOK, Steps, Answers, Inside
<1>2. ASSUME NEW h \in Handlers, Return(h)
      PROVE  Stage(k)'
  BY <1>0, <1>2 DEF Return, Answer, Goto, disk, asked, history, Stage, Preparing, Result, TypeOK, Steps, Answers, Inside
<1>3. ASSUME NEW h \in Handlers, Validate(h)
      PROVE  Stage(k)'
  BY <1>0, <1>3, NoPatchTyped DEF Validate, Answer, Leave, Goto, disk, asked, history, Stage, Preparing, Result, TypeOK, Steps, Answers, Inside
<1>4. ASSUME NEW h \in Handlers, Acquire(h)
      PROVE  Stage(k)'
  BY <1>0, <1>4, NoPatchTyped DEF Acquire, Answer, Leave, Goto, disk, asked, history, Stage, Preparing, Result, TypeOK, Steps, Answers, Inside
<1>5. ASSUME NEW h \in Handlers, Read(h)
      PROVE  Stage(k)'
  BY <1>0, <1>5, NoPatchTyped DEF Read, Take, Raise, Leave, Verdict, Answer, ReleaseLock, Readable, Goto, disk, asked, history, Stage, Preparing, Result, TypeOK, Steps, Answers, Inside
<1>6. ASSUME NEW h \in Handlers, OpenBackup(h)
      PROVE  Stage(k)'
  BY <1>0, <1>6 DEF OpenBackup, Goto, disk, asked, history, Stage, Preparing, Result, TypeOK, Steps, Answers, Inside
<1>7. ASSUME NEW h \in Handlers, CopyBackup(h)
      PROVE  Stage(k)'
  BY <1>0, <1>7 DEF CopyBackup, Goto, disk, asked, history, Stage, Preparing, Result, TypeOK, Steps, Answers, Inside
<1>8. ASSUME NEW h \in Handlers, BackupFails(h)
      PROVE  Stage(k)'
  BY <1>0, <1>8 DEF BackupFails, Verdict, Answer, Goto, disk, asked, history, Stage, Preparing, Result, TypeOK, Steps, Answers, Inside
<1>9. ASSUME NEW h \in Handlers, OpenFile(h)
      PROVE  Stage(k)'
  BY <1>0, <1>9 DEF OpenFile, Goto, disk, asked, history, Stage, Preparing, Result, TypeOK, Steps, Answers, Inside
<1>10. ASSUME NEW h \in Handlers, WritePart(h)
      PROVE  Stage(k)'
  BY <1>0, <1>10 DEF WritePart, handling, Goto, disk, handling, asked, history, Stage, Preparing, Result, TypeOK, Steps, Answers, Inside
<1>11. ASSUME NEW h \in Handlers, WriteFile(h)
      PROVE  Stage(k)'
  BY <1>0, <1>11 DEF WriteFile, Goto, disk, asked, history, Stage, Preparing, Result, TypeOK, Steps, Answers, Inside
<1>12. ASSUME NEW h \in Handlers, WriteFails(h)
      PROVE  Stage(k)'
  BY <1>0, <1>12 DEF WriteFails, Goto, disk, asked, history, Stage, Preparing, Result, TypeOK, Steps, Answers, Inside
<1>13. ASSUME NEW h \in Handlers, OpenRestore(h)
      PROVE  Stage(k)'
  BY <1>0, <1>13 DEF OpenRestore, Goto, disk, asked, history, Stage, Preparing, Result, TypeOK, Steps, Answers, Inside
<1>14. ASSUME NEW h \in Handlers, Restore(h)
      PROVE  Stage(k)'
  BY <1>0, <1>14 DEF Restore, Verdict, Answer, Goto, disk, asked, history, Stage, Preparing, Result, TypeOK, Steps, Answers, Inside
<1>15. ASSUME NEW h \in Handlers, RestoreFails(h)
      PROVE  Stage(k)'
  BY <1>0, <1>15 DEF RestoreFails, Verdict, Answer, Goto, disk, asked, history, Stage, Preparing, Result, TypeOK, Steps, Answers, Inside
<1>16. ASSUME NEW h \in Handlers, Reload(h)
      PROVE  Stage(k)'
  BY <1>0, <1>16 DEF Reload, Verdict, Answer, Goto, disk, asked, history, Stage, Preparing, Result, TypeOK, Steps, Answers, Inside
<1>17. ASSUME NEW h \in Handlers, ReloadFails(h)
      PROVE  Stage(k)'
  BY <1>0, <1>17 DEF ReloadFails, Verdict, Answer, Goto, disk, asked, history, Stage, Preparing, Result, TypeOK, Steps, Answers, Inside
<1>18. ASSUME NEW h \in Handlers, Conclude(h)
      PROVE  Stage(k)'
  BY <1>0, <1>18, NoPatchTyped DEF Conclude, Leave, ReleaseLock, Goto, disk, asked, history, Stage, Preparing, Result, TypeOK, Steps, Answers, Inside
<1>19. ASSUME NEW h \in Handlers, AuditFails(h)
      PROVE  Stage(k)'
  BY <1>0, <1>19, NoPatchTyped DEF AuditFails, Raise, Leave, Answer, ReleaseLock, Goto, disk, asked, history, Stage, Preparing, Result, TypeOK, Steps, Answers, Inside
<1>20. ASSUME Crash PROVE Stage(k)'
  BY <1>0, <1>20 DEF Crash, disk, asked, history, Stage, Preparing, Result, TypeOK, Steps, Answers, Inside
<1>21. ASSUME Restart PROVE Stage(k)'
  BY <1>0, <1>21 DEF Restart, disk, handling, asked, history, Stage, Preparing, Result, TypeOK, Steps, Answers, Inside
<1>22. CASE UNCHANGED vars
  BY <1>0, <1>22 DEF vars, disk, handling, asked, history, Stage, Preparing, Result, TypeOK, Steps, Answers, Inside
<1> QED
  BY <1>0, <1>1, <1>2, <1>3, <1>4, <1>5, <1>6, <1>7, <1>8, <1>9, <1>10, <1>11, <1>12, <1>13, <1>14, <1>15, <1>16, <1>17, <1>18, <1>19, <1>20, <1>21, <1>22
     DEF Next, ApplyStep

(* Every step keeps a good copy on disk.                                      *)
LEMMA NextRecoverable == IInv /\ [Next]_vars => Recoverable'
<1> SUFFICES ASSUME TypeOK, Stages, Recoverable, [Next]_vars PROVE Recoverable'
  BY DEF IInv
<1>1. ASSUME NEW h \in Handlers, NEW what \in {"apply", "validate"}, NEW token \in Tokens, NEW p \in Menu, Request(h, what, token, p)
      PROVE  Recoverable'
  BY <1>1 DEF Request, Answer, Leave, Goto, disk, asked, history, Recoverable, Rewriting, Stages, Stage, TypeOK, Inside, Steps
<1>2. ASSUME NEW h \in Handlers, Return(h)
      PROVE  Recoverable'
  BY <1>2 DEF Return, Answer, Goto, disk, asked, history, Recoverable, Rewriting, Stages, Stage, TypeOK, Inside, Steps
<1>3. ASSUME NEW h \in Handlers, Validate(h)
      PROVE  Recoverable'
  BY <1>3 DEF Validate, Answer, Leave, Goto, disk, asked, history, Recoverable, Rewriting, Stages, Stage, TypeOK, Inside, Steps
<1>4. ASSUME NEW h \in Handlers, Acquire(h)
      PROVE  Recoverable'
  BY <1>4 DEF Acquire, Answer, Leave, Goto, disk, asked, history, Recoverable, Rewriting, Stages, Stage, TypeOK, Inside, Steps
<1>5. ASSUME NEW h \in Handlers, Read(h)
      PROVE  Recoverable'
  BY <1>5 DEF Read, Take, Raise, Leave, Verdict, Answer, ReleaseLock, Readable, Goto, disk, asked, history, Recoverable, Rewriting, Stages, Stage, TypeOK, Inside, Steps
<1>6. ASSUME NEW h \in Handlers, OpenBackup(h)
      PROVE  Recoverable'
  BY <1>6 DEF OpenBackup, Goto, disk, asked, history, Recoverable, Rewriting, Stages, Stage, TypeOK, Inside, Steps
<1>7. ASSUME NEW h \in Handlers, CopyBackup(h)
      PROVE  Recoverable'
  BY <1>7 DEF CopyBackup, Goto, disk, asked, history, Recoverable, Rewriting, Stages, Stage, TypeOK, Inside, Steps
<1>8. ASSUME NEW h \in Handlers, BackupFails(h)
      PROVE  Recoverable'
  BY <1>8 DEF BackupFails, Verdict, Answer, Goto, disk, asked, history, Recoverable, Rewriting, Stages, Stage, TypeOK, Inside, Steps
<1>9. ASSUME NEW h \in Handlers, OpenFile(h)
      PROVE  Recoverable'
  BY <1>9 DEF OpenFile, Goto, disk, asked, history, Recoverable, Rewriting, Stages, Stage, TypeOK, Inside, Steps
<1>10. ASSUME NEW h \in Handlers, WritePart(h)
      PROVE  Recoverable'
  BY <1>10 DEF WritePart, handling, Goto, disk, handling, asked, history, Recoverable, Rewriting, Stages, Stage, TypeOK, Inside, Steps
<1>11. ASSUME NEW h \in Handlers, WriteFile(h)
      PROVE  Recoverable'
  BY <1>11 DEF WriteFile, Goto, disk, asked, history, Recoverable, Rewriting, Stages, Stage, TypeOK, Inside, Steps
<1>12. ASSUME NEW h \in Handlers, WriteFails(h)
      PROVE  Recoverable'
  BY <1>12 DEF WriteFails, Goto, disk, asked, history, Recoverable, Rewriting, Stages, Stage, TypeOK, Inside, Steps
<1>13. ASSUME NEW h \in Handlers, OpenRestore(h)
      PROVE  Recoverable'
  BY <1>13 DEF OpenRestore, Goto, disk, asked, history, Recoverable, Rewriting, Stages, Stage, TypeOK, Inside, Steps
<1>14. ASSUME NEW h \in Handlers, Restore(h)
      PROVE  Recoverable'
  BY <1>14 DEF Restore, Verdict, Answer, Goto, disk, asked, history, Recoverable, Rewriting, Stages, Stage, TypeOK, Inside, Steps
<1>15. ASSUME NEW h \in Handlers, RestoreFails(h)
      PROVE  Recoverable'
  BY <1>15 DEF RestoreFails, Verdict, Answer, Goto, disk, asked, history, Recoverable, Rewriting, Stages, Stage, TypeOK, Inside, Steps
<1>16. ASSUME NEW h \in Handlers, Reload(h)
      PROVE  Recoverable'
  BY <1>16 DEF Reload, Verdict, Answer, Goto, disk, asked, history, Recoverable, Rewriting, Stages, Stage, TypeOK, Inside, Steps
<1>17. ASSUME NEW h \in Handlers, ReloadFails(h)
      PROVE  Recoverable'
  BY <1>17 DEF ReloadFails, Verdict, Answer, Goto, disk, asked, history, Recoverable, Rewriting, Stages, Stage, TypeOK, Inside, Steps
<1>18. ASSUME NEW h \in Handlers, Conclude(h)
      PROVE  Recoverable'
  BY <1>18 DEF Conclude, Leave, ReleaseLock, Goto, disk, asked, history, Recoverable, Rewriting, Stages, Stage, TypeOK, Inside, Steps
<1>19. ASSUME NEW h \in Handlers, AuditFails(h)
      PROVE  Recoverable'
  BY <1>19 DEF AuditFails, Raise, Leave, Answer, ReleaseLock, Goto, disk, asked, history, Recoverable, Rewriting, Stages, Stage, TypeOK, Inside, Steps
<1>20. ASSUME Crash PROVE Recoverable'
  BY <1>20 DEF Crash, disk, asked, history, Recoverable, Rewriting, Stages, Stage, TypeOK, Inside, Steps
<1>21. ASSUME Restart PROVE Recoverable'
  BY <1>21 DEF Restart, disk, handling, asked, history, Recoverable, Rewriting, Stages, Stage, TypeOK, Inside, Steps
<1>22. CASE UNCHANGED vars
  BY <1>22 DEF vars, disk, handling, asked, history, Recoverable, Rewriting, Stages, Stage, TypeOK, Inside, Steps
<1> QED
  BY <1>1, <1>2, <1>3, <1>4, <1>5, <1>6, <1>7, <1>8, <1>9, <1>10, <1>11, <1>12, <1>13, <1>14, <1>15, <1>16, <1>17, <1>18, <1>19, <1>20, <1>21, <1>22
     DEF Next, ApplyStep

(* The inductive invariant holds always.                                      *)
LEMMA Invariant == Spec => []IInv
<1>1. IInv /\ [Next]_vars => IInv'
  BY NextTyped, NextStages, NextRecoverable DEF IInv
<1> QED
  BY InitInv, <1>1, PTL DEF Spec

(* Every variable keeps its type and the lock is held by the one thread that   *)
(* is inside apply_patch.                                                    *)
THEOREM Typing == Spec => []TypeOK
  BY Invariant, PTL DEF IInv

(* The registry last written or started from survives every failure and crash *)
(* in the file or, once rewriting it has failed, in the backup, until an apply *)
(* copies over it what is left in the file.                                   *)
THEOREM GoodCopyKept == Spec => []Recoverable
  BY Invariant, PTL DEF IInv

(* What an apply tells its caller is true of the file.                        *)
THEOREM AnswersAreTrue == Spec => []AnswerMatchesDisk
<1>1. IInv => AnswerMatchesDisk
  BY DEF IInv, Stages, Stage, Preparing, AnswerMatchesDisk
<1> QED
  BY <1>1, Invariant, PTL

-----------------------------------------------------------------------------
(* MemoryFollowsFile.                                                        *)

(* Unless a reload or a restore has failed, memory is what the file holds, or  *)
(* held before the apply under way opened it; only between the write and the   *)
(* reload is it neither. A daemon that is down has no threads.                *)
InForce ==
  /\ ~up => \A h \in Handlers : pc[h] = "idle"
  /\ (up /\ ~apart) =>
       \/ \E h \in Handlers : pc[h] = "written"
       \/ (\E h \in Handlers : Rewriting(h)) /\ mem = Live(Loaded(bak), mem)
       \/ (\A h \in Handlers : ~Rewriting(h)) /\ mem = Live(Loaded(file), mem)

(* Every step keeps memory and file together.                                 *)
LEMMA NextInForce == IInv /\ InForce /\ [Next]_vars => InForce'
<1> SUFFICES ASSUME TypeOK, Stages, InForce, [Next]_vars PROVE InForce'
  BY DEF IInv
<1> USE StoreAssumption
<1>1. ASSUME NEW h \in Handlers, NEW what \in {"apply", "validate"}, NEW token \in Tokens, NEW p \in Menu, Request(h, what, token, p)
      PROVE  InForce'
  BY <1>1 DEF Request, Answer, Leave, Goto, disk, asked, history, InForce, Rewriting, Stages, Stage, Preparing, TypeOK, Inside, Steps
<1>2. ASSUME NEW h \in Handlers, Return(h)
      PROVE  InForce'
  BY <1>2 DEF Return, Answer, Goto, disk, asked, history, InForce, Rewriting, Stages, Stage, Preparing, TypeOK, Inside, Steps
<1>3. ASSUME NEW h \in Handlers, Validate(h)
      PROVE  InForce'
  BY <1>3 DEF Validate, Answer, Leave, Goto, disk, asked, history, InForce, Rewriting, Stages, Stage, Preparing, TypeOK, Inside, Steps
<1>4. ASSUME NEW h \in Handlers, Acquire(h)
      PROVE  InForce'
  BY <1>4 DEF Acquire, Answer, Leave, Goto, disk, asked, history, InForce, Rewriting, Stages, Stage, Preparing, TypeOK, Inside, Steps
<1>5. ASSUME NEW h \in Handlers, Read(h)
      PROVE  InForce'
  BY <1>5 DEF Read, Take, Raise, Leave, Verdict, Answer, ReleaseLock, Readable, Goto, disk, asked, history, InForce, Rewriting, Stages, Stage, Preparing, TypeOK, Inside, Steps
<1>6. ASSUME NEW h \in Handlers, OpenBackup(h)
      PROVE  InForce'
  BY <1>6 DEF OpenBackup, Goto, disk, asked, history, InForce, Rewriting, Stages, Stage, Preparing, TypeOK, Inside, Steps
<1>7. ASSUME NEW h \in Handlers, CopyBackup(h)
      PROVE  InForce'
  BY <1>7 DEF CopyBackup, Goto, disk, asked, history, InForce, Rewriting, Stages, Stage, Preparing, TypeOK, Inside, Steps
<1>8. ASSUME NEW h \in Handlers, BackupFails(h)
      PROVE  InForce'
  BY <1>8 DEF BackupFails, Verdict, Answer, Goto, disk, asked, history, InForce, Rewriting, Stages, Stage, Preparing, TypeOK, Inside, Steps
<1>9. ASSUME NEW h \in Handlers, OpenFile(h)
      PROVE  InForce'
  BY <1>9 DEF OpenFile, Goto, disk, asked, history, InForce, Rewriting, Stages, Stage, Preparing, TypeOK, Inside, Steps
<1>10. ASSUME NEW h \in Handlers, WritePart(h)
      PROVE  InForce'
  BY <1>10 DEF WritePart, handling, Goto, disk, handling, asked, history, InForce, Rewriting, Stages, Stage, Preparing, TypeOK, Inside, Steps
<1>11. ASSUME NEW h \in Handlers, WriteFile(h)
      PROVE  InForce'
  BY <1>11 DEF WriteFile, Goto, disk, asked, history, InForce, Rewriting, Stages, Stage, Preparing, TypeOK, Inside, Steps
<1>12. ASSUME NEW h \in Handlers, WriteFails(h)
      PROVE  InForce'
  BY <1>12 DEF WriteFails, Goto, disk, asked, history, InForce, Rewriting, Stages, Stage, Preparing, TypeOK, Inside, Steps
<1>13. ASSUME NEW h \in Handlers, OpenRestore(h)
      PROVE  InForce'
  BY <1>13 DEF OpenRestore, Goto, disk, asked, history, InForce, Rewriting, Stages, Stage, Preparing, TypeOK, Inside, Steps
<1>14. ASSUME NEW h \in Handlers, Restore(h)
      PROVE  InForce'
  BY <1>14 DEF Restore, Verdict, Answer, Goto, disk, asked, history, InForce, Rewriting, Stages, Stage, Preparing, TypeOK, Inside, Steps
<1>15. ASSUME NEW h \in Handlers, RestoreFails(h)
      PROVE  InForce'
  BY <1>15 DEF RestoreFails, Verdict, Answer, Goto, disk, asked, history, InForce, Rewriting, Stages, Stage, Preparing, TypeOK, Inside, Steps
<1>16. ASSUME NEW h \in Handlers, Reload(h)
      PROVE  InForce'
  <2>1. file \in Registries /\ mem \in Registries
    BY <1>16 DEF Reload, Stages, Stage, Preparing, TypeOK
  <2>2. Loaded(file) \in Registries /\ mem' = Live(Loaded(file), mem)
    BY <1>16, <2>1, CompleteDrafts, LoadedTyped DEF Reload, Live
  <2>3. mem' = Live(Loaded(file'), mem')
    BY <1>16, <2>1, <2>2, LiveTyped DEF Reload, disk
  <2>4. \A k \in Handlers : pc'[k] # "written" /\ ~Rewriting(k)'
    BY <1>16 DEF Reload, Verdict, Goto, Rewriting, TypeOK, Inside, Steps
  <2> QED
    BY <1>16, <2>3, <2>4 DEF Reload, InForce, TypeOK
<1>17. ASSUME NEW h \in Handlers, ReloadFails(h)
      PROVE  InForce'
  BY <1>17 DEF ReloadFails, Verdict, Answer, Goto, disk, asked, history, InForce, Rewriting, Stages, Stage, Preparing, TypeOK, Inside, Steps
<1>18. ASSUME NEW h \in Handlers, Conclude(h)
      PROVE  InForce'
  BY <1>18 DEF Conclude, Leave, ReleaseLock, Goto, disk, asked, history, InForce, Rewriting, Stages, Stage, Preparing, TypeOK, Inside, Steps
<1>19. ASSUME NEW h \in Handlers, AuditFails(h)
      PROVE  InForce'
  BY <1>19 DEF AuditFails, Raise, Leave, Answer, ReleaseLock, Goto, disk, asked, history, InForce, Rewriting, Stages, Stage, Preparing, TypeOK, Inside, Steps
<1>20. ASSUME Crash PROVE InForce'
  BY <1>20 DEF Crash, disk, asked, history, InForce, Rewriting, Stages, Stage, Preparing, TypeOK, Inside, Steps
<1>21. ASSUME Restart PROVE InForce'
  BY <1>21, LoadedTyped, LiveTyped DEF Contents, Restart, disk, handling, asked, history, InForce, Rewriting, Stages, Stage, Preparing, TypeOK, Inside, Steps
<1>22. CASE UNCHANGED vars
  BY <1>22 DEF vars, disk, handling, asked, history, InForce, Rewriting, Stages, Stage, Preparing, TypeOK, Inside, Steps
<1> QED
  BY <1>1, <1>2, <1>3, <1>4, <1>5, <1>6, <1>7, <1>8, <1>9, <1>10, <1>11, <1>12, <1>13, <1>14, <1>15, <1>16, <1>17, <1>18, <1>19, <1>20, <1>21, <1>22
     DEF Next, ApplyStep

(* Between applies the daemon serves what is on disk, unless a reload or a     *)
(* restore failed.                                                           *)
THEOREM MemoryIsFile == Spec => []MemoryFollowsFile
<1>1. Init => InForce
  BY StoreAssumption, CompleteDrafts, LoadedTyped, LiveTyped DEF Init, InForce, Rewriting
<1>2. TypeOK /\ InForce => MemoryFollowsFile
  BY StoreAssumption DEF TypeOK, InForce, Rewriting, Inside, Steps, MemoryFollowsFile
<1> QED
  BY <1>1, <1>2, Invariant, Typing, NextInForce, PTL DEF Spec

-----------------------------------------------------------------------------
(* RefusedForCause.                                                          *)

(* A patch that passes its own checks breaks the rule about unknown servers    *)
(* only with a list of its own.                                              *)
LEMMA InvalidByOwnList ==
  ASSUME NEW d \in Registries, NEW p \in Patches, p.kind = "sound", Valid(d), ~Passes(d, p)
  PROVE  \E c \in DOMAIN p.clients : ~(p.clients[c] \subseteq d.servers \cup p.put)
<1>0. /\ d \in Drafts /\ Listed(d) = DOMAIN d.allow /\ There(d) = d.servers
      /\ d.allow # Missing /\ d.servers # Missing /\ d.bound # Missing
  BY CompleteDrafts DEF Complete
<1>1. ~NoClients(d, p) /\ ~NoServers(d, p) /\ Complete(Merge(d, p))
  <2>1. ~NoClients(d, p) /\ ~NoServers(d, p)
    BY <1>0 DEF NoClients, NoServers
  <2>2. Setting(d.bound, p.bound) # Missing
    BY <1>0, DataAssumption DEF Setting, Patches
  <2> QED BY <2>1, <2>2, <1>0, MergeTyped DEF Complete, Merge
<1>2. /\ Merge(d, p).allow = [c \in Clients(d, p) |-> List(d, p, c) \ p.nullServers]
      /\ Merge(d, p).servers = Servers(d, p)
  BY <1>1 DEF Merge
<1>3. PICK c \in Clients(d, p) : ~(List(d, p, c) \ p.nullServers \subseteq Servers(d, p))
  BY <1>0, <1>1, <1>2, DataAssumption DEF Passes, Valid
<1>4. ~(List(d, p, c) \subseteq d.servers \cup p.put)
  BY <1>0, <1>3 DEF Servers
<1>5. CASE c \in DOMAIN p.clients
  BY <1>4, <1>5 DEF List
<1>6. CASE c \notin DOMAIN p.clients
  <2>1. c \in DOMAIN d.allow /\ List(d, p, c) = d.allow[c]
    BY <1>0, <1>3, <1>6 DEF Clients, List
  <2> QED
    BY <1>4, <2>1 DEF Valid
<1> QED
  BY <1>5, <1>6

(* A sound patch is refused for a list of its own, never for what it removes.  *)
THEOREM RefusalsHaveCause == Spec => []RefusedForCause
<1>1. IInv => RefusedForCause
  <2> SUFFICES ASSUME IInv, NEW h \in Handlers, pc[h] = "auditing", answer[h] = "refused",
                      patch[h].kind = "sound", Complete(current[h]), Valid(current[h])
               PROVE  \E c \in DOMAIN patch[h].clients :
                        ~(patch[h].clients[c] \subseteq current[h].servers \cup patch[h].put)
    BY DEF RefusedForCause
  <2>1. patch[h] \in Patches
    BY StoreAssumption DEF IInv, TypeOK
  <2>2. current[h] \in Registries /\ ~Passes(current[h], patch[h])
    BY CompleteDrafts DEF IInv, Stages, Stage, Preparing
  <2> QED
    BY <2>1, <2>2, InvalidByOwnList
<1> QED
  BY <1>1, Invariant, PTL

-----------------------------------------------------------------------------
(* RestartAnnounced.                                                         *)

(* While nothing has been announced nor lost, what an apply merges into has    *)
(* the settings the daemon runs with, if any, and so has the file unless an    *)
(* apply has begun to write it and has yet to answer.                          *)
Pending(h) ==
  \/ pc[h] \in {"writing", "failed", "restoring", "written"}
  \/ pc[h] = "auditing" /\ Written(h)

Running(d) == d.bound \in {Missing, mem.bound}

Unannounced ==
  /\ ~up => \A h \in Handlers : pc[h] = "idle"
  /\ (up /\ ~notice) =>
       /\ \A h \in Handlers : Preparing(h) \/ Pending(h) => Running(current[h])
       /\ (\A h \in Handlers : ~Pending(h)) => (file # Broken => Running(file))

(* Every step that leaves other settings in the file says so.                 *)
LEMMA NextUnannounced == IInv /\ IInv' /\ Unannounced /\ [Next]_vars => Unannounced'
<1> SUFFICES ASSUME TypeOK, Stages, TypeOK', Unannounced, [Next]_vars PROVE Unannounced'
  BY DEF IInv
<1> USE StoreAssumption
<1>1. ASSUME NEW h \in Handlers, NEW what \in {"apply", "validate"}, NEW token \in Tokens, NEW p \in Menu, Request(h, what, token, p)
      PROVE  Unannounced'
  BY <1>1 DEF Request, Answer, Leave, Goto, disk, asked, history, Unannounced, Running, Pending, Preparing, Written, Stages, Stage, TypeOK, Inside, Steps
<1>2. ASSUME NEW h \in Handlers, Return(h)
      PROVE  Unannounced'
  BY <1>2 DEF Return, Answer, Goto, disk, asked, history, Unannounced, Running, Pending, Preparing, Written, Stages, Stage, TypeOK, Inside, Steps
<1>3. ASSUME NEW h \in Handlers, Validate(h)
      PROVE  Unannounced'
  BY <1>3 DEF Validate, Answer, Leave, Goto, disk, asked, history, Unannounced, Running, Pending, Preparing, Written, Stages, Stage, TypeOK, Inside, Steps
<1>4. ASSUME NEW h \in Handlers, Acquire(h)
      PROVE  Unannounced'
  BY <1>4 DEF Acquire, Answer, Leave, Goto, disk, asked, history, Unannounced, Running, Pending, Preparing, Written, Stages, Stage, TypeOK, Inside, Steps
<1>5. ASSUME NEW h \in Handlers, Read(h)
      PROVE  Unannounced'
  BY <1>5 DEF Read, Take, Raise, Leave, Verdict, Answer, ReleaseLock, Readable, Goto, Passes, disk, asked, history, Unannounced, Running, Pending, Preparing, Written, Stages, Stage, TypeOK, Inside, Steps
<1>6. ASSUME NEW h \in Handlers, OpenBackup(h)
      PROVE  Unannounced'
  BY <1>6 DEF OpenBackup, Goto, disk, asked, history, Unannounced, Running, Pending, Preparing, Written, Stages, Stage, TypeOK, Inside, Steps
<1>7. ASSUME NEW h \in Handlers, CopyBackup(h)
      PROVE  Unannounced'
  BY <1>7 DEF CopyBackup, Goto, disk, asked, history, Unannounced, Running, Pending, Preparing, Written, Stages, Stage, TypeOK, Inside, Steps
<1>8. ASSUME NEW h \in Handlers, BackupFails(h)
      PROVE  Unannounced'
  BY <1>8 DEF BackupFails, Verdict, Answer, Goto, disk, asked, history, Unannounced, Running, Pending, Preparing, Written, Stages, Stage, TypeOK, Inside, Steps
<1>9. ASSUME NEW h \in Handlers, OpenFile(h)
      PROVE  Unannounced'
  BY <1>9 DEF OpenFile, Goto, disk, asked, history, Unannounced, Running, Pending, Preparing, Written, Stages, Stage, TypeOK, Inside, Steps
<1>10. ASSUME NEW h \in Handlers, WritePart(h)
      PROVE  Unannounced'
  BY <1>10 DEF WritePart, Goto, handling, disk, asked, history, Unannounced, Running, Pending, Preparing, Written, Stages, Stage, TypeOK, Inside, Steps
<1>11. ASSUME NEW h \in Handlers, WriteFile(h)
      PROVE  Unannounced'
  BY <1>11 DEF WriteFile, Goto, Result, disk, asked, history, Unannounced, Running, Pending, Preparing, Written, Stages, Stage, TypeOK, Inside, Steps
<1>12. ASSUME NEW h \in Handlers, WriteFails(h)
      PROVE  Unannounced'
  BY <1>12 DEF WriteFails, Goto, disk, asked, history, Unannounced, Running, Pending, Preparing, Written, Stages, Stage, TypeOK, Inside, Steps
<1>13. ASSUME NEW h \in Handlers, OpenRestore(h)
      PROVE  Unannounced'
  BY <1>13 DEF OpenRestore, Goto, disk, asked, history, Unannounced, Running, Pending, Preparing, Written, Stages, Stage, TypeOK, Inside, Steps
<1>14. ASSUME NEW h \in Handlers, Restore(h)
      PROVE  Unannounced'
  BY <1>14 DEF Restore, Verdict, Answer, Goto, disk, asked, history, Unannounced, Running, Pending, Preparing, Written, Stages, Stage, TypeOK, Inside, Steps
<1>15. ASSUME NEW h \in Handlers, RestoreFails(h)
      PROVE  Unannounced'
  <2>0. ~up' => \A k \in Handlers : pc'[k] = "idle"
    BY <1>15 DEF RestoreFails, Unannounced
  <2> SUFFICES ASSUME ~notice', up' PROVE Unannounced'
    BY <2>0 DEF Unannounced
  <2>1. ~SettingsLeft(h) /\ ~notice /\ up
    BY <1>15 DEF RestoreFails, TypeOK
  <2>2. Running(current[h])
    BY <1>15, <2>1 DEF RestoreFails, Unannounced, Preparing
  <2>3. file' # Broken => Running(file)'
    BY <1>15, <2>1, <2>2 DEF RestoreFails, SettingsLeft, Running
  <2>4. \A k \in Handlers : ~Preparing(k)' /\ ~Pending(k)'
    BY <1>15 DEF RestoreFails, Verdict, Answer, Goto, Preparing, Pending, Written, TypeOK, Inside, Steps
  <2> QED
    BY <1>15, <2>3, <2>4 DEF RestoreFails, Unannounced
<1>16. ASSUME NEW h \in Handlers, Reload(h)
      PROVE  Unannounced'
  BY <1>16 DEF Reload, Verdict, Answer, Goto, Result, disk, asked, history, Unannounced, Running, Pending, Preparing, Written, Stages, Stage, TypeOK, Inside, Steps
<1>17. ASSUME NEW h \in Handlers, ReloadFails(h)
      PROVE  Unannounced'
  BY <1>17 DEF ReloadFails, Verdict, Answer, Goto, Result, disk, asked, history, Unannounced, Running, Pending, Preparing, Written, Stages, Stage, TypeOK, Inside, Steps
<1>18. ASSUME NEW h \in Handlers, Conclude(h)
      PROVE  Unannounced'
  BY <1>18 DEF Conclude, Leave, ReleaseLock, Goto, Result, RestartRequired, disk, asked, history, Unannounced, Running, Pending, Preparing, Written, Stages, Stage, TypeOK, Inside, Steps
<1>19. ASSUME NEW h \in Handlers, AuditFails(h)
      PROVE  Unannounced'
  BY <1>19 DEF AuditFails, Raise, Leave, Answer, ReleaseLock, Goto, Result, RestartRequired, disk, asked, history, Unannounced, Running, Pending, Preparing, Written, Stages, Stage, TypeOK, Inside, Steps
<1>20. ASSUME Crash PROVE Unannounced'
  BY <1>20 DEF Crash, Unannounced, TypeOK
<1>21. ASSUME Restart PROVE Unannounced'
  <2>1. file.bound \in {Missing, mem'.bound}
    BY <1>21, LoadedTyped DEF Restart, TypeOK, Contents
  <2> QED
    BY <1>21, <2>1 DEF Restart, handling, disk, asked, history, Unannounced, Running, Pending, Preparing, Written, Stages, Stage, TypeOK, Inside, Steps
<1>22. CASE UNCHANGED vars
  BY <1>22 DEF vars, handling, Result, disk, asked, history, Unannounced, Running, Pending, Preparing, Written, Stages, Stage, TypeOK, Inside, Steps
<1> QED
  BY <1>1, <1>2, <1>3, <1>4, <1>5, <1>6, <1>7, <1>8, <1>9, <1>10, <1>11, <1>12, <1>13, <1>14, <1>15, <1>16, <1>17, <1>18, <1>19, <1>20, <1>21, <1>22
     DEF Next, ApplyStep

(* Whenever the file's settings are not the running ones, an apply has          *)
(* announced it or has lost its answer.                                       *)
THEOREM RestartsAreAnnounced == Spec => []RestartAnnounced
<1>1. Init => Unannounced
  BY DEF Init, Unannounced, Running, Preparing, Pending
<1>2. TypeOK /\ Unannounced => RestartAnnounced
  BY StoreAssumption DEF TypeOK, Unannounced, Running, Pending, Inside, Steps, RestartAnnounced
<1> QED
  BY <1>1, <1>2, Invariant, Typing, NextUnannounced, PTL DEF Spec

-----------------------------------------------------------------------------
(* The store implements AtomicRegistry.                                      *)

(* The abstract specification's operators are those of RegistryData.          *)
LEMMA SameData ==
  /\ Abstract!Registries = Registries
  /\ \A d : Abstract!Valid(d) <=> Valid(d)
  /\ \A d, p : Abstract!Merge(d, p) = Merge(d, p)
  /\ \A d, p : Abstract!Passes(d, p) <=> Passes(d, p)
  /\ \A d : Abstract!Torn(d) = Torn(d)
<1>1. /\ Abstract!Registries = Registries /\ Abstract!Blank = Blank
      /\ \A d : Abstract!Valid(d) <=> Valid(d)
      /\ \A d : Abstract!Complete(d) <=> Complete(d)
  BY DEF Abstract!Registries, Registries, Abstract!Lists, Lists, Abstract!Blank, Blank,
         Abstract!Valid, Valid, Abstract!Complete, Complete
<1>2. \A d, p : Abstract!Merge(d, p) = Merge(d, p)
  BY DEF Abstract!Merge, Merge, Abstract!Clients, Clients, Abstract!List, List,
         Abstract!Servers, Servers, Abstract!Setting, Setting, Abstract!Listed, Listed,
         Abstract!There, There, Abstract!NoClients, NoClients, Abstract!NoServers, NoServers
<1>3. \A d : /\ Abstract!InClients(d) = InClients(d) /\ Abstract!InLmcp(d) = InLmcp(d)
             /\ Abstract!InServers(d) = InServers(d)
  BY <1>1 DEF Abstract!InClients, InClients, Abstract!InLmcp, InLmcp,
              Abstract!InServers, InServers, Abstract!Begun, Begun
<1> QED
  BY <1>1, <1>2, <1>3 DEF Abstract!Passes, Passes, Abstract!Torn, Torn

Atomically == Abstract!AtomicNext \/ DiskSeen' = DiskSeen

(* While the thread with the lock rewrites the file, DiskSeen is what it read.  *)
LEMMA SeenWhileRewriting ==
  ASSUME Stages, NEW h \in Handlers, Rewriting(h)
  PROVE  DiskSeen = current[h] /\ bak = current[h] /\ Passes(current[h], patch[h])
  BY DEF DiskSeen, Stages, Stage, Preparing, Rewriting

(* Otherwise it is the file.                                                  *)
LEMMA SeenOtherwise ==
  ASSUME \A h \in Handlers : ~Rewriting(h) PROVE DiskSeen = file
  BY DEF DiskSeen

(* A thread that is inside and not rewriting leaves nobody rewriting.         *)
LEMMA OneInside ==
  ASSUME TypeOK, NEW h \in Handlers, pc[h] \in Inside
  PROVE  \A k \in Handlers : k # h => ~Rewriting(k)
  BY DEF TypeOK, Inside, Steps, Rewriting

(* Every step applies one patch, damages the file, or changes nothing.        *)
LEMMA NextAtomic == IInv /\ IInv' /\ [Next]_vars => Atomically
<1> SUFFICES ASSUME TypeOK, Stages, TypeOK', Stages', [Next]_vars PROVE Atomically
  BY DEF IInv
<1> USE StoreAssumption
<1>1. ASSUME NEW h \in Handlers, NEW what \in {"apply", "validate"}, NEW token \in Tokens, NEW p \in Menu, Request(h, what, token, p)
      PROVE  Atomically
  BY <1>1 DEF Request, Answer, Leave, Goto, disk, asked, history, Atomically, DiskSeen, Rewriting, TypeOK, Inside, Steps, Stages, Stage, Preparing
<1>2. ASSUME NEW h \in Handlers, Return(h)
      PROVE  Atomically
  BY <1>2 DEF Return, Answer, Goto, disk, asked, history, Atomically, DiskSeen, Rewriting, TypeOK, Inside, Steps, Stages, Stage, Preparing
<1>3. ASSUME NEW h \in Handlers, Validate(h)
      PROVE  Atomically
  BY <1>3 DEF Validate, Answer, Leave, Goto, disk, asked, history, Atomically, DiskSeen, Rewriting, TypeOK, Inside, Steps, Stages, Stage, Preparing
<1>4. ASSUME NEW h \in Handlers, Acquire(h)
      PROVE  Atomically
  BY <1>4 DEF Acquire, Answer, Leave, Goto, disk, asked, history, Atomically, DiskSeen, Rewriting, TypeOK, Inside, Steps, Stages, Stage, Preparing
<1>5. ASSUME NEW h \in Handlers, Read(h)
      PROVE  Atomically
  BY <1>5 DEF Read, Take, Raise, Leave, Verdict, Answer, ReleaseLock, Readable, Goto, disk, asked, history, Atomically, DiskSeen, Rewriting, TypeOK, Inside, Steps, Stages, Stage, Preparing
<1>6. ASSUME NEW h \in Handlers, OpenBackup(h)
      PROVE  Atomically
  BY <1>6 DEF OpenBackup, Goto, disk, asked, history, Atomically, DiskSeen, Rewriting, TypeOK, Inside, Steps, Stages, Stage, Preparing
<1>7. ASSUME NEW h \in Handlers, CopyBackup(h)
      PROVE  Atomically
  BY <1>7 DEF CopyBackup, Goto, disk, asked, history, Atomically, DiskSeen, Rewriting, TypeOK, Inside, Steps, Stages, Stage, Preparing
<1>8. ASSUME NEW h \in Handlers, BackupFails(h)
      PROVE  Atomically
  BY <1>8 DEF BackupFails, Verdict, Answer, Goto, disk, asked, history, Atomically, DiskSeen, Rewriting, TypeOK, Inside, Steps, Stages, Stage, Preparing
<1>9. ASSUME NEW h \in Handlers, OpenFile(h)
      PROVE  Atomically
  BY <1>9 DEF OpenFile, Goto, disk, asked, history, Atomically, DiskSeen, Rewriting, TypeOK, Inside, Steps, Stages, Stage, Preparing
<1>10. ASSUME NEW h \in Handlers, WritePart(h)
      PROVE  Atomically
  BY <1>10 DEF WritePart, handling, Goto, disk, handling, asked, history, Atomically, DiskSeen, Rewriting, TypeOK, Inside, Steps, Stages, Stage, Preparing
<1>11. ASSUME NEW h \in Handlers, WriteFile(h)
      PROVE  Atomically
  <2>1. DiskSeen = current[h] /\ patch[h] \in Menu /\ Passes(current[h], patch[h])
    BY <1>11, SeenWhileRewriting DEF WriteFile, Rewriting, Stages, Stage, Preparing, TypeOK
  <2>2. \A k \in Handlers : pc'[k] \notin {"writing", "failed", "restoring"}
    BY <1>11 DEF WriteFile, Goto, TypeOK, Inside, Steps
  <2>3. DiskSeen' = Merge(current[h], patch[h])
    BY <1>11, <2>1, <2>2 DEF WriteFile, Result, DiskSeen, Rewriting
  <2>4. Abstract!Applied(patch[h])
    BY <2>1, <2>3, SameData DEF Abstract!Applied
  <2> QED
    BY <2>1, <2>4 DEF Atomically, Abstract!AtomicNext
<1>12. ASSUME NEW h \in Handlers, WriteFails(h)
      PROVE  Atomically
  BY <1>12 DEF WriteFails, Goto, disk, asked, history, Atomically, DiskSeen, Rewriting, TypeOK, Inside, Steps, Stages, Stage, Preparing
<1>13. ASSUME NEW h \in Handlers, OpenRestore(h)
      PROVE  Atomically
  BY <1>13 DEF OpenRestore, Goto, disk, asked, history, Atomically, DiskSeen, Rewriting, TypeOK, Inside, Steps, Stages, Stage, Preparing
<1>14. ASSUME NEW h \in Handlers, Restore(h)
      PROVE  Atomically
  BY <1>14 DEF Restore, Verdict, Answer, Goto, disk, asked, history, Atomically, DiskSeen, Rewriting, TypeOK, Inside, Steps, Stages, Stage, Preparing
<1>15. ASSUME NEW h \in Handlers, RestoreFails(h)
      PROVE  Atomically
  <2>1. DiskSeen = current[h] /\ bak = current[h] /\ patch[h] \in Menu /\ Passes(current[h], patch[h])
    BY <1>15, SeenWhileRewriting DEF RestoreFails, Rewriting, Stages, Stage, Preparing, TypeOK
  <2>2. \A k \in Handlers : pc'[k] \notin {"writing", "failed", "restoring"}
    BY <1>15 DEF RestoreFails, Verdict, Goto, TypeOK, Inside, Steps
  <2>3. DiskSeen' = file'
    BY <2>2 DEF DiskSeen, Rewriting
  <2>4. file' \in Torn(current[h]) \cup Torn(Merge(current[h], patch[h]))
    BY <1>15, <2>1 DEF RestoreFails, Stages, Stage, Preparing, Result
  <2>5. Abstract!Damaged(patch[h])
    BY <2>1, <2>3, <2>4, SameData DEF Abstract!Damaged
  <2> QED
    BY <2>1, <2>5 DEF Atomically, Abstract!AtomicNext
<1>16. ASSUME NEW h \in Handlers, Reload(h)
      PROVE  Atomically
  BY <1>16 DEF Reload, Verdict, Answer, Goto, disk, asked, history, Atomically, DiskSeen, Rewriting, TypeOK, Inside, Steps, Stages, Stage, Preparing
<1>17. ASSUME NEW h \in Handlers, ReloadFails(h)
      PROVE  Atomically
  BY <1>17 DEF ReloadFails, Verdict, Answer, Goto, disk, asked, history, Atomically, DiskSeen, Rewriting, TypeOK, Inside, Steps, Stages, Stage, Preparing
<1>18. ASSUME NEW h \in Handlers, Conclude(h)
      PROVE  Atomically
  BY <1>18 DEF Conclude, Leave, ReleaseLock, Goto, disk, asked, history, Atomically, DiskSeen, Rewriting, TypeOK, Inside, Steps, Stages, Stage, Preparing
<1>19. ASSUME NEW h \in Handlers, AuditFails(h)
      PROVE  Atomically
  BY <1>19 DEF AuditFails, Raise, Leave, Answer, ReleaseLock, Goto, disk, asked, history, Atomically, DiskSeen, Rewriting, TypeOK, Inside, Steps, Stages, Stage, Preparing
<1>20. ASSUME Crash PROVE Atomically
  <2>1. DiskSeen' = file
    BY <1>20 DEF Crash, disk, asked, history, DiskSeen, Rewriting
  <2>2. CASE \A h \in Handlers : ~Rewriting(h)
    BY <2>1, <2>2, SeenOtherwise DEF Atomically
  <2>3. ASSUME NEW h \in Handlers, Rewriting(h) PROVE Atomically
    <3>1. DiskSeen = current[h] /\ patch[h] \in Menu /\ Passes(current[h], patch[h])
      BY <2>3, SeenWhileRewriting DEF Rewriting, Stages, Stage, Preparing, TypeOK
    <3>2. file \in Torn(current[h]) \cup Torn(Merge(current[h], patch[h]))
      BY <2>3, <3>1 DEF Rewriting, Stages, Stage, Preparing, Result, Torn
    <3>3. Abstract!Damaged(patch[h])
      BY <2>1, <3>1, <3>2, SameData DEF Abstract!Damaged
    <3> QED
      BY <3>1, <3>3 DEF Atomically, Abstract!AtomicNext
  <2> QED
    BY <2>2, <2>3
<1>21. ASSUME Restart PROVE Atomically
  BY <1>21 DEF Restart, disk, handling, asked, history, Atomically, DiskSeen, Rewriting, TypeOK, Inside, Steps, Stages, Stage, Preparing
<1>22. CASE UNCHANGED vars
  BY <1>22 DEF vars, disk, handling, asked, history, Atomically, DiskSeen, Rewriting, TypeOK, Inside, Steps, Stages, Stage, Preparing
<1> QED
  BY <1>1, <1>2, <1>3, <1>4, <1>5, <1>6, <1>7, <1>8, <1>9, <1>10, <1>11, <1>12, <1>13, <1>14, <1>15, <1>16, <1>17, <1>18, <1>19, <1>20, <1>21, <1>22
     DEF Next, ApplyStep

(* Applies are atomic: every behaviour of the store is one of AtomicRegistry.  *)
THEOREM StoreIsAtomic == Spec => AppliesAreAtomic
<1>1. Init => Abstract!AtomicInit
  BY SameData, StoreAssumption DEF Init, DiskSeen, Rewriting, Abstract!AtomicInit
<1>2. IInv /\ IInv' /\ [Next]_vars => [Abstract!AtomicNext]_DiskSeen
  BY NextAtomic DEF Atomically
<1> QED
  BY <1>1, <1>2, Invariant, PTL DEF Spec, AppliesAreAtomic, Abstract!AtomicSpec

-----------------------------------------------------------------------------
(* The registry in force.                                                   *)

(* While the daemon is down no thread of it is anywhere.                      *)
DownIsQuiet == ~up => \A h \in Handlers : pc[h] = "idle"

LEMMA NextDownIsQuiet == TypeOK /\ DownIsQuiet /\ [Next]_vars => DownIsQuiet'
<1> SUFFICES ASSUME TypeOK, DownIsQuiet, [Next]_vars PROVE DownIsQuiet'
  OBVIOUS
<1>1. CASE Crash
  BY <1>1 DEF Crash, DownIsQuiet
<1>2. CASE Restart
  BY <1>2 DEF Restart, DownIsQuiet
<1>3. CASE UNCHANGED vars
  BY <1>3 DEF vars, handling, DownIsQuiet
<1>4. ASSUME NEW h \in Handlers, Validate(h) \/ ApplyStep(h) \/ Return(h) PROVE DownIsQuiet'
  <2>1. pc[h] # "idle" /\ up' = up
    BY <1>4 DEF Validate, Return, ApplyStep, Acquire, Read, OpenBackup, CopyBackup, BackupFails,
                OpenFile, WritePart, WriteFile, WriteFails, OpenRestore, Restore, RestoreFails,
                Reload, ReloadFails, Conclude, AuditFails
  <2> QED BY <2>1 DEF DownIsQuiet
<1>5. ASSUME NEW h \in Handlers, NEW what \in {"apply", "validate"}, NEW token \in Tokens,
             NEW p \in Menu, Request(h, what, token, p)
      PROVE  DownIsQuiet'
  BY <1>5 DEF Request, DownIsQuiet
<1> QED BY <1>1, <1>2, <1>3, <1>4, <1>5 DEF Next

(* The two parts of LiveRegistry's state that are not the registry.           *)
Holder == {lock} \ {NoOne}
HasReplaced == \E h \in Handlers : pc[h] = "auditing" /\ Written(h)

(* The thread that has the lock is the only one inside.                       *)
LEMMA HolderInside ==
  ASSUME TypeOK, NEW h \in Handlers, pc[h] \in Inside
  PROVE  lock = h /\ Holder = {h} /\ \A k \in Handlers : pc[k] \in Inside => k = h
  BY StoreAssumption DEF TypeOK, Holder

(* A step that leaves memory alone and records no successful write of its own, *)
(* nor ends the apply of one.                                                *)
QuietStep(h) ==
  \/ Validate(h) \/ Return(h)
  \/ OpenBackup(h) \/ CopyBackup(h) \/ BackupFails(h)
  \/ OpenFile(h) \/ WritePart(h) \/ WriteFile(h) \/ WriteFails(h)
  \/ OpenRestore(h) \/ Restore(h) \/ RestoreFails(h)

LEMMA QuietSteps ==
  ASSUME TypeOK, NEW h \in Handlers,
         QuietStep(h) \/ \E what \in {"apply", "validate"}, token \in Tokens, p \in Menu : Request(h, what, token, p)
  PROVE  UNCHANGED <<mem, Holder, HasReplaced>>
<1>1. /\ mem' = mem /\ lock' = lock /\ pc[h] # "auditing"
      /\ \A k \in Handlers : k # h => pc'[k] = pc[k] /\ answer'[k] = answer[k]
  BY DEF QuietStep, Validate, Return, Request, OpenBackup, CopyBackup, BackupFails, OpenFile, WritePart,
         WriteFile, WriteFails, OpenRestore, Restore, RestoreFails, Verdict, Answer, Leave, Goto, asked,
         handling, TypeOK
<1>2. pc'[h] = "auditing" => answer'[h] \in {"backup_failed", "preserved", "lost"}
  BY DEF QuietStep, Validate, Return, Request, OpenBackup, CopyBackup, BackupFails, OpenFile, WritePart,
         WriteFile, WriteFails, OpenRestore, Restore, RestoreFails, Verdict, Answer, Leave, Goto, asked,
         handling, TypeOK
<1> QED BY <1>1, <1>2 DEF Holder, HasReplaced, Written

(* Every step of the store is one of LiveRegistry's, or shows nothing there.  *)
Replacing == (InMemory!LiveNext \/ InMemory!Restart) \/ UNCHANGED <<mem, Holder, HasReplaced>>

LEMMA NextReplacing ==
  IInv /\ DownIsQuiet /\ IInv' /\ [Next]_vars => Replacing
<1> SUFFICES ASSUME TypeOK, Stages, DownIsQuiet, TypeOK', [Next]_vars PROVE Replacing
  BY DEF IInv
<1> USE StoreAssumption DEF Replacing
<1>1. ASSUME NEW h \in Handlers, Acquire(h) PROVE Replacing
  <2>1. CASE lock = NoOne
    <3>1. \A k \in Handlers : pc[k] \notin Inside
      BY <2>1 DEF TypeOK
    <3>2. mem' = mem /\ lock' = h /\ \A k \in Handlers : pc'[k] # "auditing"
      BY <1>1, <2>1, <3>1 DEF Acquire, Goto, TypeOK, Inside, Steps
    <3>3. InMemory!Take(h)
      BY <2>1, <3>1, <3>2 DEF InMemory!Take, Inside, Steps
    <3> QED BY <3>3 DEF InMemory!LiveNext
  <2>2. CASE lock # NoOne
    BY <1>1, <2>2 DEF Acquire, Leave, Goto, Answer, TypeOK, Holder, HasReplaced, Written
  <2> QED BY <2>1, <2>2
<1>2. ASSUME NEW h \in Handlers, Read(h) PROVE Replacing
  <2>1. lock = h /\ Holder = {h} /\ mem' = mem /\ ~HasReplaced
    BY <1>2, HolderInside DEF Read, Inside, Steps, HasReplaced
  <2>2. CASE Raise(h)
    <3>1. lock' = NoOne /\ ~HasReplaced'
      BY <2>1, <2>2, HolderInside DEF Raise, ReleaseLock, TypeOK, HasReplaced, Inside, Steps
    <3>2. InMemory!Release(h)
      BY <2>1, <3>1 DEF InMemory!Release, HasReplaced, Holder
    <3> QED BY <3>2 DEF InMemory!LiveNext
  <2>3. CASE ~Raise(h)
    <3>1. lock' = lock /\ (pc'[h] = "auditing" => answer'[h] = "refused")
      BY <1>2, <2>3 DEF Read, Take, Verdict, Answer, Goto, TypeOK
    <3>2. \A k \in Handlers : pc'[k] = "auditing" => lock' = k
      BY DEF TypeOK, Inside, Steps
    <3>3. ~HasReplaced'
      BY <2>1, <3>1, <3>2 DEF HasReplaced, Written
    <3> QED BY <2>1, <3>1, <3>3 DEF Holder, HasReplaced
  <2> QED BY <2>2, <2>3
<1>3. ASSUME NEW h \in Handlers, Reload(h) \/ ReloadFails(h) PROVE Replacing
  <2>1. lock = h /\ Holder = {h} /\ lock' = lock /\ ~HasReplaced
    BY <1>3, HolderInside DEF Reload, ReloadFails, Inside, Steps, HasReplaced
  <2>2. HasReplaced'
    BY <1>3 DEF Reload, ReloadFails, Verdict, Answer, Goto, TypeOK, HasReplaced, Written
  <2>3. mem' \in Registries
    BY DEF TypeOK
  <2>4. InMemory!Replace(h)
    BY <2>1, <2>2, <2>3 DEF InMemory!Replace, HasReplaced, Holder
  <2> QED BY <2>4 DEF InMemory!LiveNext
<1>4. ASSUME NEW h \in Handlers, Conclude(h) \/ AuditFails(h) PROVE Replacing
  <2>1. lock = h /\ Holder = {h} /\ lock' = NoOne /\ mem' = mem
    BY <1>4, HolderInside DEF Conclude, AuditFails, Raise, ReleaseLock, Inside, Steps
  <2>2. ~HasReplaced'
    BY <2>1 DEF HasReplaced, TypeOK, Inside, Steps
  <2>3. InMemory!Release(h)
    BY <2>1, <2>2 DEF InMemory!Release, HasReplaced, Holder
  <2> QED BY <2>3 DEF InMemory!LiveNext
<1>5. CASE Crash
  <2>1. lock' = NoOne /\ mem' = mem /\ ~HasReplaced'
    BY <1>5 DEF Crash, HasReplaced
  <2>2. CASE lock = NoOne
    BY <2>1, <2>2 DEF Holder, HasReplaced, TypeOK, Inside, Steps
  <2>3. CASE lock # NoOne
    <3>1. PICK h \in Handlers : lock = h
      BY <2>3 DEF TypeOK
    <3>2. InMemory!Release(h)
      BY <2>1, <3>1 DEF InMemory!Release, HasReplaced
    <3> QED BY <3>2 DEF InMemory!LiveNext
  <2> QED BY <2>2, <2>3
<1>6. CASE Restart
  <2>1. lock = NoOne /\ UNCHANGED <<lock, pc, answer>> /\ mem' \in Registries
    BY <1>6 DEF Restart, DownIsQuiet, TypeOK, Inside, Steps, handling
  <2>2. InMemory!Restart
    BY <2>1 DEF InMemory!Restart, Written
  <2> QED BY <2>2
<1>7. CASE UNCHANGED vars
  BY <1>7 DEF vars, handling, Holder, HasReplaced, Written
<1> QED
  BY <1>1, <1>2, <1>3, <1>4, <1>5, <1>6, <1>7, QuietSteps DEF Next, ApplyStep, QuietStep

(* With any number of threads, failures and crashes the registry in force is   *)
(* replaced only under the lock, once by each apply, or at a start: the        *)
(* contract that module Gateway keeps, too (management.py:239, 304-322, 350). *)
THEOREM StoreReloadsKeepContract == Spec => RegistryReplacedOnce
<1>1. Init => IInv /\ DownIsQuiet
  BY InitInv DEF Init, DownIsQuiet
<1>2. IInv /\ DownIsQuiet /\ [Next]_vars => DownIsQuiet'
  BY NextDownIsQuiet DEF IInv
<1>3. Init => InMemory!LiveInit
  BY StoreAssumption DEF Init, InMemory!LiveInit
<1>4. IInv /\ DownIsQuiet /\ IInv' /\ [Next]_vars
      => [InMemory!LiveNext \/ InMemory!Restart]_(InMemory!liveVars)
  BY NextReplacing DEF Replacing, Holder, HasReplaced, InMemory!liveVars
<1> QED BY <1>1, <1>2, <1>3, <1>4, Invariant, PTL DEF Spec, RegistryReplacedOnce, InMemory!LiveSpecWithRestarts

-----------------------------------------------------------------------------
(* How long an apply can go on.                                              *)

(* What StepsLeft says at each place.                                         *)
PlacesCounted(h) ==
  /\ pc[h] = "held" => StepsLeft(h) = 9
  /\ pc[h] = "merged" => StepsLeft(h) = 8
  /\ pc[h] = "backing" => StepsLeft(h) = 7
  /\ pc[h] = "backed" => StepsLeft(h) = 6
  /\ pc[h] = "writing" /\ file = Blank => StepsLeft(h) = 5
  /\ pc[h] = "writing" /\ file # Blank => StepsLeft(h) = 4
  /\ pc[h] = "failed" => StepsLeft(h) = 3
  /\ pc[h] \in {"restoring", "written"} => StepsLeft(h) = 2
  /\ pc[h] = "auditing" => StepsLeft(h) = 1
  /\ pc[h] \in {"idle", "admitted", "done"} => StepsLeft(h) = 0

LEMMA StepsAt ==
  ASSUME NEW h \in Handlers PROVE PlacesCounted(h) /\ PlacesCounted(h)'
BY SMT DEF PlacesCounted, StepsLeft, Steps, Inside

(* From where to where the steps of the lock's holder lead.                   *)
LEMMA HolderLeads ==
  ASSUME IInv, NEW h \in Handlers, lock = h, ApplyStep(h), ~UNCHANGED vars
  PROVE  \/ pc[h] = "writing" /\ pc'[h] = "writing" /\ file = Blank /\ file' # Blank
         \/ <<pc[h], pc'[h]>> \in
              {<<"held", "done">>, <<"held", "merged">>, <<"held", "auditing">>,
               <<"merged", "backing">>, <<"merged", "auditing">>,
               <<"backing", "backed">>, <<"backing", "auditing">>,
               <<"backed", "writing">>, <<"backed", "failed">>,
               <<"writing", "written">>, <<"writing", "failed">>,
               <<"failed", "restoring">>, <<"failed", "auditing">>,
               <<"restoring", "auditing">>, <<"written", "auditing">>,
               <<"auditing", "done">>}
<1> USE DEF Goto, Verdict, Answer, Leave, TypeOK
<1>0. TypeOK /\ pc[h] \in Inside
  BY DEF IInv
<1>1. CASE Acquire(h)
  BY <1>0, <1>1 DEF Acquire, Inside
<1>2. CASE Read(h)
  BY <1>0, <1>2 DEF Read, Take, Raise
<1>3. CASE OpenBackup(h) \/ CopyBackup(h) \/ BackupFails(h)
  BY <1>0, <1>3 DEF OpenBackup, CopyBackup, BackupFails
<1>4. CASE WritePart(h)
  <2>1. /\ pc[h] = "writing" /\ file = Blank /\ pc' = pc
        /\ UNCHANGED <<bak, mem, up, lock, handling, history>>
    BY <1>4 DEF WritePart, handling
  <2>2. file' # file
    BY <2>1 DEF vars, disk, handling, asked, history
  <2> QED BY <2>1, <2>2
<1>5. CASE OpenFile(h) \/ WriteFile(h) \/ WriteFails(h)
  BY <1>0, <1>5 DEF OpenFile, WriteFile, WriteFails
<1>6. CASE OpenRestore(h) \/ Restore(h) \/ RestoreFails(h)
  BY <1>0, <1>6 DEF OpenRestore, Restore, RestoreFails
<1>7. CASE Reload(h) \/ ReloadFails(h)
  BY <1>0, <1>7 DEF Reload, ReloadFails
<1>8. CASE Conclude(h) \/ AuditFails(h)
  BY <1>0, <1>8 DEF Conclude, AuditFails, Raise
<1> QED BY <1>1, <1>2, <1>3, <1>4, <1>5, <1>6, <1>7, <1>8 DEF ApplyStep

(* While it holds the lock nobody else moves it, or what it writes.           *)
LEMMA OthersDoNotCount ==
  ASSUME IInv, NEW h \in Handlers, lock = h, [Next]_vars, ~ApplyStep(h), ~Crash, up
  PROVE  pc'[h] = pc[h] /\ file' = file /\ lock' = lock
<1> USE DEF Goto, Verdict, Answer, Leave, TypeOK
<1>0. TypeOK /\ lock # NoOne /\ pc[h] \in Inside
  BY StoreAssumption DEF IInv
<1>1. ASSUME NEW k \in Handlers, ApplyStep(k) PROVE pc'[h] = pc[h] /\ file' = file /\ lock' = lock
  <2>1. k # h /\ pc[k] \notin Inside
    BY <1>0, <1>1
  <2>2. Acquire(k)
    BY <1>1, <2>1 DEF ApplyStep, Inside, Steps, Read, OpenBackup, CopyBackup, BackupFails, OpenFile,
          WritePart, WriteFile, WriteFails, OpenRestore, Restore, RestoreFails, Reload, ReloadFails,
          Conclude, AuditFails
  <2> QED BY <1>0, <2>1, <2>2 DEF Acquire, disk
<1>2. ASSUME NEW k \in Handlers, Validate(k) \/ Return(k) \/
             \E what \in {"apply", "validate"}, token \in Tokens, p \in Menu : Request(k, what, token, p)
      PROVE  pc'[h] = pc[h] /\ file' = file /\ lock' = lock
  BY <1>0, <1>2 DEF Validate, Return, Request, Inside, disk
<1>3. CASE Restart
  BY <1>0, <1>3 DEF Restart
<1>4. CASE UNCHANGED vars
  BY <1>4 DEF vars, disk, handling
<1> QED BY <1>1, <1>2, <1>3, <1>4 DEF Next

(* Each apply gives the lock back within nine steps of its own, with any       *)
(* number of threads beside it and whatever fails (management.py:239-350):    *)
(* given that its thread is scheduled, this is why LockFreed holds.           *)
THEOREM AppliesEnd == Spec => ApplyRunsOut
<1>1. Init => IInv /\ DownIsQuiet
  BY InitInv DEF Init, DownIsQuiet
<1>2. IInv /\ DownIsQuiet /\ [Next]_vars => DownIsQuiet'
  BY NextDownIsQuiet DEF IInv
<1>3. IInv /\ DownIsQuiet /\ [Next]_vars
      => [\A h \in Handlers : lock = h =>
            \/ Crash
            \/ IF ApplyStep(h) THEN StepsLeft(h)' < StepsLeft(h)
               ELSE StepsLeft(h)' = StepsLeft(h) /\ lock' = h]_vars
  <2> SUFFICES ASSUME IInv, DownIsQuiet, [Next]_vars, ~UNCHANGED vars,
                      NEW h \in Handlers, lock = h, ~Crash
      PROVE  IF ApplyStep(h) THEN StepsLeft(h)' < StepsLeft(h)
             ELSE StepsLeft(h)' = StepsLeft(h) /\ lock' = h
    OBVIOUS
  <2>1. CASE ApplyStep(h)
    BY <2>1, HolderLeads, StepsAt DEF PlacesCounted
  <2>2. CASE ~ApplyStep(h)
    <3>1. up
      BY StoreAssumption DEF DownIsQuiet, IInv, TypeOK, Inside
    <3>2. pc'[h] = pc[h] /\ file' = file /\ lock' = lock
      BY <2>2, <3>1, OthersDoNotCount
    <3> QED BY <2>2, <3>2 DEF StepsLeft
  <2> QED BY <2>1, <2>2
<1> QED BY <1>1, <1>2, <1>3, Invariant, PTL DEF Spec, ApplyRunsOut
=============================================================================
