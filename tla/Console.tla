------------------------------ MODULE Console ------------------------------
(***************************************************************************)
(* The management page (lmcp/ui.js): edits are staged against the registry   *)
(* that the page has fetched, shown in a dialog and sent as one patch. Every  *)
(* await is a gap in which the operator clicks on and other answers arrive.   *)
(* A client stands by its allow_servers, a server by its being there; the     *)
(* other fields of an entry are staged, shown and sent in the same way.       *)
(*                                                                          *)
(* Errors, warnings and the answers of Validate only decide which buttons the *)
(* bar at the bottom has: it is taken to have them all, always.               *)
(*                                                                          *)
(* The daemon is what RegistryStore promises, AtomicRegistry, with the        *)
(* registry in memory next to the file; other operators use it as well. What   *)
(* lies behind a dialog cannot be clicked.                                    *)
(***************************************************************************)
EXTENDS RegistryData, Naturals

CONSTANTS
  Stored,       \* the registry at the start
  Others,       \* the patches of other operators
  NoView,
  Fetches,                         \* bound: slots for fetches of the view
  MaxStaged, MaxCalls, MaxOthers   \* bounds: edits staged at a time, applies of
                                   \* the page, of others

ASSUME ConsoleAssumption ==
  /\ Stored \in Registries /\ Valid(Stored) /\ Others \subseteq Patches
  /\ NoView \notin Registries

VARIABLES
  mode,         \* "readonly" or "management"
  view,         \* state.registry: what the page has fetched
  pending,      \* state.pending: lists given to clients, clients and servers to remove
  dialog,       \* the open dialog and its lines
  calls,        \* the page's applies
  fetches,      \* GET /registry/view under way, for an unlock or after an apply
  disk, mem,    \* the daemon's file and registry
  others,       \* applies of others so far
  intent,       \* history: what the operator has staged and not yet seen applied
  overlapped    \* history: something was staged while an apply was under way

page == <<mode, view, pending, dialog>>
daemon == <<disk, mem, others>>
history == <<intent, overlapped>>
consoleVars == <<page, calls, fetches, daemon, history>>

Nothing == [lists |-> [c \in {} |-> {}], gone |-> {}, cut |-> {}]

(* What was shown, and whether the page still has the view it was made from.    *)
Outdated == [lines |-> {}, current |-> FALSE]
Closed == [open |-> FALSE, shown |-> Outdated]
Unused == [stage |-> "unused", patch |-> Nothing, shown |-> Outdated, answer |-> "none"]
Idle == [stage |-> "idle", unlock |-> FALSE, got |-> NoView]

(* A page that is just loaded, with no token kept from before.                *)
Init ==
  /\ mode = "readonly" /\ view = NoView
  /\ pending = Nothing /\ dialog = Closed
  /\ calls = [k \in 1..MaxCalls |-> Unused]
  /\ fetches = [f \in Fetches |-> Idle]
  /\ disk = Stored /\ mem = Stored
  /\ others = 0
  /\ intent = Nothing /\ overlapped = FALSE

-----------------------------------------------------------------------------
AllowedIn(d, c) == IF c \in DOMAIN d.allow THEN d.allow[c] ELSE {}

(* Mutant: a removed client's list goes out in place of its removal.          *)
BuildPatch_ListsWin(p) ==
  [clients |-> p.lists, put |-> {}, nullClients |-> p.gone \ DOMAIN p.lists,
   nullServers |-> p.cut, token |-> {}, bound |-> {}, kind |-> "sound"]

(* buildPatch: a removal hides what else is staged for the same entry.         *)
BuildPatch(p) ==
  [clients |-> [c \in DOMAIN p.lists \ p.gone |-> p.lists[c]],
   put |-> {}, nullClients |-> p.gone, nullServers |-> p.cut,
   token |-> {}, bound |-> {}, kind |-> "sound"]

(* buildHumanDiff: against the view, not against the file.                    *)
HumanDiff(v, p) ==
  {<<"remove", c>> : c \in p.gone} \cup {<<"cut", s>> : s \in p.cut} \cup
  UNION {{<<"gain", c, s>> : s \in p.lists[c] \ AllowedIn(v, c)} \cup
         {<<"lose", c, s>> : s \in AllowedIn(v, c) \ p.lists[c]} : c \in DOMAIN p.lists \ p.gone}

-----------------------------------------------------------------------------
(* Staging.                                                                  *)

UnderWay == \E k \in 1..MaxCalls : calls[k].stage \in {"sent", "answered"}

Size(p) == Cardinality(DOMAIN p.lists) + Cardinality(p.gone) + Cardinality(p.cut)

(* Any edit: new is what is staged then, and meant what the operator has staged *)
(* by then; what that is, is not followed once an apply was under way.         *)
Stage(new, meant) ==
  /\ mode = "management" /\ ~dialog.open
  /\ pending' = new /\ Size(pending') <= MaxStaged
  /\ overlapped' = (overlapped \/ UnderWay)
  /\ intent' = IF overlapped' THEN Nothing ELSE meant
  /\ UNCHANGED <<mode, view, dialog, calls, fetches, daemon>>

(* A list that is back at what the view has is not staged any more.            *)
Toggled(c, s, p) ==
  LET base == AllowedIn(view, c)
      current == IF c \in DOMAIN p.lists THEN p.lists[c] ELSE base
      next == IF s \in current THEN current \ {s} ELSE current \cup {s}
      rest == DOMAIN p.lists \ {c}
  IN  [p EXCEPT !.lists = [k \in IF next = base THEN rest ELSE rest \cup {c} |->
                             IF k = c THEN next ELSE p.lists[k]]]

ClientRemoved(c, p) ==
  [p EXCEPT !.gone = @ \cup {c}, !.lists = [k \in DOMAIN p.lists \ {c} |-> p.lists[k]]]

ServerRemoved(s, p) == [p EXCEPT !.cut = @ \cup {s}]

(* Rows and columns come from /status, which is polled now and then and may     *)
(* still show what another operator has removed.                             *)
ToggleCell ==
  \E c \in ClientIds, s \in ServerIds : Stage(Toggled(c, s, pending), Toggled(c, s, intent))

RemoveClient == \E c \in ClientIds : Stage(ClientRemoved(c, pending), ClientRemoved(c, intent))

RemoveServer == \E s \in ServerIds : Stage(ServerRemoved(s, pending), ServerRemoved(s, intent))

Emptied == pending' = Nothing /\ intent' = Nothing /\ overlapped' = FALSE

Discard ==
  /\ ~dialog.open /\ Emptied
  /\ UNCHANGED <<mode, view, dialog, calls, fetches, daemon>>

(* What was shown against another view is out of date.                        *)
View(new) ==
  /\ view' = new
  /\ dialog' = IF new = view THEN dialog ELSE [dialog EXCEPT !.shown = Outdated]
  /\ calls' = IF new = view THEN calls
              ELSE [k \in DOMAIN calls |-> [calls[k] EXCEPT !.shown = Outdated]]

(* Mutant: the edits stay behind.                                            *)
Lock_KeepsPending ==
  /\ mode = "management" /\ ~dialog.open
  /\ mode' = "readonly" /\ View(NoView)
  /\ UNCHANGED <<pending, fetches, daemon, history>>

Lock ==
  /\ mode = "management" /\ ~dialog.open
  /\ mode' = "readonly" /\ View(NoView)
  /\ Emptied
  /\ UNCHANGED <<fetches, daemon>>

-----------------------------------------------------------------------------
(* Fetching the view.                                                        *)

Fetch(f, record) == fetches' = [fetches EXCEPT ![f] = record]
Asked == [stage |-> "asked", unlock |-> FALSE, got |-> NoView]
Served(unlock, got) == [stage |-> "served", unlock |-> unlock, got |-> got]

(* What the daemon shows is what it has in memory. An unlock that fails, with   *)
(* a wrong token or no daemon, changes nothing.                               *)
Unlock ==
  /\ mode = "readonly" /\ ~dialog.open
  /\ \E f \in Fetches : fetches[f].stage = "idle" /\ Fetch(f, Served(TRUE, mem))
  /\ UNCHANGED <<page, calls, daemon, history>>

(* Mutant: an answer that is an error is taken for the registry.              *)
Refetch_Unchecked(f) ==
  /\ fetches[f].stage = "asked"
  /\ \E got \in {mem, NoView} : Fetch(f, Served(FALSE, got))
  /\ UNCHANGED <<page, calls, daemon, history>>

(* After an apply the page gets /status first, and then the registry if it is   *)
(* still unlocked; either may fail.                                          *)
Refetch(f) ==
  /\ fetches[f].stage = "asked"
  /\ \/ mode = "management" /\ Fetch(f, Served(FALSE, mem))
     \/ Fetch(f, Idle)
  /\ UNCHANGED <<page, calls, daemon, history>>

(* It gets here whatever the page has become: a page locked in the meantime    *)
(* has a registry again, and an unlock that was on its way unlocks it.         *)
Deliver(f) ==
  /\ fetches[f].stage = "served"
  /\ View(fetches[f].got)
  /\ mode' = IF fetches[f].unlock THEN "management" ELSE mode
  /\ Fetch(f, Idle)
  /\ UNCHANGED <<pending, daemon, history>>

-----------------------------------------------------------------------------
(* Applying.                                                                 *)

OpenDialog ==
  /\ ~dialog.open
  /\ dialog' = [open |-> TRUE, shown |-> [lines |-> HumanDiff(view, pending), current |-> TRUE]]
  /\ UNCHANGED <<mode, view, pending, calls, fetches, daemon, history>>

Cancel ==
  /\ dialog.open
  /\ dialog' = Closed
  /\ UNCHANGED <<mode, view, pending, calls, fetches, daemon, history>>

(* The patch is built anew from what is staged by now.                        *)
Confirm ==
  /\ dialog.open
  /\ \E k \in 1..MaxCalls :
       /\ calls[k].stage = "unused" /\ \A j \in 1..(k - 1) : calls[j].stage # "unused"
       /\ calls' = [calls EXCEPT ![k] = [Unused EXCEPT !.stage = "sent", !.patch = pending,
                                                       !.shown = dialog.shown]]
  /\ dialog' = Closed
  /\ UNCHANGED <<mode, view, pending, fetches, daemon, history>>

(* The daemon applies it, and maybe cannot reload; or it refuses, or fails with *)
(* nothing written. The answer may be lost either way, which for the page is a  *)
(* failure like any other.                                                   *)
Handle(k) ==
  LET patch == BuildPatch(calls[k].patch)
      Answer(how) == calls' = [calls EXCEPT ![k] = [@ EXCEPT !.stage = "answered", !.answer = how,
                                                              !.shown = Outdated]]
  IN
  /\ calls[k].stage = "sent"
  /\ \/ /\ Passes(disk, patch)
        /\ disk' = Merge(disk, patch)
        /\ \/ mem' = disk' /\ Answer("applied")
           \/ UNCHANGED mem /\ Answer("reload_failed")
           \/ mem' \in {mem, disk'} /\ Answer("failure")
     \/ Answer("failure") /\ UNCHANGED <<disk, mem>>
  /\ UNCHANGED <<page, fetches, others, history>>

Over(k) == calls' = [calls EXCEPT ![k] = [Unused EXCEPT !.stage = "over"]]

(* Mutant: a failed reload counts as a success.                               *)
Answered_ReloadForgotten(k) ==
  /\ calls[k].stage = "answered"
  /\ Over(k)
  /\ pending' = IF calls[k].answer = "failure" THEN pending ELSE Nothing
  /\ intent' = IF calls[k].answer = "applied" /\ intent = calls[k].patch THEN Nothing ELSE intent
  /\ UNCHANGED <<mode, view, dialog, fetches, daemon, overlapped>>

(* An applied patch takes everything staged with it, whatever was staged since; *)
(* after a failed reload or an error it stays. With no answer the promise is     *)
(* rejected and nothing is shown.                                             *)
Answered(k) ==
  /\ calls[k].stage = "answered"
  /\ Over(k)
  /\ \/ /\ calls[k].answer = "applied"
        /\ pending' = Nothing
        /\ intent' = IF intent = calls[k].patch THEN Nothing ELSE intent
        /\ \E f \in Fetches : fetches[f].stage = "idle" /\ Fetch(f, Asked)
     \/ /\ calls[k].answer # "applied"
        /\ UNCHANGED <<pending, intent, fetches>>
  /\ UNCHANGED <<mode, view, dialog, daemon, overlapped>>

-----------------------------------------------------------------------------
(* The rest of the world.                                                    *)

OtherApplies ==
  /\ others < MaxOthers
  /\ \E patch \in Others :
       /\ Passes(disk, patch)
       /\ disk' = Merge(disk, patch)
       /\ mem' \in {mem, disk'}
  /\ others' = others + 1
  /\ UNCHANGED <<page, calls, fetches, history>>

Restart ==
  /\ mem # disk
  /\ mem' = disk
  /\ UNCHANGED <<page, calls, fetches, disk, others, history>>

OperatorStep ==
  ToggleCell \/ RemoveClient \/ RemoveServer \/ Discard \/ Lock \/ Unlock \/
  OpenDialog \/ Cancel \/ Confirm

Next ==
  \/ OperatorStep \/ OtherApplies \/ Restart
  \/ \E f \in Fetches : Refetch(f) \/ Deliver(f)
  \/ \E k \in DOMAIN calls : Handle(k) \/ Answered(k)

Spec == Init /\ [][Next]_consoleVars

-----------------------------------------------------------------------------
Stagings ==
  [lists : UNION {[C -> Lists] : C \in SUBSET ClientIds}, gone : SUBSET ClientIds, cut : SUBSET ServerIds]

Lines ==
  ({"remove"} \X ClientIds) \cup ({"cut"} \X ServerIds) \cup ({"gain", "lose"} \X ClientIds \X ServerIds)

Shown == [lines : SUBSET Lines, current : BOOLEAN]

Applies ==
  [stage : {"unused", "sent", "answered", "over"}, patch : Stagings, shown : Shown,
   answer : {"none", "applied", "reload_failed", "failure"}]

Slot == [stage : {"idle", "asked", "served"}, unlock : BOOLEAN, got : Registries \cup {NoView}]

(* What every variable holds; a fetch has a registry once it is served, and    *)
(* only then.                                                                *)
TypeOK ==
  /\ mode \in {"readonly", "management"}
  /\ view \in Registries \cup {NoView}
  /\ pending \in Stagings /\ intent \in Stagings
  /\ dialog \in [open : BOOLEAN, shown : Shown]
  /\ calls \in [1..MaxCalls -> Applies]
  /\ fetches \in [Fetches -> Slot]
  /\ \A f \in Fetches : fetches[f].got # NoView <=> fetches[f].stage = "served"
  /\ disk \in Registries /\ mem \in Registries
  /\ others \in Nat /\ overlapped \in BOOLEAN

(* Whatever is staged has a registry and an unlocked page to be shown against,  *)
(* though answers that unlock, refetch and clear come in any order: without    *)
(* one, buildHumanDiff has nothing to read (ui.js:119-157, 187-209, 773-783).   *)
EditsHaveAView ==
  (mode = "management" \/ pending # Nothing) => view # NoView /\ mode = "management"

(* No edit is lost but to Discard and Lock, or to the success of the very apply *)
(* that sent it; only one staged while an apply is under way may go with that   *)
(* apply's success, though it was never sent (ui.js:800-830, docs/web_ui.md:206).    *)
EditsLostOnlyInFlight == pending = intent \/ overlapped

Effect(old, new) ==
  {<<"remove", c>> : c \in DOMAIN old.allow \ DOMAIN new.allow} \cup
  {<<"cut", s>> : s \in old.servers \ new.servers} \cup
  UNION {{<<"gain", c, s>> : s \in new.allow[c] \ AllowedIn(old, c)} \cup
         {<<"lose", c, s>> : s \in AllowedIn(old, c) \ new.allow[c]} : c \in DOMAIN new.allow}

(* What a write changes without its being among lines; that a server is removed *)
(* stands for its place in every list.                                        *)
Unshown(lines, old, new) ==
  {l \in Effect(old, new) \ lines : ~(l[1] = "lose" /\ <<"cut", l[3]>> \in lines)}

(* An apply changes nothing in the file that the dialog did not show, as long   *)
(* as the file is what the dialog's diff was made against: a removed server      *)
(* stands for its place in every list (ui.js:119-157, 687-720; docs/web_ui.md:21).    *)
NothingUnshown ==
  [][\A k \in DOMAIN calls :
       calls[k].stage = "sent" /\ calls'[k].stage = "answered" /\ calls[k].shown.current /\ view = disk
         => Unshown(calls[k].shown.lines, disk, disk') = {}]_consoleVars

File == INSTANCE AtomicRegistry WITH Menu <- Patches

(* Whoever applies, and whatever becomes of the answers, the file goes through  *)
(* what module AtomicRegistry allows, which module RegistryStore is shown to    *)
(* keep: the daemon the page is modelled against is the one that module models  *)
(* (management.py:239-295, ui.js:800-830).                                     *)
FileIsAtomic == File!AtomicSpec
=============================================================================
