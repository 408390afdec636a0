---------------------------- MODULE ConsoleProofs ---------------------------
(***************************************************************************)
(* What is proved of the management page, for any registries, any number of   *)
(* edits, applies and fetches, and whatever other operators do.               *)
(***************************************************************************)
EXTENDS Console, TLAPS

-----------------------------------------------------------------------------
(* Patches and registries.                                                   *)

(* A setting is the given one or the old one.                                 *)
LEMMA SettingKept ==
  ASSUME NEW S, NEW old \in S, NEW given, given = {} \/ \E t \in S : given = {t}
  PROVE  Setting(old, given) \in S
  BY DEF Setting

(* A registry has all its sections, and no patch takes one away.               *)
LEMMA AllSections ==
  ASSUME NEW d \in Registries, NEW p
  PROVE  /\ Listed(d) = DOMAIN d.allow /\ There(d) = d.servers
         /\ ~NoClients(d, p) /\ ~NoServers(d, p)
<1>1. PICK C \in SUBSET ClientIds : d.allow \in [C -> Lists]
  BY DEF Registries
<1>2. d.servers \in SUBSET ServerIds
  BY DEF Registries
<1>3. d.allow # Missing /\ d.servers # Missing
  BY <1>1, <1>2, DataAssumption
<1>4. ~NoClients(d, p) /\ ~NoServers(d, p)
  BY <1>3 DEF NoClients, NoServers
<1> QED
  BY <1>3, <1>4 DEF Listed, There

(* What a patch makes of a registry is a registry.                            *)
LEMMA MergedIsRegistry ==
  ASSUME NEW d \in Registries, NEW p \in Patches PROVE Merge(d, p) \in Registries
<1>1. PICK C \in SUBSET ClientIds, P \in SUBSET ClientIds :
        d.allow \in [C -> Lists] /\ p.clients \in [P -> Lists]
  BY DEF Registries, Patches
<1>2. Clients(d, p) \in SUBSET ClientIds /\ Servers(d, p) \in SUBSET ServerIds
  BY <1>1, AllSections DEF Clients, Servers, Registries, Patches
<1>3. \A c \in Clients(d, p) : List(d, p, c) \ p.nullServers \in Lists
  BY <1>1, AllSections DEF Clients, List, Lists
<1>4. [c \in Clients(d, p) |-> List(d, p, c) \ p.nullServers] \in [Clients(d, p) -> Lists]
  BY <1>3
<1>5. /\ Setting(d.token, p.token) \in Tokens \cup {NoToken}
      /\ Setting(d.bound, p.bound) \in Settings
  BY SettingKept DEF Registries, Patches
<1> QED
  BY <1>2, <1>4, <1>5, AllSections DEF Merge, Registries

(* What is staged makes a patch.                                              *)
LEMMA BuiltIsPatch == ASSUME NEW p \in Stagings PROVE BuildPatch(p) \in Patches
<1>1. PICK C \in SUBSET ClientIds : p.lists \in [C -> Lists]
  BY DEF Stagings
<1>2. [c \in DOMAIN p.lists \ p.gone |-> p.lists[c]] \in [C \ p.gone -> Lists]
  BY <1>1
<1>3. p.gone \in SUBSET ClientIds /\ p.cut \in SUBSET ServerIds
  BY DEF Stagings
<1> QED
  BY <1>2, <1>3 DEF BuildPatch, Patches

(* Nothing is a staging, and its diff is empty.                               *)
LEMMA NothingStaged == Nothing \in Stagings /\ \A v : HumanDiff(v, Nothing) = {}
<1>1. [c \in {} |-> {}] \in [{} -> Lists]
  OBVIOUS
<1>2. Nothing \in Stagings
  BY <1>1 DEF Nothing, Stagings
<1>3. DOMAIN Nothing.lists = {} /\ Nothing.gone = {} /\ Nothing.cut = {}
  BY DEF Nothing
<1> QED
  BY <1>2, <1>3 DEF HumanDiff

(* What a registry allows a client, be it there or not, is a list.             *)
LEMMA AllowedTyped == ASSUME NEW d \in Registries, NEW c PROVE AllowedIn(d, c) \in Lists
  BY DEF AllowedIn, Registries, Lists

(* A diff is made of lines.                                                  *)
LEMMA DiffTyped ==
  ASSUME NEW d \in Registries, NEW p \in Stagings PROVE HumanDiff(d, p) \subseteq Lines
<1>1. p.gone \subseteq ClientIds /\ p.cut \subseteq ServerIds /\ DOMAIN p.lists \subseteq ClientIds
      /\ \A c \in DOMAIN p.lists : p.lists[c] \subseteq ServerIds
  BY DEF Stagings, Lists
<1>2. \A c : AllowedIn(d, c) \subseteq ServerIds
  BY AllowedTyped DEF Lists
<1> QED
  BY <1>1, <1>2 DEF HumanDiff, Lines

(* A toggled list is a staging again.                                         *)
LEMMA ToggledTyped ==
  ASSUME view \in Registries, NEW p \in Stagings, NEW c \in ClientIds, NEW s \in ServerIds
  PROVE  Toggled(c, s, p) \in Stagings
<1> DEFINE base == AllowedIn(view, c)
           current == IF c \in DOMAIN p.lists THEN p.lists[c] ELSE base
           next == IF s \in current THEN current \ {s} ELSE current \cup {s}
           rest == DOMAIN p.lists \ {c}
           C == IF next = base THEN rest ELSE rest \cup {c}
           lists == [k \in C |-> IF k = c THEN next ELSE p.lists[k]]
<1>1. DOMAIN p.lists \in SUBSET ClientIds /\ \A k \in DOMAIN p.lists : p.lists[k] \in Lists
  BY DEF Stagings
<1>2. next \in Lists
  BY <1>1, AllowedTyped DEF Lists
<1>3. C \in SUBSET ClientIds /\ lists \in [C -> Lists]
  <2> HIDE DEF next
  <2> QED
    BY <1>1, <1>2
<1>4. Toggled(c, s, p) = [p EXCEPT !.lists = lists]
  BY DEF Toggled
<1> HIDE DEF lists, C
<1> QED
  BY <1>3, <1>4 DEF Stagings

(* So is one with a client or a server removed.                               *)
LEMMA RemovalTyped ==
  ASSUME NEW p \in Stagings
  PROVE  /\ \A c \in ClientIds : ClientRemoved(c, p) \in Stagings
         /\ \A s \in ServerIds : ServerRemoved(s, p) \in Stagings
<1>1. PICK C \in SUBSET ClientIds : p.lists \in [C -> Lists]
  BY DEF Stagings
<1>2. ASSUME NEW c \in ClientIds PROVE ClientRemoved(c, p) \in Stagings
  <2> DEFINE lists == [k \in DOMAIN p.lists \ {c} |-> p.lists[k]]
  <2>1. lists \in [C \ {c} -> Lists] /\ C \ {c} \in SUBSET ClientIds
    BY <1>1
  <2> HIDE DEF lists
  <2>2. [p EXCEPT !.gone = @ \cup {c}, !.lists = lists] \in Stagings
    BY <2>1 DEF Stagings
  <2> QED
    BY <2>2 DEF lists, ClientRemoved
<1>3. \A s \in ServerIds : ServerRemoved(s, p) \in Stagings
  BY DEF Stagings, ServerRemoved
<1> QED
  BY <1>2, <1>3

-----------------------------------------------------------------------------
(* Types.                                                                    *)

(* An edit is a toggled cell or a removal.                                    *)
LEMMA StagingTyped ==
  ASSUME TypeOK, EditsHaveAView, ToggleCell \/ RemoveClient \/ RemoveServer
  PROVE  /\ pending' \in Stagings /\ intent' \in Stagings
         /\ mode = "management" /\ ~dialog.open
         /\ overlapped' = (overlapped \/ UnderWay)
         /\ ~overlapped' /\ pending = intent => pending' = intent'
         /\ UNCHANGED <<mode, view, dialog, calls, fetches, daemon>>
<1>1. CASE ToggleCell
  BY <1>1, ToggledTyped, NothingStaged DEF ToggleCell, Stage, TypeOK, EditsHaveAView
<1>2. CASE RemoveClient
  BY <1>2, RemovalTyped, NothingStaged DEF RemoveClient, Stage, TypeOK
<1>3. CASE RemoveServer
  BY <1>3, RemovalTyped, NothingStaged DEF RemoveServer, Stage, TypeOK
<1> QED
  BY <1>1, <1>2, <1>3

(* A new view changes nothing of dialog and applies but what they show.        *)
LEMMA ViewTyped ==
  ASSUME TypeOK, NEW new, View(new)
  PROVE  /\ dialog' \in [open : BOOLEAN, shown : Shown] /\ dialog'.open = dialog.open
         /\ calls' \in [1..MaxCalls -> Applies]
         /\ \A k \in 1..MaxCalls : calls'[k].stage = calls[k].stage /\ calls'[k].patch = calls[k].patch
         /\ new # view => ~dialog'.shown.current /\ \A k \in 1..MaxCalls : ~calls'[k].shown.current
         /\ new = view => dialog' = dialog /\ calls' = calls
<1>1. Outdated \in Shown /\ ~Outdated.current
  BY DEF Outdated, Shown
<1> QED
  BY <1>1 DEF View, TypeOK, Applies

(* What the records that are written whole hold.                              *)
LEMMA RecordsTyped ==
  /\ Outdated \in Shown /\ ~Outdated.current
  /\ Closed \in [open : BOOLEAN, shown : Shown] /\ ~Closed.open
  /\ Unused \in Applies
  BY NothingStaged DEF Outdated, Closed, Unused, Shown, Applies

(* The records that a fetch goes through.                                     *)
LEMMA FetchRecords ==
  /\ Idle \in Slot /\ Idle.got = NoView /\ Idle.stage = "idle"
  /\ Asked \in Slot /\ Asked.got = NoView /\ Asked.stage = "asked"
  /\ \A u \in BOOLEAN, d \in Registries :
       Served(u, d) \in Slot /\ Served(u, d).got = d /\ Served(u, d).stage = "served" /\ d # NoView
  BY ConsoleAssumption DEF Idle, Asked, Served, Slot

(* The page starts locked and empty.                                          *)
LEMMA InitTyped == Init => TypeOK /\ EditsHaveAView
<1> SUFFICES ASSUME Init PROVE TypeOK /\ EditsHaveAView
  OBVIOUS
<1>1. /\ mode = "readonly" /\ view = NoView /\ pending = Nothing /\ intent = Nothing
      /\ disk \in Registries /\ mem \in Registries /\ others \in Nat /\ overlapped \in BOOLEAN
  BY ConsoleAssumption DEF Init
<1>2. dialog \in [open : BOOLEAN, shown : Shown]
  BY RecordsTyped DEF Init
<1>3. calls \in [1..MaxCalls -> Applies]
  BY RecordsTyped DEF Init
<1>4. /\ fetches \in [Fetches -> Slot]
      /\ \A f \in Fetches : fetches[f].got # NoView <=> fetches[f].stage = "served"
  BY FetchRecords DEF Init
<1> QED
  BY <1>1, <1>2, <1>3, <1>4, NothingStaged DEF TypeOK, EditsHaveAView

(* A slot for a fetch is filled or emptied as its type has it.                 *)
LEMMA FetchTyped ==
  ASSUME TypeOK, NEW f \in Fetches, NEW r, Fetch(f, r),
         r \in Slot,
         r.got # NoView <=> r.stage = "served"
  PROVE  /\ fetches' \in [Fetches -> Slot]
         /\ \A g \in Fetches : fetches'[g].got # NoView <=> fetches'[g].stage = "served"
  BY DEF Fetch, TypeOK

(* Every step keeps the types, and a view for whatever is staged.              *)
LEMMA NextTyped == TypeOK /\ EditsHaveAView /\ [Next]_consoleVars => TypeOK' /\ EditsHaveAView'
<1> SUFFICES ASSUME TypeOK, EditsHaveAView, [Next]_consoleVars PROVE TypeOK' /\ EditsHaveAView'
  OBVIOUS
<1>1. CASE ToggleCell \/ RemoveClient \/ RemoveServer
  BY <1>1, StagingTyped DEF TypeOK, EditsHaveAView, daemon, UnderWay
<1>2. CASE Discard
  BY <1>2, NothingStaged DEF Discard, Emptied, TypeOK, EditsHaveAView, daemon
<1>3. CASE Lock
  <2>1. View(NoView)
    BY <1>3 DEF Lock
  <2> QED
    BY <1>3, <2>1, ViewTyped, NothingStaged DEF Lock, View, Emptied, TypeOK, EditsHaveAView, daemon
<1>4. CASE Unlock
  <2>1. PICK f \in Fetches : Fetch(f, Served(TRUE, mem))
    BY <1>4 DEF Unlock
  <2>2. /\ fetches' \in [Fetches -> Slot]
        /\ \A g \in Fetches : fetches'[g].got # NoView <=> fetches'[g].stage = "served"
    <3>1. mem \in Registries
      BY DEF TypeOK
    <3>2. \A u \in BOOLEAN : Served(u, mem) \in Slot /\ Served(u, mem).got # NoView /\ Served(u, mem).stage = "served"
      BY <3>1, FetchRecords
    <3> QED
      BY <2>1, <3>2, FetchTyped, FetchRecords
  <2> QED
    BY <1>4, <2>2 DEF Unlock, TypeOK, EditsHaveAView, daemon, page, history
<1>5. CASE OpenDialog
  <2>1. HumanDiff(view, pending) \subseteq Lines
    BY DiffTyped, NothingStaged DEF TypeOK, EditsHaveAView
  <2>2. dialog' \in [open : BOOLEAN, shown : Shown]
    BY <1>5, <2>1 DEF OpenDialog, Shown
  <2> QED
    BY <1>5, <2>2 DEF OpenDialog, TypeOK, EditsHaveAView, daemon, history
<1>6. CASE Cancel
  BY <1>6, RecordsTyped DEF Cancel, TypeOK, EditsHaveAView, daemon, history
<1>7. CASE Confirm
  <2>1. [Unused EXCEPT !.stage = "sent", !.patch = pending, !.shown = dialog.shown]
          \in Applies
    BY RecordsTyped DEF TypeOK, Applies
  <2> QED
    BY <1>7, <2>1, RecordsTyped DEF Confirm, TypeOK, EditsHaveAView, daemon, history
<1>8. CASE OtherApplies
  <2>1. disk' \in Registries /\ mem' \in Registries
    BY <1>8, MergedIsRegistry, ConsoleAssumption DEF OtherApplies, TypeOK
  <2> QED
    BY <1>8, <2>1 DEF OtherApplies, TypeOK, EditsHaveAView, page, history
<1>9. CASE Restart
  BY <1>9 DEF Restart, TypeOK, EditsHaveAView, page, history
<1>10. ASSUME NEW f \in Fetches, Refetch(f) PROVE TypeOK' /\ EditsHaveAView'
  <2>1. Fetch(f, Served(FALSE, mem)) \/ Fetch(f, Idle)
    BY <1>10 DEF Refetch
  <2>2. /\ fetches' \in [Fetches -> Slot]
        /\ \A g \in Fetches : fetches'[g].got # NoView <=> fetches'[g].stage = "served"
    <3>1. mem \in Registries
      BY DEF TypeOK
    <3>2. \A u \in BOOLEAN : Served(u, mem) \in Slot /\ Served(u, mem).got # NoView /\ Served(u, mem).stage = "served"
      BY <3>1, FetchRecords
    <3> QED
      BY <2>1, <3>2, FetchTyped, FetchRecords
  <2> QED
    BY <1>10, <2>2 DEF Refetch, TypeOK, EditsHaveAView, daemon, page, history
<1>11. ASSUME NEW f \in Fetches, Deliver(f) PROVE TypeOK' /\ EditsHaveAView'
  <2>1. View(fetches[f].got) /\ fetches[f].got \in Registries /\ fetches[f].got # NoView
    BY <1>11 DEF Deliver, TypeOK, Slot
  <2>2. /\ dialog' \in [open : BOOLEAN, shown : Shown]
        /\ calls' \in [1..MaxCalls -> Applies]
    BY <2>1, ViewTyped
  <2>3. /\ fetches' \in [Fetches -> Slot]
        /\ \A g \in Fetches : fetches'[g].got # NoView <=> fetches'[g].stage = "served"
    BY <1>11, FetchTyped, FetchRecords DEF Deliver
  <2>4. view' = fetches[f].got /\ mode' \in {mode, "management"} /\ UNCHANGED <<pending, daemon, history>>
    BY <1>11 DEF Deliver, View
  <2> QED
    BY <2>1, <2>2, <2>3, <2>4 DEF TypeOK, EditsHaveAView, daemon, history
<1>12. ASSUME NEW k \in 1..MaxCalls, Handle(k) PROVE TypeOK' /\ EditsHaveAView'
  <2>1. \E how \in {"applied", "reload_failed", "failure"} :
          calls' = [calls EXCEPT ![k] = [@ EXCEPT !.stage = "answered", !.answer = how, !.shown = Outdated]]
    BY <1>12 DEF Handle
  <2>2. disk' \in Registries /\ mem' \in Registries
    <3>1. Merge(disk, BuildPatch(calls[k].patch)) \in Registries
      BY MergedIsRegistry, BuiltIsPatch DEF TypeOK, Applies
    <3> QED
      BY <1>12, <3>1 DEF Handle, TypeOK
  <2>3. calls' \in [1..MaxCalls -> Applies]
    <3>1. \A how \in {"applied", "reload_failed", "failure"} :
            [calls[k] EXCEPT !.stage = "answered", !.answer = how, !.shown = Outdated] \in Applies
      BY RecordsTyped DEF TypeOK, Applies
    <3> QED
      BY <2>1, <3>1 DEF TypeOK
  <2> QED
    BY <1>12, <2>2, <2>3 DEF Handle, TypeOK, EditsHaveAView, page, history
<1>13. ASSUME NEW k \in 1..MaxCalls, Answered(k) PROVE TypeOK' /\ EditsHaveAView'
  <2>1. calls' \in [1..MaxCalls -> Applies]
    BY <1>13, RecordsTyped DEF Answered, Over, TypeOK, Applies
  <2>2. /\ fetches' \in [Fetches -> Slot]
        /\ \A g \in Fetches : fetches'[g].got # NoView <=> fetches'[g].stage = "served"
    BY <1>13, FetchTyped, FetchRecords DEF Answered, TypeOK
  <2> QED
    BY <1>13, <2>1, <2>2, NothingStaged DEF Answered, TypeOK, EditsHaveAView, daemon
<1>14. CASE UNCHANGED consoleVars
  BY <1>14 DEF consoleVars, TypeOK, EditsHaveAView, page, daemon, history
<1> QED
  BY <1>1, <1>2, <1>3, <1>4, <1>5, <1>6, <1>7, <1>8, <1>9, <1>10, <1>11, <1>12, <1>13, <1>14
     DEF Next, OperatorStep, TypeOK

(* Whatever arrives when, every variable keeps its type: state.registry and     *)
(* state.pending among them (ui.js:34-52).                                    *)
THEOREM Typing == Spec => []TypeOK
  BY InitTyped, NextTyped, PTL DEF Spec

(* Nothing is staged on a locked page or without a registry to show it         *)
(* against, whatever answers come in what order (ui.js:761-783, 844-853).       *)
THEOREM EditsAreShown == Spec => []EditsHaveAView
  BY InitTyped, NextTyped, PTL DEF Spec

-----------------------------------------------------------------------------
(* EditsLostOnlyInFlight.                                                    *)

(* Unless something was staged while an apply was under way, what is staged is  *)
(* what the operator wants, and what is under way was sent as it is staged.    *)
SentAsStaged ==
  ~overlapped =>
    /\ pending = intent
    /\ \A k \in 1..MaxCalls : calls[k].stage \in {"sent", "answered"} =>
         calls[k].patch = pending \/ pending = Nothing

(* A step that keeps the edits and sends none keeps this.                      *)
LEMMA EditsUntouched ==
  ASSUME SentAsStaged, UNCHANGED <<pending, history>>,
         \A k \in 1..MaxCalls : calls'[k].stage \in {"sent", "answered"} =>
           calls[k].stage \in {"sent", "answered"} /\ calls'[k].patch = calls[k].patch
  PROVE  SentAsStaged'
  BY DEF SentAsStaged, history

(* Every step keeps it: an answer that clears what is staged belongs to an      *)
(* apply that was sent with it.                                               *)
LEMMA NextSentAsStaged ==
  TypeOK /\ EditsHaveAView /\ SentAsStaged /\ [Next]_consoleVars => SentAsStaged'
<1> SUFFICES ASSUME TypeOK, EditsHaveAView, SentAsStaged, [Next]_consoleVars PROVE SentAsStaged'
  OBVIOUS
<1>1. CASE ToggleCell \/ RemoveClient \/ RemoveServer
  BY <1>1, StagingTyped DEF SentAsStaged, UnderWay
<1>2. CASE Discard
  BY <1>2 DEF Discard, Emptied, SentAsStaged
<1>3. CASE Lock
  BY <1>3 DEF Lock, Emptied, SentAsStaged
<1>4. CASE Unlock \/ OpenDialog \/ Cancel
  BY <1>4, EditsUntouched DEF Unlock, OpenDialog, Cancel, page
<1>5. CASE Confirm
  <2>1. PICK k \in 1..MaxCalls :
          calls' = [calls EXCEPT ![k] = [Unused EXCEPT !.stage = "sent", !.patch = pending, !.shown = dialog.shown]]
    BY <1>5 DEF Confirm
  <2>2. calls'[k].patch = pending /\ \A j \in 1..MaxCalls : j # k => calls'[j] = calls[j]
    BY <2>1 DEF TypeOK, Unused
  <2> QED
    BY <1>5, <2>2 DEF Confirm, SentAsStaged, history
<1>6. CASE OtherApplies \/ Restart
  BY <1>6, EditsUntouched DEF OtherApplies, Restart, page
<1>7. ASSUME NEW f \in Fetches, Refetch(f) PROVE SentAsStaged'
  BY <1>7, EditsUntouched DEF Refetch, page
<1>8. ASSUME NEW f \in Fetches, Deliver(f) PROVE SentAsStaged'
  <2>1. \A k \in 1..MaxCalls : calls'[k].stage = calls[k].stage /\ calls'[k].patch = calls[k].patch
    BY <1>8, ViewTyped DEF Deliver
  <2> QED
    BY <1>8, <2>1, EditsUntouched DEF Deliver
<1>9. ASSUME NEW k \in 1..MaxCalls, Handle(k) PROVE SentAsStaged'
  <2>1. /\ calls[k].stage = "sent"
        /\ \E how \in {"applied", "reload_failed", "failure"} :
             calls' = [calls EXCEPT ![k] = [@ EXCEPT !.stage = "answered", !.answer = how, !.shown = Outdated]]
    BY <1>9 DEF Handle
  <2>2. \A j \in 1..MaxCalls : calls'[j].patch = calls[j].patch /\ (j # k => calls'[j] = calls[j])
    BY <2>1 DEF TypeOK, Applies
  <2> QED
    BY <1>9, <2>1, <2>2, EditsUntouched DEF Handle, page
<1>10. ASSUME NEW k \in 1..MaxCalls, Answered(k) PROVE SentAsStaged'
  <2>1. /\ calls[k].stage = "answered" /\ calls'[k].stage = "over"
        /\ \A j \in 1..MaxCalls : j # k => calls'[j] = calls[j]
    BY <1>10 DEF Answered, Over, TypeOK, Unused
  <2>2. CASE UNCHANGED <<pending, intent>>
    BY <1>10, <2>1, <2>2, EditsUntouched DEF Answered, history
  <2>3. CASE pending' = Nothing /\ intent' = IF intent = calls[k].patch THEN Nothing ELSE intent
    BY <1>10, <2>1, <2>3 DEF Answered, SentAsStaged
  <2> QED
    BY <1>10, <2>2, <2>3 DEF Answered
<1>11. CASE UNCHANGED consoleVars
  BY <1>11, EditsUntouched DEF consoleVars, page
<1> QED
  BY <1>1, <1>2, <1>3, <1>4, <1>5, <1>6, <1>7, <1>8, <1>9, <1>10, <1>11 DEF Next, OperatorStep, TypeOK

(* An edit is lost only to Discard, to Lock, to the apply that sent it, or, if   *)
(* it was staged while an apply was under way, to that apply's success          *)
(* (ui.js:800-830).                                                          *)
THEOREM EditsAreKept == Spec => []EditsLostOnlyInFlight
<1>1. Init => SentAsStaged
  BY DEF Init, SentAsStaged, Unused
<1>2. SentAsStaged => EditsLostOnlyInFlight
  BY DEF SentAsStaged, EditsLostOnlyInFlight
<1> QED
  BY <1>1, <1>2, Typing, EditsAreShown, NextSentAsStaged, PTL DEF Spec

-----------------------------------------------------------------------------
(* NothingUnshown.                                                           *)

(* What a patch does to the registry that its diff was made against is in the    *)
(* diff, but for the cascade of a removal.                                     *)
LEMMA EffectIsInDiff ==
  ASSUME NEW d \in Registries, NEW p \in Stagings
  PROVE  \A l \in Effect(d, Merge(d, BuildPatch(p))) :
           l \in HumanDiff(d, p) \/ (l[1] = "lose" /\ <<"cut", l[3]>> \in HumanDiff(d, p))
<1> DEFINE b == BuildPatch(p)
           new == Merge(d, b)
<1>1. /\ DOMAIN b.clients = DOMAIN p.lists \ p.gone
      /\ \A c \in DOMAIN b.clients : b.clients[c] = p.lists[c]
      /\ b.nullClients = p.gone /\ b.nullServers = p.cut /\ b.put = {}
  BY DEF BuildPatch
<1>2. /\ DOMAIN new.allow = (DOMAIN d.allow \cup DOMAIN p.lists) \ p.gone
      /\ new.servers = d.servers \ p.cut
      /\ \A c \in DOMAIN new.allow : new.allow[c] = List(d, b, c) \ p.cut
  <2>1. /\ Listed(d) = DOMAIN d.allow /\ There(d) = d.servers
        /\ ~NoClients(d, b) /\ ~NoServers(d, b)
    BY AllSections
  <2> QED BY <1>1, <2>1 DEF Merge, Clients, Servers
<1>3. \A c \in DOMAIN new.allow :
        /\ c \in DOMAIN p.lists => new.allow[c] = p.lists[c] \ p.cut
        /\ c \notin DOMAIN p.lists => new.allow[c] = AllowedIn(d, c) \ p.cut
  BY <1>1, <1>2 DEF List, AllowedIn
<1> HIDE DEF new, b
<1> SUFFICES ASSUME NEW l \in Effect(d, new)
             PROVE  l \in HumanDiff(d, p) \/ (l[1] = "lose" /\ <<"cut", l[3]>> \in HumanDiff(d, p))
  BY DEF new, b
<1>4. ASSUME NEW c \in DOMAIN d.allow \ DOMAIN new.allow, l = <<"remove", c>> PROVE l \in HumanDiff(d, p)
  BY <1>2, <1>4 DEF HumanDiff
<1>5. ASSUME NEW s \in d.servers \ new.servers, l = <<"cut", s>> PROVE l \in HumanDiff(d, p)
  BY <1>2, <1>5 DEF HumanDiff
<1>6. ASSUME NEW c \in DOMAIN new.allow, NEW s \in new.allow[c] \ AllowedIn(d, c), l = <<"gain", c, s>>
      PROVE  l \in HumanDiff(d, p)
  <2>1. c \in DOMAIN p.lists \ p.gone /\ s \in p.lists[c] \ AllowedIn(d, c)
    BY <1>2, <1>3
  <2> QED
    BY <1>6, <2>1 DEF HumanDiff
<1>7. ASSUME NEW c \in DOMAIN new.allow, NEW s \in AllowedIn(d, c) \ new.allow[c], l = <<"lose", c, s>>
      PROVE  l \in HumanDiff(d, p) \/ <<"cut", s>> \in HumanDiff(d, p)
  <2>1. s \in p.cut \/ (c \in DOMAIN p.lists \ p.gone /\ s \in AllowedIn(d, c) \ p.lists[c])
    BY <1>2, <1>3
  <2> QED
    BY <1>7, <2>1 DEF HumanDiff
<1> QED
  BY <1>4, <1>5, <1>6, <1>7 DEF Effect

(* What was shown of an open dialog, and of an apply on its way, covers the diff *)
(* against the view, as long as the view is the one it was shown against.       *)
ShownCovers ==
  /\ dialog.open /\ dialog.shown.current => HumanDiff(view, pending) \subseteq dialog.shown.lines
  /\ \A k \in 1..MaxCalls : calls[k].stage = "sent" /\ calls[k].shown.current =>
       HumanDiff(view, calls[k].patch) \subseteq calls[k].shown.lines

(* Every step keeps it.                                                      *)
LEMMA NextShownCovers ==
  TypeOK /\ EditsHaveAView /\ ShownCovers /\ [Next]_consoleVars => ShownCovers'
<1> SUFFICES ASSUME TypeOK, EditsHaveAView, ShownCovers, [Next]_consoleVars PROVE ShownCovers'
  OBVIOUS
<1>1. CASE ToggleCell \/ RemoveClient \/ RemoveServer
  BY <1>1, StagingTyped DEF ShownCovers
<1>2. CASE Discard
  BY <1>2 DEF Discard, ShownCovers
<1>3. CASE Lock
  <2>1. View(NoView)
    BY <1>3 DEF Lock
  <2> QED
    BY <1>3, <2>1, ViewTyped DEF Lock, View, ShownCovers
<1>4. CASE Unlock
  BY <1>4 DEF Unlock, page, ShownCovers
<1>5. CASE OpenDialog
  BY <1>5 DEF OpenDialog, ShownCovers
<1>6. CASE Cancel
  BY <1>6 DEF Cancel, Closed, ShownCovers
<1>7. CASE Confirm
  <2>1. PICK k \in 1..MaxCalls :
          calls' = [calls EXCEPT ![k] = [Unused EXCEPT !.stage = "sent", !.patch = pending, !.shown = dialog.shown]]
    BY <1>7 DEF Confirm
  <2>2. /\ calls'[k].patch = pending /\ calls'[k].shown = dialog.shown
        /\ \A j \in 1..MaxCalls : j # k => calls'[j] = calls[j]
    BY <2>1 DEF TypeOK, Unused
  <2> QED
    BY <1>7, <2>2 DEF Confirm, Closed, ShownCovers
<1>8. CASE OtherApplies \/ Restart
  BY <1>8 DEF OtherApplies, Restart, page, ShownCovers
<1>9. ASSUME NEW f \in Fetches, Refetch(f) PROVE ShownCovers'
  BY <1>9 DEF Refetch, page, ShownCovers
<1>10. ASSUME NEW f \in Fetches, Deliver(f) PROVE ShownCovers'
  <2>1. View(fetches[f].got) /\ view' = fetches[f].got /\ UNCHANGED pending
    BY <1>10 DEF Deliver, View
  <2> QED
    BY <2>1, ViewTyped DEF ShownCovers
<1>11. ASSUME NEW k \in 1..MaxCalls, Handle(k) PROVE ShownCovers'
  <2>1. /\ calls'[k].stage = "answered"
        /\ \A j \in 1..MaxCalls : j # k => calls'[j] = calls[j]
    <3>1. \E how \in {"applied", "reload_failed", "failure"} :
            calls' = [calls EXCEPT ![k] = [@ EXCEPT !.stage = "answered", !.answer = how, !.shown = Outdated]]
      BY <1>11 DEF Handle
    <3> QED
      BY <3>1 DEF TypeOK, Applies
  <2> QED
    BY <1>11, <2>1 DEF Handle, page, ShownCovers
<1>12. ASSUME NEW k \in 1..MaxCalls, Answered(k) PROVE ShownCovers'
  <2>1. /\ calls'[k].stage = "over"
        /\ \A j \in 1..MaxCalls : j # k => calls'[j] = calls[j]
    BY <1>12 DEF Answered, Over, TypeOK, Unused
  <2>2. pending' = pending \/ pending' = Nothing
    BY <1>12 DEF Answered
  <2> QED
    BY <1>12, <2>1, <2>2, NothingStaged DEF Answered, ShownCovers
<1>13. CASE UNCHANGED consoleVars
  BY <1>13 DEF consoleVars, page, ShownCovers
<1> QED
  BY <1>1, <1>2, <1>3, <1>4, <1>5, <1>6, <1>7, <1>8, <1>9, <1>10, <1>11, <1>12, <1>13
     DEF Next, OperatorStep, TypeOK

(* Only the daemon's handling of an apply answers it.                          *)
LEMMA AnsweredByHandle ==
  ASSUME TypeOK, EditsHaveAView, [Next]_consoleVars,
         NEW k \in 1..MaxCalls, calls[k].stage = "sent", calls'[k].stage = "answered"
  PROVE  Handle(k)
<1>1. ASSUME ToggleCell \/ RemoveClient \/ RemoveServer PROVE FALSE
  BY <1>1, StagingTyped
<1>2. ASSUME Discard \/ Unlock \/ OpenDialog \/ Cancel \/ OtherApplies \/ Restart PROVE FALSE
  BY <1>2 DEF Discard, Unlock, OpenDialog, Cancel, OtherApplies, Restart
<1>3. ASSUME Lock \/ \E f \in Fetches : Deliver(f) PROVE FALSE
  BY <1>3, ViewTyped DEF Lock, Deliver
<1>4. ASSUME Confirm PROVE FALSE
  BY <1>4 DEF Confirm, Unused, TypeOK
<1>5. ASSUME NEW f \in Fetches, Refetch(f) PROVE FALSE
  BY <1>5 DEF Refetch
<1>6. ASSUME NEW j \in 1..MaxCalls, j # k, Handle(j) PROVE FALSE
  BY <1>6 DEF Handle, TypeOK
<1>7. ASSUME NEW j \in 1..MaxCalls, Answered(j) PROVE FALSE
  BY <1>7 DEF Answered, Over, Unused, TypeOK
<1>8. ASSUME UNCHANGED consoleVars PROVE FALSE
  BY <1>8 DEF consoleVars
<1> QED
  BY <1>1, <1>2, <1>3, <1>4, <1>5, <1>6, <1>7, <1>8 DEF Next, OperatorStep, TypeOK

(* A step that handles an apply writes nothing that was not shown.             *)
LEMMA NothingUnshownStep ==
  ASSUME TypeOK, EditsHaveAView, ShownCovers, [Next]_consoleVars, NEW k \in 1..MaxCalls,
         calls[k].stage = "sent", calls'[k].stage = "answered", calls[k].shown.current, view = disk
  PROVE  Unshown(calls[k].shown.lines, disk, disk') = {}
<1>1. calls[k].patch \in Stagings /\ disk \in Registries
  BY DEF TypeOK, Applies
<1>2. HumanDiff(disk, calls[k].patch) \subseteq calls[k].shown.lines
  BY DEF ShownCovers
<1>3. disk' = disk \/ disk' = Merge(disk, BuildPatch(calls[k].patch))
  BY AnsweredByHandle DEF Handle
<1>4. CASE disk' = disk
  <2>1. Effect(disk, disk) = {}
    BY DEF Effect, AllowedIn
  <2> QED
    BY <1>4, <2>1 DEF Unshown
<1>5. CASE disk' = Merge(disk, BuildPatch(calls[k].patch))
  BY <1>1, <1>2, <1>5, EffectIsInDiff DEF Unshown
<1> QED
  BY <1>3, <1>4, <1>5

(* With the file as the dialog's diff took it to be, an apply writes what the   *)
(* dialog showed, whatever was clicked and whatever arrived in between           *)
(* (ui.js:119-177, 687-720).                                                  *)
THEOREM NothingIsUnshown == Spec => NothingUnshown
<1>1. Init => ShownCovers
  BY DEF Init, Closed, Unused, ShownCovers
<1>2. TypeOK /\ EditsHaveAView /\ ShownCovers /\ [Next]_consoleVars =>
        [\A k \in DOMAIN calls :
           calls[k].stage = "sent" /\ calls'[k].stage = "answered" /\ calls[k].shown.current /\ view = disk
             => Unshown(calls[k].shown.lines, disk, disk') = {}]_consoleVars
  BY NothingUnshownStep DEF TypeOK
<1> QED
  BY <1>1, <1>2, Typing, EditsAreShown, NextShownCovers, PTL DEF Spec, NothingUnshown

-----------------------------------------------------------------------------
(* FileIsAtomic.                                                             *)

(* File's registries and patches are the page's.                              *)
LEMMA FileData ==
  /\ File!Registries = Registries
  /\ \A d : File!Valid(d) <=> Valid(d)
  /\ \A d, p : File!Merge(d, p) = Merge(d, p) /\ (File!Passes(d, p) <=> Passes(d, p))
<1>1. /\ File!Registries = Registries
      /\ \A d : File!Valid(d) <=> Valid(d)
      /\ \A d : File!Complete(d) <=> Complete(d)
  BY DEF File!Registries, Registries, File!Lists, Lists, File!Valid, Valid, File!Complete, Complete
<1>2. \A d, p : File!Merge(d, p) = Merge(d, p)
  BY DEF File!Merge, Merge, File!Clients, Clients, File!List, List, File!Servers, Servers,
         File!Setting, Setting, File!Listed, Listed, File!There, There,
         File!NoClients, NoClients, File!NoServers, NoServers
<1> QED
  BY <1>1, <1>2 DEF File!Passes, Passes

(* The daemon's handling of an apply, the page's or another's, is a step of the  *)
(* abstract registry; no other step touches the file.                         *)
LEMMA FileSteps == TypeOK /\ [Next]_consoleVars => [File!AtomicNext]_disk
<1> SUFFICES ASSUME TypeOK, [Next]_consoleVars PROVE [File!AtomicNext]_disk
  OBVIOUS
<1>1. ASSUME NEW k \in 1..MaxCalls, Handle(k) PROVE File!AtomicNext \/ UNCHANGED disk
  <2>1. BuildPatch(calls[k].patch) \in Patches
    BY BuiltIsPatch DEF TypeOK, Applies
  <2> QED
    BY <1>1, <2>1, FileData DEF Handle, File!AtomicNext, File!Applied
<1>2. CASE OtherApplies
  BY <1>2, FileData, ConsoleAssumption DEF OtherApplies, File!AtomicNext, File!Applied
<1>3. CASE OperatorStep \/ Restart
  BY <1>3 DEF OperatorStep, ToggleCell, RemoveClient, RemoveServer, Stage, Discard, Lock, Unlock,
     OpenDialog, Cancel, Confirm, Restart, daemon
<1>4. ASSUME NEW f \in Fetches, Refetch(f) \/ Deliver(f) PROVE UNCHANGED disk
  BY <1>4 DEF Refetch, Deliver, daemon
<1>5. ASSUME NEW k \in 1..MaxCalls, Answered(k) PROVE UNCHANGED disk
  BY <1>5 DEF Answered, daemon
<1>6. CASE UNCHANGED consoleVars
  BY <1>6 DEF consoleVars, daemon
<1> QED
  BY <1>1, <1>2, <1>3, <1>4, <1>5, <1>6 DEF Next, TypeOK

(* For any registries, patches and number of operators, the file the page talks *)
(* to goes through what AtomicRegistry allows and nothing else, which is what    *)
(* RegistryStoreProofs shows of the store (management.py:239-295).               *)
THEOREM FileKeepsContract == Spec => FileIsAtomic
<1>1. Init => File!AtomicInit
  BY FileData, ConsoleAssumption DEF Init, File!AtomicInit
<1> QED
  BY <1>1, Typing, FileSteps, PTL DEF Spec, FileIsAtomic, File!AtomicSpec
=============================================================================
