---------------------------- MODULE RegistryData ----------------------------
(***************************************************************************)
(* The registry as data: what registry.yaml holds, what a patch does to it   *)
(* (_merge_patch in lmcp/management.py), which registries pass               *)
(* validate_registry_data and what load_registry (lmcp/config.py) makes of   *)
(* them. An entry keeps only what decides: a client its allow_servers, a     *)
(* server its being there, lmcp its management token and, as one value, the   *)
(* settings that take effect only at a start (_NON_RELOADABLE).              *)
(***************************************************************************)
EXTENDS FiniteSets

CONSTANTS
  ClientIds, ServerIds, Tokens,
  NoToken,      \* no management_token: management is disabled
  Settings,     \* values of host, port, audit_log and loopback_only together
  Defaults,     \* those that load_registry fills in
  Missing,      \* a section that the file does not have
  Broken        \* a file that does not parse, or is not there

Lists == SUBSET ServerIds

(* What a complete file holds: the clients, each with its list.              *)
Registries ==
  [allow : UNION {[C -> Lists] : C \in SUBSET ClientIds},
   servers : SUBSET ServerIds,
   token : Tokens \cup {NoToken},
   bound : Settings]

(* What a file that parses holds. The schema requires the three sections, and  *)
(* of lmcp the settings: a section is missing, too, that is null, and lmcp's     *)
(* settings are unless they are all there.                                     *)
Drafts ==
  [allow : {Missing} \cup UNION {[C -> Lists] : C \in SUBSET ClientIds},
   servers : {Missing} \cup SUBSET ServerIds,
   token : Tokens \cup {NoToken},
   bound : {Missing} \cup Settings]

(* An empty file, which YAML reads as nothing and _read_current_yaml as {}.     *)
Blank == [allow |-> Missing, servers |-> Missing, token |-> NoToken, bound |-> Missing]

(* A patch gives some clients a list and some servers an entry, has null for   *)
(* others, and has a management token unless token is {}, and settings unless  *)
(* bound is. It may also break the schema or a rule about a single entry       *)
(* ("unsound"), or not even have the shape that merging expects ("malformed"). *)
(* A patch whose clients or servers are {} is one with null for an absent id.   *)
Patches ==
  [clients : UNION {[C -> Lists] : C \in SUBSET ClientIds},
   put : SUBSET ServerIds,
   nullClients : SUBSET ClientIds,
   nullServers : SUBSET ServerIds,
   token : {{}} \cup {{t} : t \in Tokens \cup {NoToken}},
   bound : {{}} \cup {{v} : v \in Settings},
   kind : {"sound", "unsound", "malformed"}]

ASSUME DataAssumption ==
  /\ NoToken \notin Tokens
  /\ Defaults \in Settings
  /\ Missing \notin Settings
  /\ \A C \in SUBSET ClientIds : \A f \in [C -> Lists] : Missing # f
  /\ \A S \in SUBSET ServerIds : Missing # S
  /\ Broken \notin Drafts

-----------------------------------------------------------------------------
(* The entries of a section, none if it is missing.                           *)
Listed(d) == IF d.allow = Missing THEN {} ELSE DOMAIN d.allow
There(d) == IF d.servers = Missing THEN {} ELSE d.servers

Clients(d, patch) == (Listed(d) \cup DOMAIN patch.clients) \ patch.nullClients

List(d, patch, c) ==
  IF c \in DOMAIN patch.clients THEN patch.clients[c] ELSE d.allow[c]

Servers(d, patch) == (There(d) \cup patch.put) \ patch.nullServers

Setting(old, given) == IF given = {} THEN old ELSE CHOOSE v \in given : TRUE

(* A section that neither d nor the patch has is missing from the result, too.  *)
NoClients(d, patch) == d.allow = Missing /\ DOMAIN patch.clients \cup patch.nullClients = {}
NoServers(d, patch) == d.servers = Missing /\ patch.put \cup patch.nullServers = {}

(* Mutant: no cascade.                                                       *)
Merge_NoCascade(d, patch) ==
  [allow   |-> IF NoClients(d, patch) THEN Missing
               ELSE [c \in Clients(d, patch) |-> List(d, patch, c)],
   servers |-> IF NoServers(d, patch) THEN Missing ELSE Servers(d, patch),
   token   |-> Setting(d.token, patch.token),
   bound   |-> Setting(d.bound, patch.bound)]

(* What the patch names replaces or joins what d has, and what it has null    *)
(* for leaves; a server that leaves also leaves every list, the patch's own   *)
(* included.                                                                 *)
Merge(d, patch) ==
  [allow   |-> IF NoClients(d, patch) THEN Missing
               ELSE [c \in Clients(d, patch) |-> List(d, patch, c) \ patch.nullServers],
   servers |-> IF NoServers(d, patch) THEN Missing ELSE Servers(d, patch),
   token   |-> Setting(d.token, patch.token),
   bound   |-> Setting(d.bound, patch.bound)]

Complete(d) == d.allow # Missing /\ d.servers # Missing /\ d.bound # Missing

(* No client is allowed a server that is not there.                          *)
Valid(d) == \A c \in DOMAIN d.allow : d.allow[c] \subseteq d.servers

(* The schema and the rules are asked of the result alone: a patch that brings  *)
(* whatever the file lacks passes, on an empty file, too.                     *)
Passes(content, patch) ==
  /\ content # Broken /\ patch.kind = "sound"
  /\ Complete(Merge(content, patch)) /\ Valid(Merge(content, patch))

-----------------------------------------------------------------------------
(* What an interrupted write of d can leave: nothing, something that does not *)
(* parse, or a beginning that does. The sections come in the order of their    *)
(* names, clients, lmcp, servers. Of entries, the cut falls between two; one    *)
(* before the first leaves null. In lmcp, the token comes before the last of    *)
(* the settings, and that one may be cut short, which makes it another.        *)
Begun(entries) == {E \in SUBSET entries : E = {} => entries = {}}

InClients(d) ==
  IF d.allow = Missing THEN {}
  ELSE {[Blank EXCEPT !.allow = [c \in C |-> d.allow[c]]] : C \in Begun(DOMAIN d.allow)}

InLmcp(d) ==
  {[Blank EXCEPT !.allow = d.allow, !.token = t] : t \in {NoToken, d.token}} \cup
  (IF d.bound = Missing THEN {}
   ELSE {[d EXCEPT !.servers = Missing, !.bound = v] : v \in Settings})

InServers(d) ==
  IF d.servers = Missing THEN {d} ELSE {[d EXCEPT !.servers = S] : S \in Begun(d.servers)}

Torn(d) == {Blank, Broken} \cup InClients(d) \cup InLmcp(d) \cup InServers(d)

(* load_registry checks nothing and gives every missing section its default.  *)
Loaded(content) ==
  [allow   |-> IF content.allow = Missing THEN [c \in {} |-> {}] ELSE content.allow,
   servers |-> There(content),
   token   |-> content.token,
   bound   |-> IF content.bound = Missing THEN Defaults ELSE content.bound]
=============================================================================
