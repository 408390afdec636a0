------------------------------ MODULE MCGateway -----------------------------
(***************************************************************************)
(* Small registries, upstreams and requests for TLC.                        *)
(***************************************************************************)
EXTENDS Gateway, TLC

CONSTANTS alice, bob, files, web, read, write, k1, k2, local, moved, slow, fast

MCCatalog == local :> {read, write} @@ moved :> {write}

Client(token, allowed, limitRpm) ==
  [token |-> token, allow_servers |-> allowed, rate_limit_rpm |-> limitRpm]

Server(mode, allowed, denied, transport, upstream) ==
  [tool_policy |-> [mode |-> mode, allow_tools |-> allowed, deny_tools |-> denied],
   transport |-> transport, upstream |-> upstream]

(* Before: alice holds k1 and may use nothing but `files`, limited by the    *)
(* global rpm.                                                               *)
Before ==
  [clients |-> alice :> Client(k1, {files}, NoRpm),
   servers |-> files :> Server("allow_all", {}, {write}, "http", local)
            @@ web   :> Server("allow_list", {read}, {}, "stdio", local),
   rpm |-> slow]

(* After: a new token, another server, a limit of her own, and `files` moved *)
(* elsewhere.                                                                *)
After ==
  [clients |-> alice :> Client(k2, {files, web}, fast),
   servers |-> files :> Server("allow_list", {write}, {}, "stdio", moved)
            @@ web   :> Server("allow_all", {}, {}, "other", local),
   rpm |-> NoRpm]

(* Cleared: alice and `files` are gone, bob has come without a token.        *)
Cleared ==
  [clients |-> bob :> Client(NoToken, {web}, NoRpm),
   servers |-> web :> Server("deny_all", {read}, {}, "stdio", local),
   rpm |-> NoRpm]

(* Moved: Before, with another limit and `files` moved elsewhere.            *)
Moved ==
  [clients |-> alice :> Client(k1, {files}, fast),
   servers |-> files :> Server("allow_all", {}, {}, "stdio", moved),
   rpm |-> slow]

Name(server, tool) == [server |-> server, tool |-> tool]
Ask(method, client, token, name) ==
  [token |-> token, method |-> method, name |-> name, client_id |-> client]

Files == {Before, After, Cleared}
Relocation == {Before, Moved}

Calls == {Ask("tools/call", alice, k1, Name(files, read)),
          Ask("tools/call", alice, k1, Name(files, write)),
          Ask("tools/call", alice, k2, Name(files, write)),
          Ask("tools/call", alice, k2, Name(web, read)),
          Ask("tools/call", alice, k1, Name(web, read)),
          Ask("tools/call", alice, k1, NoName)}
Lists == {Ask("tools/list", alice, t, NoName) : t \in {k1, k2}}
Others == {Ask("other", alice, k1, NoName), Ask("initialize", alice, k2, NoName),
           Ask("tools/list", NoId, k1, NoName), Ask("tools/list", alice, NoToken, NoName),
           Ask("auth-check", bob, k2, NoName), Ask("auth-check", alice, k2, NoName),
           Ask("server-check", alice, k1, Name(web, read))}

AnyRequest == Calls \cup Lists \cup Others
OneList == {Ask("tools/list", alice, k1, NoName)}
OnePing == {Ask("initialize", alice, k1, NoName)}

(* Threads are compared with one another and nothing else.                   *)
ThreadSymmetry == Permutations(Handlers) \cup Permutations(Operators)
=============================================================================
