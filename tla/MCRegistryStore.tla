--------------------------- MODULE MCRegistryStore ---------------------------
EXTENDS RegistryStore, TLC

CONSTANTS h1, h2, c1, s1, t1, near, far

Original == [allow |-> c1 :> {s1}, servers |-> {s1}, token |-> t1, bound |-> near]
OneOriginal == {Original}

Empty == [clients |-> [k \in {} |-> {}], put |-> {}, nullClients |-> {}, nullServers |-> {},
          token |-> {}, bound |-> {}, kind |-> "sound"]

(* A client is given every server; a server is removed, the management token   *)
(* taken away and the daemon told to listen elsewhere; a whole registry is     *)
(* sent; one patch names a server and removes it; one is unsound and one       *)
(* malformed.                                                                *)
Grant     == [Empty EXCEPT !.clients = c1 :> ServerIds]
Retire    == [Empty EXCEPT !.nullServers = {s1}, !.token = {NoToken}, !.bound = {far}]
Rebuild   == [Empty EXCEPT !.clients = c1 :> {s1}, !.put = {s1}, !.token = {t1}, !.bound = {near}]
Both      == [Empty EXCEPT !.clients = c1 :> {s1}, !.nullServers = {s1}]
Unsound   == [Empty EXCEPT !.nullClients = {c1}, !.kind = "unsound"]
Malformed == [Empty EXCEPT !.kind = "malformed"]

Updates == {Grant, Retire, Rebuild}
AllKinds == Updates \cup {Both, Unsound, Malformed}
=============================================================================
