----------------------------- MODULE MCConsole -----------------------------
EXTENDS Console, TLC

CONSTANTS c1, s1, t1, near

(* One client that may use the one server.                                    *)
Start == [allow |-> c1 :> {s1}, servers |-> {s1}, token |-> t1, bound |-> near]

Empty == [clients |-> [k \in {} |-> {}], put |-> {}, nullClients |-> {}, nullServers |-> {},
          token |-> {}, bound |-> {}, kind |-> "sound"]

(* Somebody else removes the server, and with it the client's right to it.     *)
Elsewhere == {[Empty EXCEPT !.nullServers = {s1}]}

(* The slots are only told apart by what is in them.                          *)
Slots == Permutations(Fetches)
=============================================================================
