--------------------------- MODULE MCPacketSubmit ---------------------------
(* One entry packet (a Genesis with a body, and an edge from it to a       *)
(* retained subject), a packet whose author the node does not trust, one   *)
(* whose event the rule refuses, and another writer.                       *)
EXTENDS PacketSubmit

CONSTANTS r1, r2, old, genesis, edge, alien, wrong, other, text,
          Entry, Alien, Wrong

MCEventsOf == (Entry :> <<genesis, edge>>) @@ (Alien :> <<alien>>)
              @@ (Wrong :> <<wrong>>)
AllEvents == {old, genesis, edge, alien, wrong, other}
MCBodyOf == [e \in AllEvents |-> IF e = genesis THEN {text} ELSE {}]
MCPast == [e \in AllEvents |->
             CASE e = edge -> {genesis, old}
               [] e \in {alien, wrong, other} -> {old}
               [] OTHER -> {}]

Permuted == Permutations(Runs)
=============================================================================
