----------------------------- MODULE MCOngHome -----------------------------
(***************************************************************************)
(* For the stock: one profile without a photo; one document in two         *)
(* versions, or another one, so that additions, changes and removals       *)
(* happen alone and in pairs.  For the profile: two photos and an empty    *)
(* stock, whose snapshots touch neither the photo nor the loading flag.    *)
(***************************************************************************)
EXTENDS OngHome

MCIds == {1, 2}
MCConteudo == {"a", "b"}
MCVistas == {v \in Docs : v[1] # Ausente => v[2] = Ausente} \ {[Nenhum EXCEPT ![2] = "b"]}
MCPerfis == {[foto |-> SemFoto]}

Vazia == {Nenhum}
Perfis2 == {[foto |-> "f1"], [foto |-> "f2"]}
=============================================================================
