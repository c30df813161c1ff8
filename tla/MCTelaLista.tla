---------------------------- MODULE MCTelaLista ----------------------------
(***************************************************************************)
(* Two documents, two contents (one of them urgent): enough for a list     *)
(* with one right and one wrong element, for a removal and an addition in  *)
(* the same snapshot, and for both orders of the urgency sort.  Document 2 *)
(* is always urgent, and document 1 becomes urgent only beside it, which   *)
(* cuts the views to five without losing a kind of change.                 *)
(***************************************************************************)
EXTENDS TelaLista

MCIds == {1, 2}
MCConteudo == {"normal", "urgente"}
MCUrgentes == {"urgente"}
MCVistas ==
    {v \in [MCIds -> MCConteudo \cup {Ausente}] :
        /\ v[2] # "normal"
        /\ v[1] = "urgente" => v[2] = "urgente"}
=============================================================================
