------------------------------ MODULE MCRotulo ------------------------------
(***************************************************************************)
(* A donor's screens over nine stocks of up to four items: each            *)
(* category, urgent and not, one hidden, two names of which the search     *)
(* finds one.                                                              *)
(* Two dates are stored after the list's first; two reads may overlap, and *)
(* the home screen publishes two changes.                                  *)
(***************************************************************************)
EXTENDS Rotulo

Um(id, nome, categoria, urgente, visivel) ==
    [id |-> id, nome |-> nome, categoria |-> categoria, urgente |-> urgente,
     visivel |-> visivel]

Arroz == Um(1, "n1", "Alimento", TRUE, TRUE)
Sabonete == Um(2, "n2", "Higiene", FALSE, FALSE)
Vassoura == Um(3, "n1", "Limpeza", FALSE, TRUE)
Remedio == Um(4, "n2", "Medicamento", TRUE, TRUE)
Panela == Um(5, "n1", Acentuado, FALSE, TRUE)
Feijao == Um(6, "n2", "Alimento", FALSE, TRUE)

Alguns == {Arroz, Sabonete, Panela}

MCEstoques ==
    {s \in UNION {[1..n -> Alguns] : n \in 0..2} :
        \A i, j \in 1..Len(s) : i < j => s[i].id < s[j].id}
      \cup {<<Remedio, Panela, Feijao>>, <<Arroz, Sabonete, Vassoura, Remedio>>}

MCIds == 1..6
MCNomes == {"n1", "n2"}
MCPesquisas == {"", "n1"}
MCContem == {<<"n1", "n1">>}
=============================================================================
