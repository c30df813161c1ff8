------------------------------- MODULE Lista -------------------------------
(***************************************************************************)
(* The array of Item that TelaListaViewModel and SobreOngGeralViewModel    *)
(* keep, and the view of the collection it is meant to show.               *)
(***************************************************************************)
EXTENDS Integers, Sequences

CONSTANTS
    Ids,          \* document ids, ordered as Firestore orders keys
    Conteudo,     \* the fields of an item (nome, categoria, quantidade, ...)
    Ausente       \* "no document with this id"

Item == [id : Ids, dados : Conteudo]
Docs == [Ids -> Conteudo \cup {Ausente}]
Nenhum == [k \in Ids |-> Ausente]

\* The positions at which the list holds the document k.
Posicoes(s, k) == {i \in 1..Len(s) : s[i].id = k}

\* s lists every document of p exactly once, with its current fields.
Enumera(s, p) ==
    /\ \A i \in 1..Len(s) : p[s[i].id] = s[i].dados
    /\ \A i, j \in 1..Len(s) : s[i].id = s[j].id => i = j
    /\ \A k \in Ids : p[k] # Ausente => \E i \in 1..Len(s) : s[i].id = k

\* items.remove(at: i)
SemPosicao(s, i) == [j \in 1..(Len(s) - 1) |-> IF j < i THEN s[j] ELSE s[j + 1]]

MenorDe(k, S) == k \in S /\ \A j \in S : k <= j
=============================================================================
