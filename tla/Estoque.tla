------------------------------ MODULE Estoque ------------------------------
(***************************************************************************)
(* What the shared stock of one NGO promises to everyone who uses it, with *)
(* devices, queues, retries and rejections abstracted away:                *)
(*   - a document is born once, with the content its form was saved with;  *)
(*   - only a document that exists is edited;                              *)
(*   - a document that was deleted comes back, if ever, with the content   *)
(*     it was born with, never through an edit.                            *)
(***************************************************************************)
CONSTANTS Ids, Conteudo, Ausente, Inicial

VARIABLES
    docs,      \* the collection ong/<idOng>/estoque
    nascidos,  \* ids that have ever been in the collection
    original   \* the content each of them was born with

vars == <<docs, nascidos, original>>

Init ==
    /\ docs = Inicial
    /\ nascidos = {k \in Ids : Inicial[k] # Ausente}
    /\ original = Inicial

Criar(k, c) ==
    /\ k \notin nascidos
    /\ docs' = [docs EXCEPT ![k] = c]
    /\ nascidos' = nascidos \cup {k}
    /\ original' = [original EXCEPT ![k] = c]

Atualizar(k, c) ==
    /\ docs[k] # Ausente
    /\ docs' = [docs EXCEPT ![k] = c]
    /\ UNCHANGED <<nascidos, original>>

Excluir(k) ==
    /\ docs' = [docs EXCEPT ![k] = Ausente]
    /\ UNCHANGED <<nascidos, original>>

Reviver(k) ==
    /\ k \in nascidos /\ docs[k] = Ausente
    /\ docs' = [docs EXCEPT ![k] = original[k]]
    /\ UNCHANGED <<nascidos, original>>

Next ==
    \E k \in Ids :
        \/ \E c \in Conteudo : Criar(k, c) \/ Atualizar(k, c)
        \/ Excluir(k)
        \/ Reviver(k)

Spec == Init /\ [][Next]_vars
=============================================================================
