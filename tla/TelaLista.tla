----------------------------- MODULE TelaLista -----------------------------
(***************************************************************************)
(* The needs list of one NGO as kept by TelaListaViewModel.                *)
(*                                                                         *)
(* `items` has two writers, both on the main thread: the snapshot listener *)
(* registered by init (it applies the changes of each view Firestore       *)
(* publishes) and fetchItems (it replaces the whole array with the result  *)
(* of a one-shot read).  The callbacks of both are delivered through the   *)
(* FIFO main queue, and the result of a read takes a second turn through   *)
(* that queue (DispatchQueue.main.async) before it is stored.              *)
(*                                                                         *)
(* Firestore itself is external: it owns the device's view of the          *)
(* collection, publishes every new view to the listener, answers reads     *)
(* from that same view and drops a listener after an error.                *)
(***************************************************************************)
EXTENDS Lista, FiniteSets

CONSTANTS
    Urgentes,     \* the contents whose field urgente is true
    Vistas,       \* the views of the collection Firestore may publish
    MaxFila,      \* bound on the main queue
    MaxPedidos    \* bound on outstanding reads

ASSUME TelaListaAssumption ==
    /\ Ids \subseteq Nat
    /\ IsFiniteSet(Ids)
    /\ Urgentes \subseteq Conteudo
    /\ Ausente \notin Conteudo
    /\ Vistas \subseteq [Ids -> Conteudo \cup {Ausente}]
    /\ MaxFila \in Nat
    /\ MaxPedidos \in Nat

VARIABLES
    colecao,   \* the device's current view of ong/<idOng>/estoque
    fila,      \* main queue: callbacks waiting to run
    visto,     \* documents according to the changes the listener has applied
    alvo,      \* documents of the snapshot whose changes are being applied
    items,     \* TelaListaViewModel.items
    pedidos,   \* reads issued by fetchItems and not yet answered
    ouvindo,   \* Firestore still holds the listener
    caiu,      \* the process died on a force unwrap
    divergiu   \* history: the last fetch stored differed from `visto`

vars == <<colecao, fila, visto, alvo, items, pedidos, ouvindo, caiu, divergiu>>

----------------------------------------------------------------------------
(* Data *)

Evento == [tipo : {"snapshot", "erro", "getItems", "aplicar"}, docs : Docs]
Ev(tipo, docs) == [tipo |-> tipo, docs |-> docs]

\* items.sort { $0.urgente && !$1.urgente }
UrgentesNaFrente(s) ==
    \A i, j \in 1..Len(s) :
        s[i].dados \notin Urgentes /\ s[j].dados \in Urgentes => j < i

\* The arrays that fetchItems may store for the result p: Swift's sort does
\* not promise the order of two items that compare equal.
ListasDe(p) ==
    {s \in UNION {[1..n -> Item] : n \in 0..Cardinality(Ids)} :
        Enumera(s, p) /\ UrgentesNaFrente(s)}

----------------------------------------------------------------------------
Init ==
    /\ colecao = Nenhum
    /\ fila = <<>>
    /\ visto = Nenhum
    /\ alvo = Nenhum
    /\ items = <<>>
    /\ pedidos = 0
    /\ ouvindo = TRUE
    /\ caiu = FALSE
    /\ divergiu = FALSE

(***************************************************************************)
(* Firestore (external).                                                   *)
(***************************************************************************)

\* The view changes (a local write, a write of another device, a rejected
\* write being undone) and every change is raised to the listener at once.
Publicar(nova) ==
    /\ ~caiu /\ ouvindo
    /\ nova # colecao
    /\ Len(fila) < MaxFila
    /\ colecao' = nova
    /\ fila' = Append(fila, Ev("snapshot", nova))
    /\ UNCHANGED <<visto, alvo, items, pedidos, ouvindo, caiu, divergiu>>

\* The collection changes when the listener is gone.
MudarSemOuvinte(nova) ==
    /\ ~caiu /\ ~ouvindo
    /\ nova # colecao
    /\ colecao' = nova
    /\ UNCHANGED <<fila, visto, alvo, items, pedidos, ouvindo, caiu, divergiu>>

\* The listen is refused: the listener is erased and told once.
RecusarListener ==
    /\ ~caiu /\ ouvindo
    /\ Len(fila) < MaxFila
    /\ ouvindo' = FALSE
    /\ fila' = Append(fila, Ev("erro", colecao))
    /\ UNCHANGED <<colecao, visto, alvo, items, pedidos, caiu, divergiu>>

\* getDocuments is answered from the view the listener shares.
ResponderGet ==
    /\ ~caiu /\ pedidos > 0
    /\ Len(fila) < MaxFila
    /\ pedidos' = pedidos - 1
    /\ fila' = Append(fila, Ev("getItems", colecao))
    /\ UNCHANGED <<colecao, visto, alvo, items, ouvindo, caiu, divergiu>>

\* Mutant: a read completes twice.
FalharGetRepetido ==
    /\ ~caiu /\ pedidos' = pedidos - 1
    /\ UNCHANGED <<colecao, fila, visto, alvo, items, ouvindo, caiu, divergiu>>

\* The read or the decoding of one document fails: fetchItems only logs.
FalharGet ==
    /\ ~caiu /\ pedidos > 0
    /\ pedidos' = pedidos - 1
    /\ UNCHANGED <<colecao, fila, visto, alvo, items, ouvindo, caiu, divergiu>>

(***************************************************************************)
(* The main thread.  It runs one callback to completion before it takes    *)
(* the next one; it is inside the loop over documentChanges while some     *)
(* change between `visto` and `alvo` is still to be applied.               *)
(***************************************************************************)
Livre == visto = alvo

\* TelaListaView: onChange(of: voltouTela) -> atualizar -> fetchItems.
atualizar ==
    /\ ~caiu /\ Livre
    /\ pedidos < MaxPedidos
    /\ pedidos' = pedidos + 1
    /\ UNCHANGED <<colecao, fila, visto, alvo, items, ouvindo, caiu, divergiu>>

Despachar(tipo) ==
    /\ ~caiu /\ Livre
    /\ fila # <<>>
    /\ Head(fila).tipo = tipo

\* The listener enters its loop over snap.documentChanges.
ReceberSnapshot ==
    /\ Despachar("snapshot")
    /\ alvo' = Head(fila).docs
    /\ fila' = Tail(fila)
    /\ UNCHANGED <<colecao, visto, items, pedidos, ouvindo, caiu, divergiu>>

\* guard let snap = snap_ else { return }
ReceberErro ==
    /\ Despachar("erro")
    /\ fila' = Tail(fila)
    /\ UNCHANGED <<colecao, visto, alvo, items, pedidos, ouvindo, caiu, divergiu>>

\* The completion of getItems queues the store of the result.
ReceberItems ==
    /\ Despachar("getItems")
    /\ fila' = Append(Tail(fila), Ev("aplicar", Head(fila).docs))
    /\ UNCHANGED <<colecao, visto, alvo, items, pedidos, ouvindo, caiu, divergiu>>

\* Mutant: the result is appended to the list instead of replacing it.
AplicarItemsSomando ==
    /\ Despachar("aplicar")
    /\ \E s \in ListasDe(Head(fila).docs) : items' = items \o s
    /\ divergiu' = (Head(fila).docs # visto)
    /\ fila' = Tail(fila)
    /\ UNCHANGED <<colecao, visto, alvo, pedidos, ouvindo, caiu>>

\* self?.items = items; self?.items.sort { ... }
AplicarItems ==
    /\ Despachar("aplicar")
    /\ items' \in ListasDe(Head(fila).docs)
    /\ divergiu' = (Head(fila).docs # visto)
    /\ fila' = Tail(fila)
    /\ UNCHANGED <<colecao, visto, alvo, pedidos, ouvindo, caiu>>

\* The changes of the current snapshot not applied yet.  Firestore lists
\* them removed first, then added, then modified, each group in key order.
Removidos == {k \in Ids : visto[k] # Ausente /\ alvo[k] = Ausente}
Adicionados == {k \in Ids : visto[k] = Ausente /\ alvo[k] # Ausente}
Modificados ==
    {k \in Ids : visto[k] # Ausente /\ alvo[k] # Ausente /\ visto[k] # alvo[k]}

\* Mutant: a removed document stays on the list.
RemoverItemNunca(k) == UNCHANGED <<items, caiu>>

\* The effect of one .removed change: firstIndex(where:)! or a crash.
RemoverItem(k) ==
    IF Posicoes(items, k) = {}
    THEN caiu' = TRUE /\ UNCHANGED items
    ELSE /\ \E i \in Posicoes(items, k) :
              /\ \A j \in Posicoes(items, k) : i <= j
              /\ items' = SemPosicao(items, i)
         /\ UNCHANGED caiu

TratarRemoved ==
    \E k \in Ids :
        /\ ~caiu /\ MenorDe(k, Removidos)
        /\ RemoverItem(k)
        /\ visto' = [visto EXCEPT ![k] = Ausente]
        /\ UNCHANGED <<colecao, fila, alvo, pedidos, ouvindo, divergiu>>

\* Mutant: additions are taken only into an empty list.
TratarAddedSoVazia ==
    \E k \in Ids :
        /\ ~caiu /\ Removidos = {} /\ MenorDe(k, Adicionados)
        /\ items' = IF items = <<>> THEN <<[id |-> k, dados |-> alvo[k]]>> ELSE items
        /\ visto' = [visto EXCEPT ![k] = alvo[k]]
        /\ UNCHANGED <<colecao, fila, alvo, pedidos, ouvindo, caiu, divergiu>>

TratarAdded ==
    \E k \in Ids :
        /\ ~caiu /\ Removidos = {} /\ MenorDe(k, Adicionados)
        /\ items' = Append(items, [id |-> k, dados |-> alvo[k]])
        /\ visto' = [visto EXCEPT ![k] = alvo[k]]
        /\ UNCHANGED <<colecao, fila, alvo, pedidos, ouvindo, caiu, divergiu>>

\* Mutant: a modified document is appended again.
TratarModifiedSomando ==
    \E k \in Ids :
        /\ ~caiu /\ Removidos = {} /\ Adicionados = {} /\ MenorDe(k, Modificados)
        /\ items' = Append(items, [id |-> k, dados |-> alvo[k]])
        /\ visto' = [visto EXCEPT ![k] = alvo[k]]
        /\ UNCHANGED <<colecao, fila, alvo, pedidos, ouvindo, caiu, divergiu>>

\* Every element with that id takes the new fields; it keeps its place.
TratarModified ==
    \E k \in Ids :
        /\ ~caiu /\ Removidos = {} /\ Adicionados = {} /\ MenorDe(k, Modificados)
        /\ items' = [i \in 1..Len(items) |->
                        IF items[i].id = k THEN [id |-> k, dados |-> alvo[k]]
                                           ELSE items[i]]
        /\ visto' = [visto EXCEPT ![k] = alvo[k]]
        /\ UNCHANGED <<colecao, fila, alvo, pedidos, ouvindo, caiu, divergiu>>

Firestore ==
    \/ \E nova \in Vistas : Publicar(nova) \/ MudarSemOuvinte(nova)
    \/ RecusarListener
    \/ ResponderGet
    \/ FalharGet

Principal ==
    \/ ReceberSnapshot \/ ReceberErro \/ ReceberItems \/ AplicarItems
    \/ TratarRemoved \/ TratarAdded \/ TratarModified

Next == Firestore \/ atualizar \/ Principal

Spec == Init /\ [][Next]_vars

\* The run loop of the main thread never stops while the process lives.
FairSpec == Spec /\ WF_vars(Principal)

----------------------------------------------------------------------------
(* Properties *)

TypeOK ==
    /\ colecao \in Docs
    /\ fila \in Seq(Evento)
    /\ visto \in Docs
    /\ alvo \in Docs
    /\ items \in Seq(Item)
    /\ pedidos \in Nat
    /\ ouvindo \in BOOLEAN
    /\ caiu \in BOOLEAN
    /\ divergiu \in BOOLEAN

SemSnapshot(q) == \A i \in 1..Len(q) : q[i].tipo # "snapshot"
UltimoSnapshot(q, i) ==
    q[i].tipo = "snapshot" /\ \A j \in (i + 1)..Len(q) : q[j].tipo # "snapshot"

\* The last snapshot waiting in the queue is the current view; when none is
\* waiting, the listener is working on (or has finished) the current view.
FilaAteColecao ==
    ouvindo =>
        /\ \A i \in 1..Len(fila) : UltimoSnapshot(fila, i) => fila[i].docs = colecao
        /\ SemSnapshot(fila) => alvo = colecao

\* Whatever order snapshots, reads and their second turn through the main
\* queue take, the list shows every document the listener has been told of
\* exactly once, with its last fields, unless the last fetch stored was out
\* of date (TelaListaViewModel.swift, listener and fetchItems).
ListaFiel == ~divergiu => Enumera(items, visto)

\* With nothing left to run and the listener alive, the list is the
\* collection, unless the last fetch stored was out of date.
EspelhaColecao ==
    fila = <<>> /\ Livre /\ ouvindo /\ ~divergiu => Enumera(items, colecao)

\* The force unwrap of firstIndex(where:) fails only when an out-of-date
\* fetch replaced the list after the snapshot that added the item.
QuedaSoSeDivergiu == caiu => divergiu

\* Every document published as absent leaves the list, and every document
\* published as present enters it, unless the view changes again first, the
\* listener is lost, or an out-of-date fetch interferes.
PublicacaoChega ==
    \A k \in Ids :
        /\ (ouvindo /\ colecao[k] = Ausente) ~>
              (caiu \/ divergiu \/ Posicoes(items, k) = {})
        /\ (ouvindo /\ colecao[k] # Ausente) ~>
              (caiu \/ divergiu \/ Posicoes(items, k) # {})

\* `firstIndex(where:)!` (TelaListaViewModel.swift:142-144) asserts that a
\* removed document is always in the list.
SemQueda == ~caiu

=============================================================================
