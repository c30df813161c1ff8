-------------------------- MODULE TelaListaProofs --------------------------
(***************************************************************************)
(* Proofs about TelaLista, for any set of documents and contents, any      *)
(* length of the main queue and any number of outstanding reads.           *)
(***************************************************************************)
EXTENDS TelaLista, SequenceTheorems, FiniteSetTheorems, TLAPS

----------------------------------------------------------------------------
(* Lemmas about the list *)

\* An array of 1..n items is a sequence of items.
LEMMA ListasDeTipo ==
    ASSUME NEW p, NEW s \in ListasDe(p)
    PROVE  s \in Seq(Item)
  <1>1. Cardinality(Ids) \in Nat
    BY FS_CardinalityType, TelaListaAssumption
  <1>2. PICK n \in 0..Cardinality(Ids) : s \in [1..n -> Item]
    BY DEF ListasDe
  <1>3. n \in Nat
    BY <1>1, <1>2
  <1> QED
    BY <1>2, <1>3

\* Removing one position keeps the other elements, in order.
LEMMA SemPosicaoTipo ==
    ASSUME NEW s \in Seq(Item), NEW i \in 1..Len(s)
    PROVE  /\ SemPosicao(s, i) \in Seq(Item)
           /\ Len(SemPosicao(s, i)) = Len(s) - 1
           /\ \A j \in 1..(Len(s) - 1) :
                SemPosicao(s, i)[j] = IF j < i THEN s[j] ELSE s[j + 1]
  <1>1. Len(s) \in Nat /\ Len(s) >= 1 /\ i \in Nat
    OBVIOUS
  <1>2. \A j \in 1..(Len(s) - 1) : s[j] \in Item /\ s[j + 1] \in Item
    <2> TAKE j \in 1..(Len(s) - 1)
    <2>1. j \in 1..Len(s) /\ (j + 1) \in 1..Len(s)
      BY <1>1
    <2> QED
      BY <2>1, ElementOfSeq
  <1>3. SemPosicao(s, i) \in [1..(Len(s) - 1) -> Item]
    BY <1>2 DEF SemPosicao
  <1>4. Len(s) - 1 \in Nat
    BY <1>1
  <1> QED
    BY <1>3, <1>4 DEF SemPosicao

\* A list that enumerates p, without the element for k, enumerates p
\* without k.
LEMMA EnumeraRemovido ==
    ASSUME NEW s \in Seq(Item), NEW p \in Docs, NEW k \in Ids,
           Enumera(s, p), NEW i \in 1..Len(s), s[i].id = k
    PROVE  Enumera(SemPosicao(s, i), [p EXCEPT ![k] = Ausente])
  <1> DEFINE t == SemPosicao(s, i)
             q == [p EXCEPT ![k] = Ausente]
  <1>1. /\ t \in Seq(Item) /\ Len(t) = Len(s) - 1 /\ Len(s) \in Nat
        /\ \A j \in 1..Len(t) : t[j] = IF j < i THEN s[j] ELSE s[j + 1]
    BY SemPosicaoTipo
  <1>2. \A j \in 1..Len(t) : \E m \in 1..Len(s) :
            /\ m # i /\ t[j] = s[m] /\ m = IF j < i THEN j ELSE j + 1
    BY <1>1
  <1>3. \A m \in 1..Len(s) : s[m] \in Item
    BY ElementOfSeq
  <1>4. ASSUME NEW j \in 1..Len(t) PROVE q[t[j].id] = t[j].dados
    <2>1. PICK m \in 1..Len(s) : m # i /\ t[j] = s[m]
      BY <1>2
    <2>2. s[m].id # k /\ p[s[m].id] = s[m].dados /\ s[m].id \in Ids
      BY <2>1, <1>3 DEF Enumera, Item
    <2> QED
      BY <2>1, <2>2 DEF Docs
  <1>5. ASSUME NEW a \in 1..Len(t), NEW b \in 1..Len(t), t[a].id = t[b].id
        PROVE  a = b
    <2>1. PICK m \in 1..Len(s) : t[a] = s[m] /\ m = IF a < i THEN a ELSE a + 1
      BY <1>2
    <2>2. PICK n \in 1..Len(s) : t[b] = s[n] /\ n = IF b < i THEN b ELSE b + 1
      BY <1>2
    <2>3. m = n
      BY <2>1, <2>2, <1>5 DEF Enumera
    <2> QED
      BY <2>1, <2>2, <2>3, <1>1
  <1>6. ASSUME NEW d \in Ids, q[d] # Ausente
        PROVE  \E j \in 1..Len(t) : t[j].id = d
    <2>1. d # k /\ p[d] # Ausente
      BY <1>6 DEF Docs
    <2>2. PICK m \in 1..Len(s) : s[m].id = d
      BY <2>1 DEF Enumera
    <2>3. m # i
      BY <2>1, <2>2
    <2>4. CASE m < i
      <3>1. m \in 1..Len(t)
        BY <2>4, <1>1
      <3> QED
        BY <3>1, <2>4, <2>2, <1>1
    <2>5. CASE m > i
      <3>1. (m - 1) \in 1..Len(t) /\ ~(m - 1 < i) /\ (m - 1) + 1 = m
        BY <2>5, <1>1
      <3>2. t[m - 1] = s[m]
        BY <3>1, <1>1
      <3> QED
        BY <3>1, <3>2, <2>2
    <2> QED
      BY <2>3, <2>4, <2>5
  <1> HIDE DEF t, q
  <1>7. Enumera(t, q)
    BY <1>4, <1>5, <1>6 DEF Enumera
  <1> QED
    BY <1>7 DEF t, q

\* Appending a document that p does not have.
LEMMA EnumeraAdicionado ==
    ASSUME NEW s \in Seq(Item), NEW p \in Docs, NEW k \in Ids, NEW c \in Conteudo,
           Enumera(s, p), p[k] = Ausente
    PROVE  Enumera(Append(s, [id |-> k, dados |-> c]), [p EXCEPT ![k] = c])
  <1> DEFINE e == [id |-> k, dados |-> c]
             t == Append(s, e)
             q == [p EXCEPT ![k] = c]
  <1>1. /\ Len(t) = Len(s) + 1 /\ Len(s) \in Nat
        /\ t[Len(t)] = e /\ \A j \in 1..Len(s) : t[j] = s[j]
    OBVIOUS
  <1>2. \A m \in 1..Len(s) : s[m] \in Item
    BY ElementOfSeq
  <1>3. \A m \in 1..Len(s) : s[m].id # k /\ s[m].id \in Ids
    BY <1>2, TelaListaAssumption DEF Enumera, Item
  <1>4. \A j \in 1..Len(t) : j \in 1..Len(s) \/ j = Len(t)
    BY <1>1
  <1>5. ASSUME NEW j \in 1..Len(t) PROVE q[t[j].id] = t[j].dados
    BY <1>1, <1>3, <1>4 DEF Enumera, Docs
  <1>6. ASSUME NEW a \in 1..Len(t), NEW b \in 1..Len(t), t[a].id = t[b].id
        PROVE  a = b
    BY <1>1, <1>3, <1>4, <1>6 DEF Enumera
  <1>7. ASSUME NEW d \in Ids, q[d] # Ausente
        PROVE  \E j \in 1..Len(t) : t[j].id = d
    <2>1. CASE d = k
      <3>1. Len(t) \in 1..Len(t) /\ t[Len(t)].id = k
        BY <1>1
      <3> QED
        BY <2>1, <3>1
    <2>2. CASE d # k
      <3>1. PICK m \in 1..Len(s) : s[m].id = d
        BY <2>2, <1>7 DEF Enumera, Docs
      <3>2. m \in 1..Len(t) /\ t[m] = s[m]
        BY <1>1
      <3> QED
        BY <3>1, <3>2
    <2> QED
      BY <2>1, <2>2
  <1> HIDE DEF t, q
  <1>8. Enumera(t, q)
    BY <1>5, <1>6, <1>7 DEF Enumera
  <1> QED
    BY <1>8 DEF t, q

\* Replacing the fields of a document that p has.
LEMMA EnumeraModificado ==
    ASSUME NEW s \in Seq(Item), NEW p \in Docs, NEW k \in Ids, NEW c \in Conteudo,
           Enumera(s, p), p[k] # Ausente
    PROVE  Enumera([i \in 1..Len(s) |->
                       IF s[i].id = k THEN [id |-> k, dados |-> c] ELSE s[i]],
                   [p EXCEPT ![k] = c])
  <1> DEFINE t == [i \in 1..Len(s) |->
                       IF s[i].id = k THEN [id |-> k, dados |-> c] ELSE s[i]]
             q == [p EXCEPT ![k] = c]
  <1>1. Len(s) \in Nat /\ \A m \in 1..Len(s) : s[m] \in Item
    BY ElementOfSeq
  <1>2. Len(t) = Len(s) /\ \A m \in 1..Len(s) : t[m].id = s[m].id
    BY <1>1
  <1>3. ASSUME NEW j \in 1..Len(t) PROVE q[t[j].id] = t[j].dados
    <2>1. s[j].id \in Ids
      BY <1>1, <1>2 DEF Item
    <2> QED
      BY <2>1, <1>2 DEF Enumera, Docs
  <1>4. ASSUME NEW a \in 1..Len(t), NEW b \in 1..Len(t), t[a].id = t[b].id
        PROVE  a = b
    BY <1>2, <1>4 DEF Enumera
  <1>5. ASSUME NEW d \in Ids, q[d] # Ausente
        PROVE  \E j \in 1..Len(t) : t[j].id = d
    <2>1. p[d] # Ausente
      BY <1>5 DEF Docs
    <2> QED
      BY <2>1, <1>2 DEF Enumera
  <1> HIDE DEF t, q
  <1>6. Enumera(t, q)
    BY <1>3, <1>4, <1>5 DEF Enumera
  <1> QED
    BY <1>6 DEF t, q

----------------------------------------------------------------------------
(* Type correctness *)

LEMMA EvTipo ==
    ASSUME NEW d \in Docs,
           NEW t \in {"snapshot", "erro", "getItems", "aplicar"}
    PROVE  Ev(t, d) \in Evento /\ Ev(t, d).tipo = t /\ Ev(t, d).docs = d
  BY DEF Ev, Evento

LEMMA CabecaDaFila ==
    ASSUME fila \in Seq(Evento), fila # <<>>
    PROVE  Head(fila) \in Evento /\ Head(fila).docs \in Docs
           /\ Tail(fila) \in Seq(Evento)
  <1>1. Head(fila) \in Evento /\ Tail(fila) \in Seq(Evento)
    BY HeadTailProperties
  <1> QED
    BY <1>1 DEF Evento

\* Every variable keeps its type (all the actions of TelaLista).
THEOREM Tipos == Spec => []TypeOK
  <1>1. Init => TypeOK
    <2> SUFFICES ASSUME Init PROVE TypeOK
      OBVIOUS
    <2>1. Nenhum \in Docs
      BY DEF Nenhum, Docs
    <2>2. fila \in Seq(Evento) /\ items \in Seq(Item) /\ pedidos \in Nat
      BY DEF Init
    <2>3. ouvindo \in BOOLEAN /\ caiu \in BOOLEAN /\ divergiu \in BOOLEAN
      BY DEF Init
    <2> QED
      BY <2>1, <2>2, <2>3 DEF Init, TypeOK
  <1>2. TypeOK /\ [Next]_vars => TypeOK'
    <2> SUFFICES ASSUME TypeOK, [Next]_vars PROVE TypeOK'
      OBVIOUS
    <2> USE DEF TypeOK
    <2>1. ASSUME NEW nova \in Vistas, Publicar(nova) PROVE TypeOK'
      <3>1. nova \in Docs
        BY TelaListaAssumption DEF Docs
      <3> QED
        BY <2>1, <3>1, EvTipo DEF Publicar
    <2>2. ASSUME NEW nova \in Vistas, MudarSemOuvinte(nova) PROVE TypeOK'
      <3>1. nova \in Docs
        BY TelaListaAssumption DEF Docs
      <3> QED
        BY <2>2, <3>1 DEF MudarSemOuvinte
    <2>3. CASE RecusarListener
      <3>1. fila' \in Seq(Evento)
        BY <2>3, EvTipo DEF RecusarListener
      <3>2. ouvindo' \in BOOLEAN
        BY <2>3 DEF RecusarListener
      <3> QED
        BY <2>3, <3>1, <3>2 DEF RecusarListener
    <2>4. CASE ResponderGet
      BY <2>4, EvTipo DEF ResponderGet
    <2>5. CASE FalharGet
      BY <2>5 DEF FalharGet
    <2>6. CASE atualizar
      BY <2>6 DEF atualizar
    <2>7. CASE ReceberSnapshot
      BY <2>7, CabecaDaFila DEF ReceberSnapshot, Despachar
    <2>8. CASE ReceberErro
      BY <2>8, CabecaDaFila DEF ReceberErro, Despachar
    <2>9. CASE ReceberItems
      BY <2>9, CabecaDaFila, EvTipo DEF ReceberItems, Despachar
    <2>10. CASE AplicarItems
      BY <2>10, CabecaDaFila, ListasDeTipo DEF AplicarItems, Despachar
    <2>11. CASE TratarRemoved
      <3>1. PICK k \in Ids :
              /\ RemoverItem(k)
              /\ visto' = [visto EXCEPT ![k] = Ausente]
              /\ UNCHANGED <<colecao, fila, alvo, pedidos, ouvindo, divergiu>>
        BY <2>11 DEF TratarRemoved
      <3>2. items' \in Seq(Item) /\ caiu' \in BOOLEAN
        BY <3>1, SemPosicaoTipo DEF RemoverItem, Posicoes
      <3>3. visto' \in Docs
        BY <3>1 DEF Docs
      <3> QED
        BY <3>1, <3>2, <3>3
    <2>12. CASE TratarAdded
      <3>1. PICK k \in Ids :
              /\ MenorDe(k, Adicionados)
              /\ items' = Append(items, [id |-> k, dados |-> alvo[k]])
              /\ visto' = [visto EXCEPT ![k] = alvo[k]]
              /\ UNCHANGED <<colecao, fila, alvo, pedidos, ouvindo, caiu, divergiu>>
        BY <2>12 DEF TratarAdded
      <3>2. alvo[k] \in Conteudo
        BY <3>1 DEF MenorDe, Adicionados, Docs
      <3>3. visto' \in Docs
        BY <3>1, <3>2 DEF Docs
      <3>4. [id |-> k, dados |-> alvo[k]] \in Item
        BY <3>1, <3>2 DEF Item
      <3> QED
        BY <3>1, <3>3, <3>4
    <2>13. CASE TratarModified
      <3>1. PICK k \in Ids :
              /\ MenorDe(k, Modificados)
              /\ items' = [i \in 1..Len(items) |->
                              IF items[i].id = k THEN [id |-> k, dados |-> alvo[k]]
                                                 ELSE items[i]]
              /\ visto' = [visto EXCEPT ![k] = alvo[k]]
              /\ UNCHANGED <<colecao, fila, alvo, pedidos, ouvindo, caiu, divergiu>>
        BY <2>13 DEF TratarModified
      <3>2. alvo[k] \in Conteudo
        BY <3>1 DEF MenorDe, Modificados, Docs
      <3>3. visto' \in Docs
        BY <3>1, <3>2 DEF Docs
      <3>4. [id |-> k, dados |-> alvo[k]] \in Item
        BY <3>1, <3>2 DEF Item
      <3>5. items' \in [1..Len(items) -> Item] /\ Len(items) \in Nat
        BY <3>1, <3>4, ElementOfSeq
      <3>6. items' \in Seq(Item)
        BY <3>5
      <3> QED
        BY <3>1, <3>3, <3>6
    <2>14. CASE UNCHANGED vars
      BY <2>14 DEF vars
    <2> QED
      BY <2>1, <2>2, <2>3, <2>4, <2>5, <2>6, <2>7, <2>8, <2>9, <2>10, <2>11,
         <2>12, <2>13, <2>14 DEF Next, Firestore, Principal
  <1> QED
    BY <1>1, <1>2, PTL DEF Spec

----------------------------------------------------------------------------
(* The list is faithful to what the listener was told *)

\* ListaFiel and QuedaSoSeDivergiu together are inductive: the removal of a
\* document finds it in the list because the list enumerates `visto`.
FielInv == ListaFiel /\ QuedaSoSeDivergiu

LEMMA FielInvPasso == TypeOK /\ FielInv /\ [Next]_vars => FielInv'
  <1> SUFFICES ASSUME TypeOK, FielInv, [Next]_vars PROVE FielInv'
    OBVIOUS
  <1> USE DEF FielInv, ListaFiel, QuedaSoSeDivergiu
  <1>1. CASE UNCHANGED <<items, visto, caiu, divergiu>>
    BY <1>1 DEF Enumera
  <1>2. CASE Firestore \/ atualizar \/ UNCHANGED vars
    <2>1. UNCHANGED <<items, visto, caiu, divergiu>>
      BY <1>2 DEF Firestore, Publicar, MudarSemOuvinte, RecusarListener,
                  ResponderGet, FalharGet, atualizar, vars
    <2> QED
      BY <2>1, <1>1
  <1>3. CASE ReceberSnapshot \/ ReceberErro \/ ReceberItems
    <2>1. UNCHANGED <<items, visto, caiu, divergiu>>
      BY <1>3 DEF ReceberSnapshot, ReceberErro, ReceberItems
    <2> QED
      BY <2>1, <1>1
  <1>4. CASE AplicarItems
    <2>1. /\ Enumera(items', Head(fila).docs) /\ visto' = visto
          /\ divergiu' = (Head(fila).docs # visto) /\ caiu' = caiu /\ ~caiu
      BY <1>4 DEF AplicarItems, Despachar, ListasDe
    <2> QED
      BY <2>1
  <1>5. CASE TratarRemoved
    <2>1. PICK k \in Ids :
            /\ MenorDe(k, Removidos)
            /\ RemoverItem(k)
            /\ visto' = [visto EXCEPT ![k] = Ausente]
            /\ divergiu' = divergiu
      BY <1>5 DEF TratarRemoved
    <2>2. visto[k] # Ausente
      BY <2>1 DEF MenorDe, Removidos
    <2>3. CASE divergiu
      BY <2>1, <2>3
    <2>4. CASE ~divergiu
      <3>1. Posicoes(items, k) # {}
        BY <2>2, <2>4 DEF Enumera, Posicoes
      <3>2. PICK i \in Posicoes(items, k) : items' = SemPosicao(items, i)
        BY <2>1, <3>1 DEF RemoverItem
      <3>3. i \in 1..Len(items) /\ items[i].id = k
        BY <3>2 DEF Posicoes
      <3>4. Enumera(items', visto')
        BY <2>1, <2>4, <3>2, <3>3, EnumeraRemovido DEF TypeOK
      <3>5. caiu' = caiu
        BY <2>1, <3>1 DEF RemoverItem
      <3> QED
        BY <2>1, <3>4, <3>5
    <2> QED
      BY <2>3, <2>4
  <1>6. CASE TratarAdded
    <2>1. PICK k \in Ids :
            /\ MenorDe(k, Adicionados)
            /\ items' = Append(items, [id |-> k, dados |-> alvo[k]])
            /\ visto' = [visto EXCEPT ![k] = alvo[k]]
            /\ divergiu' = divergiu /\ caiu' = caiu
      BY <1>6 DEF TratarAdded
    <2>2. visto[k] = Ausente /\ alvo[k] \in Conteudo
      BY <2>1 DEF MenorDe, Adicionados, Docs, TypeOK
    <2> QED
      BY <2>1, <2>2, EnumeraAdicionado DEF TypeOK
  <1>7. CASE TratarModified
    <2>1. PICK k \in Ids :
            /\ MenorDe(k, Modificados)
            /\ items' = [i \in 1..Len(items) |->
                            IF items[i].id = k THEN [id |-> k, dados |-> alvo[k]]
                                               ELSE items[i]]
            /\ visto' = [visto EXCEPT ![k] = alvo[k]]
            /\ divergiu' = divergiu /\ caiu' = caiu
      BY <1>7 DEF TratarModified
    <2>2. visto[k] # Ausente /\ alvo[k] \in Conteudo
      BY <2>1 DEF MenorDe, Modificados, Docs, TypeOK
    <2> QED
      BY <2>1, <2>2, EnumeraModificado DEF TypeOK
  <1> QED
    BY <1>2, <1>3, <1>4, <1>5, <1>6, <1>7 DEF Next, Principal

LEMMA FielInvSempre == Spec => []FielInv
  <1>1. Init => FielInv
    BY DEF Init, FielInv, ListaFiel, QuedaSoSeDivergiu, Enumera, Nenhum
  <1> QED
    BY <1>1, FielInvPasso, Tipos, PTL DEF Spec

\* As long as no out-of-date fetch was stored, the list shows each document
\* the listener was told of exactly once (TelaListaViewModel, listener).
THEOREM ListaSempreFiel == Spec => []ListaFiel
  <1>1. FielInv => ListaFiel
    BY DEF FielInv
  <1> QED
    BY <1>1, FielInvSempre, PTL

\* The force unwrap of the removal branch can fail only after an
\* out-of-date fetch was stored.
THEOREM QuedaExigeFetchVelho == Spec => []QuedaSoSeDivergiu
  <1>1. FielInv => QuedaSoSeDivergiu
    BY DEF FielInv
  <1> QED
    BY <1>1, FielInvSempre, PTL

----------------------------------------------------------------------------
(* The queue leads the listener to the current view *)

LEMMA CaudaDaFila ==
    ASSUME NEW q \in Seq(Evento), q # <<>>
    PROVE  /\ Head(q) = q[1] /\ 1 \in 1..Len(q)
           /\ Tail(q) \in Seq(Evento)
           /\ \A i \in 1..Len(Tail(q)) :
                 /\ (i + 1) \in 1..Len(q)
                 /\ Tail(q)[i] = q[i + 1]
                 /\ UltimoSnapshot(Tail(q), i) => UltimoSnapshot(q, i + 1)
           /\ SemSnapshot(Tail(q)) /\ q[1].tipo = "snapshot" => UltimoSnapshot(q, 1)
           /\ SemSnapshot(Tail(q)) /\ q[1].tipo # "snapshot" => SemSnapshot(q)
  <1>1. /\ Head(q) = q[1] /\ Len(q) \in Nat /\ Len(q) >= 1
        /\ Tail(q) \in Seq(Evento) /\ Len(Tail(q)) = Len(q) - 1
        /\ \A i \in 1..Len(Tail(q)) : Tail(q)[i] = q[i + 1]
    BY HeadTailProperties
  <1>2. \A j \in 2..Len(q) : (j - 1) \in 1..Len(Tail(q)) /\ Tail(q)[j - 1] = q[j]
    BY <1>1
  <1>3. ASSUME NEW i \in 1..Len(Tail(q)), UltimoSnapshot(Tail(q), i)
        PROVE  UltimoSnapshot(q, i + 1)
    <2>1. q[i + 1].tipo = "snapshot"
      BY <1>1, <1>3 DEF UltimoSnapshot
    <2>2. ASSUME NEW j \in ((i + 1) + 1)..Len(q) PROVE q[j].tipo # "snapshot"
      <3>1. j \in 2..Len(q) /\ (j - 1) \in (i + 1)..Len(Tail(q))
        BY <1>1
      <3> QED
        BY <3>1, <1>2, <1>3 DEF UltimoSnapshot
    <2> QED
      BY <2>1, <2>2 DEF UltimoSnapshot
  <1>4. ASSUME SemSnapshot(Tail(q)), NEW j \in 2..Len(q)
        PROVE  q[j].tipo # "snapshot"
    BY <1>2, <1>4 DEF SemSnapshot
  <1>5. \A i \in 1..Len(Tail(q)) : (i + 1) \in 1..Len(q)
    BY <1>1
  <1>6. \A i \in 1..Len(q) : i = 1 \/ i \in 2..Len(q)
    BY <1>1
  <1>7. SemSnapshot(Tail(q)) /\ q[1].tipo # "snapshot" => SemSnapshot(q)
    BY <1>4, <1>6 DEF SemSnapshot
  <1>8. SemSnapshot(Tail(q)) /\ q[1].tipo = "snapshot" => UltimoSnapshot(q, 1)
    BY <1>4 DEF UltimoSnapshot
  <1> QED
    BY <1>1, <1>3, <1>5, <1>7, <1>8

LEMMA FilaComOutroEvento ==
    ASSUME NEW q \in Seq(Evento), NEW e \in Evento, e.tipo # "snapshot"
    PROVE  /\ Append(q, e) \in Seq(Evento)
           /\ \A i \in 1..Len(Append(q, e)) :
                 UltimoSnapshot(Append(q, e), i) =>
                    i \in 1..Len(q) /\ UltimoSnapshot(q, i) /\ Append(q, e)[i] = q[i]
           /\ SemSnapshot(Append(q, e)) => SemSnapshot(q)
  <1> DEFINE t == Append(q, e)
  <1>1. /\ t \in Seq(Evento) /\ Len(q) \in Nat /\ Len(t) = Len(q) + 1
        /\ t[Len(q) + 1] = e /\ \A i \in 1..Len(q) : t[i] = q[i]
    OBVIOUS
  <1> HIDE DEF t
  <1>2. ASSUME NEW i \in 1..Len(t), UltimoSnapshot(t, i)
        PROVE  i \in 1..Len(q) /\ UltimoSnapshot(q, i) /\ t[i] = q[i]
    <2>1. i # Len(q) + 1
      BY <1>1, <1>2 DEF UltimoSnapshot
    <2>2. i \in 1..Len(q)
      BY <2>1, <1>1
    <2>3. \A j \in (i + 1)..Len(q) : j \in (i + 1)..Len(t) /\ t[j] = q[j]
      BY <1>1, <2>2
    <2> QED
      BY <1>1, <1>2, <2>2, <2>3 DEF UltimoSnapshot
  <1>3. SemSnapshot(t) => SemSnapshot(q)
    BY <1>1 DEF SemSnapshot
  <1> QED
    BY <1>1, <1>2, <1>3 DEF t

LEMMA FilaPasso == TypeOK /\ FilaAteColecao /\ [Next]_vars => FilaAteColecao'
  <1> SUFFICES ASSUME TypeOK, FilaAteColecao, [Next]_vars, ouvindo'
               PROVE  FilaAteColecao'
    BY DEF FilaAteColecao
  <1> USE DEF FilaAteColecao
  <1>0. fila \in Seq(Evento) /\ Len(fila) \in Nat /\ colecao \in Docs
    BY DEF TypeOK
  <1>1. ASSUME NEW nova \in Vistas, Publicar(nova) PROVE FilaAteColecao'
    <2>1. nova \in Docs
      BY TelaListaAssumption DEF Docs
    <2>2. /\ Len(fila') = Len(fila) + 1
          /\ fila'[Len(fila) + 1].tipo = "snapshot"
          /\ fila'[Len(fila) + 1].docs = nova
          /\ colecao' = nova
      BY <1>1, <1>0, <2>1, EvTipo DEF Publicar
    <2> QED
      BY <2>2, <1>0 DEF SemSnapshot, UltimoSnapshot
  <1>2. ASSUME NEW nova \in Vistas, MudarSemOuvinte(nova) PROVE FilaAteColecao'
    BY <1>2 DEF MudarSemOuvinte
  <1>3. CASE RecusarListener
    BY <1>3 DEF RecusarListener
  <1>4. CASE ResponderGet
    <2>1. /\ fila' = Append(fila, Ev("getItems", colecao))
          /\ UNCHANGED <<colecao, alvo, ouvindo>>
      BY <1>4 DEF ResponderGet
    <2>2. Ev("getItems", colecao) \in Evento /\ Ev("getItems", colecao).tipo # "snapshot"
      BY <1>0, EvTipo
    <2> QED
      BY <2>1, <2>2, <1>0, FilaComOutroEvento
  <1>5. CASE UNCHANGED <<fila, colecao, alvo, ouvindo>>
    BY <1>5
  <1>6. CASE FalharGet \/ atualizar \/ TratarRemoved \/ TratarAdded
             \/ TratarModified \/ UNCHANGED vars
    <2>1. UNCHANGED <<fila, colecao, alvo, ouvindo>>
      BY <1>6 DEF FalharGet, atualizar, TratarRemoved, TratarAdded,
                  TratarModified, vars
    <2> QED
      BY <2>1, <1>5
  <1>7. CASE ReceberSnapshot
    <2>1. /\ fila # <<>> /\ Head(fila).tipo = "snapshot"
          /\ alvo' = Head(fila).docs /\ fila' = Tail(fila)
          /\ UNCHANGED <<colecao, ouvindo>>
      BY <1>7 DEF ReceberSnapshot, Despachar
    <2> QED
      BY <2>1, <1>0, CaudaDaFila
  <1>8. CASE ReceberErro \/ AplicarItems
    <2>1. /\ fila # <<>> /\ Head(fila).tipo # "snapshot"
          /\ fila' = Tail(fila) /\ UNCHANGED <<colecao, ouvindo, alvo>>
      BY <1>8 DEF ReceberErro, AplicarItems, Despachar
    <2> QED
      BY <2>1, <1>0, CaudaDaFila
  <1>9. CASE ReceberItems
    <2> DEFINE e == Ev("aplicar", Head(fila).docs)
    <2>1. /\ fila # <<>> /\ Head(fila).tipo # "snapshot"
          /\ fila' = Append(Tail(fila), e)
          /\ UNCHANGED <<colecao, ouvindo, alvo>>
      BY <1>9 DEF ReceberItems, Despachar
    <2>2. e \in Evento /\ e.tipo # "snapshot" /\ Tail(fila) \in Seq(Evento)
      BY <2>1, <1>0, CabecaDaFila, EvTipo
    <2> HIDE DEF e
    <2>3. /\ \A i \in 1..Len(fila') : UltimoSnapshot(fila', i) =>
                /\ i \in 1..Len(Tail(fila))
                /\ UltimoSnapshot(Tail(fila), i)
                /\ fila'[i] = Tail(fila)[i]
          /\ SemSnapshot(fila') => SemSnapshot(Tail(fila))
      BY <2>1, <2>2, FilaComOutroEvento
    <2> QED
      BY <2>1, <2>3, <1>0, CaudaDaFila
  <1> QED
    BY <1>1, <1>2, <1>3, <1>4, <1>6, <1>7, <1>8, <1>9
       DEF Next, Firestore, Principal

\* While Firestore holds the listener, the last snapshot in the main queue
\* (or the one being applied, when none waits) is the current view.
THEOREM FilaSempreAteColecao == Spec => []FilaAteColecao
  <1>1. Init => FilaAteColecao
    BY DEF Init, FilaAteColecao, UltimoSnapshot, SemSnapshot
  <1> QED
    BY <1>1, FilaPasso, Tipos, PTL DEF Spec

\* When nothing waits on the main thread and the listener is alive, the
\* list is the collection, unless the last fetch stored was out of date.
THEOREM ListaEspelhaColecao == Spec => []EspelhaColecao
  <1>1. TypeOK /\ FielInv /\ FilaAteColecao => EspelhaColecao
    <2> SUFFICES ASSUME FielInv, FilaAteColecao, fila = <<>>, Livre, ouvindo,
                        ~divergiu
                 PROVE  Enumera(items, colecao)
      BY DEF EspelhaColecao
    <2>1. alvo = colecao
      BY DEF FilaAteColecao, SemSnapshot
    <2> QED
      BY <2>1 DEF Livre, FielInv, ListaFiel
  <1> QED
    BY <1>1, Tipos, FielInvSempre, FilaSempreAteColecao, PTL

=============================================================================
