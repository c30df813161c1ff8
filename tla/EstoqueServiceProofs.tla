----------------------- MODULE EstoqueServiceProofs -----------------------
(***************************************************************************)
(* Proofs about EstoqueService, and about FormItem on top of it, for any   *)
(* number of devices, documents, operations and failures.                  *)
(***************************************************************************)
EXTENDS FormItem, Inducao, SequenceTheorems, TLAPS

----------------------------------------------------------------------------
(* Type correctness *)

LEMMA MutacaoTipo ==
    ASSUME NEW m \in Mutacao
    PROVE  /\ m.op \in {"set", "update", "delete", "data"}
           /\ m.op = "data" => m.hora \in Nat
           /\ m.op # "data" => m.id \in Ids
           /\ m.op \in {"set", "update"} => m.dados \in Conteudo
           /\ m.op = "delete" => m.dados = Ausente
  BY DEF Mutacao

LEMMA AplicaTipo ==
    ASSUME NEW m \in Mutacao, NEW v \in Docs
    PROVE  [k \in Ids |-> Aplica(m, k, v[k])] \in Docs
  <1>1. ASSUME NEW k \in Ids PROVE Aplica(m, k, v[k]) \in Conteudo \cup {Ausente}
    BY MutacaoTipo DEF Aplica, Docs
  <1> QED
    BY <1>1 DEF Docs

LEMMA EscreverTipo ==
    ASSUME TypeOKServico, NEW d \in Aparelhos, NEW m \in Mutacao, Escrever(d, m)
    PROVE  /\ emCurso' \in [Aparelhos -> Seq(Mutacao)]
           /\ hora' \in Nat
  <1>1. hora + 1 \in Nat /\ [op |-> "data", hora |-> hora + 1] \in Mutacao
    BY DEF TypeOKServico, Mutacao
  <1>2. <<m, [op |-> "data", hora |-> hora + 1]>> \in Seq(Mutacao)
    BY <1>1
  <1>3. emCurso[d] \o <<m, [op |-> "data", hora |-> hora + 1]>> \in Seq(Mutacao)
    BY <1>2, ConcatProperties DEF TypeOKServico
  <1> QED
    BY <1>1, <1>3 DEF Escrever, TypeOKServico

\* The pipeline is a beginning of the queue.
LEMMA CanalTipo ==
    ASSUME NEW d \in Aparelhos, pend[d] \in Seq(Mutacao)
    PROVE  /\ Len(pend[d]) \in Nat /\ Canal(d) \in Nat
           /\ Canal(d) <= Len(pend[d]) /\ Canal(d) <= kMaxPendingWrites
           /\ pend[d] # <<>> => Canal(d) >= 1
  <1>1. Len(pend[d]) \in Nat /\ (pend[d] # <<>> => Len(pend[d]) >= 1)
    OBVIOUS
  <1> QED
    BY <1>1, EstoqueServiceAssumption DEF Canal

\* The write the server looks at next.
LEMMA ProximaTipo ==
    ASSUME TypeOKServico, NEW d \in Aparelhos, HaEnviada(d)
    PROVE  /\ feitos[d] \in Nat /\ feitos[d] + 1 \in 1..Len(pend[d])
           /\ feitos[d] + 1 <= Canal(d) /\ Proxima(d) \in Mutacao
  <1>1. pend[d] \in Seq(Mutacao) /\ feitos[d] \in Nat
    BY DEF TypeOKServico
  <1>2. feitos[d] + 1 \in 1..Len(pend[d]) /\ feitos[d] + 1 <= Canal(d)
    BY <1>1, CanalTipo DEF HaEnviada
  <1> QED
    BY <1>1, <1>2, ElementOfSeq DEF Proxima

LEMMA ReenviarTipo ==
    ASSUME TypeOKServico, NEW d \in Aparelhos, Reenviar(d), UNCHANGED pend
    PROVE  /\ feitos' \in [Aparelhos -> Nat] /\ vistos' \in [Aparelhos -> Nat]
           /\ recusa' \in [Aparelhos -> BOOLEAN] /\ reenvio' \in [Aparelhos -> Nat]
           /\ \A e \in Aparelhos : NoCanal(e)'
  <1>1. /\ feitos' \in [Aparelhos -> Nat] /\ vistos' \in [Aparelhos -> Nat]
        /\ recusa' \in [Aparelhos -> BOOLEAN] /\ reenvio' \in [Aparelhos -> Nat]
    BY DEF TypeOKServico, Reenviar
  <1>2. ASSUME NEW e \in Aparelhos PROVE NoCanal(e)'
    <2>1. Canal(e)' = Canal(e) /\ Canal(e) \in Nat
      BY CanalTipo DEF Canal, TypeOKServico
    <2>2. CASE e # d
      <3>1. /\ feitos'[e] = feitos[e] /\ vistos'[e] = vistos[e]
            /\ recusa'[e] = recusa[e] /\ reenvio'[e] = reenvio[e]
        BY <2>2 DEF TypeOKServico, Reenviar
      <3> QED
        BY <2>1, <3>1 DEF NoCanal, TypeOKServico
    <2>3. CASE e = d
      <3>1. /\ feitos'[d] = 0 /\ vistos'[d] = 0 /\ recusa'[d] = FALSE
            /\ reenvio'[d] \in {feitos[d], reenvio[d]}
        BY DEF TypeOKServico, Reenviar
      <3>2. feitos[d] <= Canal(d) /\ reenvio[d] <= Canal(d)
        BY DEF TypeOKServico, NoCanal
      <3> QED
        BY <2>1, <2>3, <3>1, <3>2 DEF NoCanal
    <2> QED
      BY <2>2, <2>3
  <1> QED
    BY <1>1, <1>2

LEMMA RetirarTipo ==
    ASSUME TypeOKServico, NEW d \in Aparelhos, Retirar(d), pend[d] # <<>>,
           \/ feitos[d] > 0 /\ recusa' = recusa
           \/ feitos[d] = 0 /\ recusa' = [recusa EXCEPT ![d] = FALSE]
    PROVE  /\ pend' \in [Aparelhos -> Seq(Mutacao)] /\ recusa' \in [Aparelhos -> BOOLEAN]
           /\ feitos' \in [Aparelhos -> Nat] /\ vistos' \in [Aparelhos -> Nat]
           /\ reenvio' \in [Aparelhos -> Nat]
           /\ \A e \in Aparelhos : NoCanal(e)'
  <1>1. /\ Tail(pend[d]) \in Seq(Mutacao) /\ pend[d] \in Seq(Mutacao)
        /\ Len(pend[d]) \in Nat /\ Len(pend[d]) >= 1
        /\ Len(Tail(pend[d])) = Len(pend[d]) - 1
    BY HeadTailProperties DEF TypeOKServico
  <1>2. \A n \in Nat : Menos1(n) \in Nat
    BY DEF Menos1
  <1>3. /\ pend' \in [Aparelhos -> Seq(Mutacao)] /\ recusa' \in [Aparelhos -> BOOLEAN]
        /\ feitos' \in [Aparelhos -> Nat] /\ vistos' \in [Aparelhos -> Nat]
        /\ reenvio' \in [Aparelhos -> Nat]
    BY <1>1, <1>2 DEF TypeOKServico, Retirar
  <1>4. ASSUME NEW e \in Aparelhos PROVE NoCanal(e)'
    <2>1. CASE e # d
      <3>1. /\ feitos'[e] = feitos[e] /\ vistos'[e] = vistos[e] /\ pend'[e] = pend[e]
            /\ recusa'[e] = recusa[e] /\ reenvio'[e] = reenvio[e]
        BY <2>1 DEF TypeOKServico, Retirar
      <3>2. Canal(e)' = Canal(e) /\ NoCanal(e)
        BY <3>1 DEF Canal, TypeOKServico
      <3> QED
        BY <3>1, <3>2 DEF NoCanal
    <2>2. CASE e = d
      <3>1. /\ feitos'[d] = Menos1(feitos[d]) /\ vistos'[d] = Menos1(vistos[d])
            /\ reenvio'[d] = Menos1(reenvio[d]) /\ pend'[d] = Tail(pend[d])
            /\ recusa'[d] => recusa[d] /\ feitos[d] > 0
        BY DEF TypeOKServico, Retirar
      <3>2. Canal(d)' \in Nat /\ Canal(d) \in Nat /\ Canal(d)' >= Canal(d) - 1
        BY <1>1, <3>1, EstoqueServiceAssumption DEF Canal
      <3>3. /\ feitos[d] \in Nat /\ vistos[d] \in Nat /\ reenvio[d] \in Nat
            /\ vistos[d] <= feitos[d] /\ feitos[d] <= Canal(d) /\ reenvio[d] <= Canal(d)
            /\ recusa[d] => feitos[d] < Canal(d)
        BY DEF TypeOKServico, NoCanal
      <3> HIDE DEF Canal
      <3>4. /\ Menos1(vistos[d]) <= Menos1(feitos[d])
            /\ Menos1(feitos[d]) <= Canal(d)' /\ Menos1(reenvio[d]) <= Canal(d)'
            /\ recusa[d] /\ feitos[d] > 0 => Menos1(feitos[d]) < Canal(d)'
        BY <3>2, <3>3 DEF Menos1
      <3> QED
        BY <2>2, <3>1, <3>4 DEF NoCanal
    <2> QED
      BY <2>1, <2>2
  <1> QED
    BY <1>3, <1>4

\* The limits of the pipeline when it and the counts stay as they are.
LEMMA CanalParado ==
    ASSUME TypeOKServico, UNCHANGED <<pend, feitos, recusa, vistos, reenvio>>
    PROVE  \A e \in Aparelhos : NoCanal(e)'
  BY DEF TypeOKServico, NoCanal, Canal

LEMMA TipoInicial == InitServico => TypeOKServico
  <1> SUFFICES ASSUME InitServico PROVE TypeOKServico
    OBVIOUS
  <1>1. Inicial \in Docs /\ {k \in Ids : Inicial[k] # Ausente} \subseteq Ids
    BY EstoqueServiceAssumption DEF Docs
  <1>2. /\ [d \in Aparelhos |-> <<>>] \in [Aparelhos -> Seq(Mutacao)]
        /\ [d \in Aparelhos |-> FALSE] \in [Aparelhos -> BOOLEAN]
        /\ [d \in Aparelhos |-> 0] \in [Aparelhos -> Nat]
        /\ [d \in Aparelhos |-> Inicial] \in [Aparelhos -> Docs]
        /\ 0 \in Nat
    BY <1>1
  <1>3. \A d \in Aparelhos : NoCanal(d)
    <2> TAKE d \in Aparelhos
    <2>1. /\ pend[d] = <<>> /\ feitos[d] = 0 /\ vistos[d] = 0 /\ reenvio[d] = 0
          /\ recusa[d] = FALSE
      BY DEF InitServico
    <2>2. Canal(d) = 0
      BY <2>1, EstoqueServiceAssumption DEF Canal
    <2> QED
      BY <2>1, <2>2 DEF NoCanal
  <1> QED
    BY <1>1, <1>2, <1>3 DEF InitServico, TypeOKServico

LEMMA TipoPasso == TypeOKServico /\ [NextServico]_estado => TypeOKServico'
  <1> SUFFICES ASSUME TypeOKServico, [NextServico]_estado PROVE TypeOKServico'
    OBVIOUS
  <1> USE DEF TypeOKServico
  <1>1. ASSUME NEW d \in Aparelhos, NEW k \in Ids, NEW c \in Conteudo,
               addItem(d, k, c)
        PROVE  TypeOKServico'
    <2>1. [op |-> "set", id |-> k, dados |-> c] \in Mutacao
      BY DEF Mutacao
    <2>2. original' \in Docs
      BY <1>1 DEF addItem, Docs
    <2> QED
      BY <1>1, <2>1, <2>2, EscreverTipo, CanalParado DEF addItem, Escrever
  <1>2. ASSUME NEW d \in Aparelhos, NEW k \in Ids, NEW c \in Conteudo,
               updateItem(d, k, c)
        PROVE  TypeOKServico'
    <2>1. [op |-> "update", id |-> k, dados |-> c] \in Mutacao
      BY DEF Mutacao
    <2> QED
      BY <1>2, <2>1, EscreverTipo, CanalParado DEF updateItem, Escrever
  <1>3. ASSUME NEW d \in Aparelhos, NEW k \in Ids, deleteItem(d, k)
        PROVE  TypeOKServico'
    <2>1. [op |-> "delete", id |-> k, dados |-> Ausente] \in Mutacao
      BY DEF Mutacao
    <2> QED
      BY <1>3, <2>1, EscreverTipo, CanalParado DEF deleteItem, Escrever
  <1>4. ASSUME NEW d \in Aparelhos, Persistir(d) PROVE TypeOKServico'
    <2>1. Head(emCurso[d]) \in Mutacao /\ Tail(emCurso[d]) \in Seq(Mutacao)
      BY <1>4, HeadTailProperties DEF Persistir
    <2>2. /\ Append(pend[d], Head(emCurso[d])) \in Seq(Mutacao)
          /\ Len(pend[d]) \in Nat
          /\ Len(Append(pend[d], Head(emCurso[d]))) = Len(pend[d]) + 1
      BY <2>1
    <2>3. ASSUME NEW e \in Aparelhos PROVE NoCanal(e)'
      <3>1. Len(pend[e]) \in Nat /\ Len(pend'[e]) \in {Len(pend[e]), Len(pend[e]) + 1}
        BY <1>4, <2>2 DEF Persistir
      <3>2. Canal(e) \in Nat /\ Canal(e)' \in Nat /\ Canal(e) <= Canal(e)'
        BY <3>1, EstoqueServiceAssumption DEF Canal
      <3>3. UNCHANGED <<feitos, recusa, vistos, reenvio>> /\ NoCanal(e)
        BY <1>4 DEF Persistir
      <3> QED
        BY <3>2, <3>3 DEF NoCanal
    <2> QED
      BY <1>4, <2>1, <2>2, <2>3 DEF Persistir
  <1>5. ASSUME NEW d \in Aparelhos, Confirmar(d) PROVE TypeOKServico'
    <2> DEFINE m == Proxima(d)
    <2>1. HaEnviada(d) /\ m \in Mutacao
      BY <1>5, ProximaTipo DEF Confirmar
    <2>2. docs' \in Docs
      BY <1>5, <2>1, AplicaTipo DEF Confirmar
    <2>3. feitos' \in [Aparelhos -> Nat]
      BY <1>5 DEF Confirmar
    <2>4. nascidos' \subseteq Ids /\ data' \in Nat
      BY <1>5, <2>1, MutacaoTipo DEF Confirmar
    <2>5. ASSUME NEW e \in Aparelhos PROVE NoCanal(e)'
      <3>1. /\ Canal(e)' = Canal(e) /\ Canal(e) \in Nat /\ NoCanal(e)
            /\ UNCHANGED <<recusa, vistos, reenvio>>
            /\ feitos'[e] = IF e = d THEN feitos[d] + 1 ELSE feitos[e]
        BY <1>5, CanalTipo DEF Confirmar, Canal
      <3>2. ~recusa[d] /\ feitos[d] + 1 <= Canal(d)
        BY <2>1, ProximaTipo DEF HaEnviada
      <3> QED
        BY <3>1, <3>2 DEF NoCanal
    <2> QED
      BY <1>5, <2>2, <2>3, <2>4, <2>5 DEF Confirmar
  <1>6. ASSUME NEW d \in Aparelhos, Negar(d) PROVE TypeOKServico'
    <2>1. ASSUME NEW e \in Aparelhos PROVE NoCanal(e)'
      <3>1. /\ Canal(e)' = Canal(e) /\ NoCanal(e) /\ UNCHANGED <<feitos, vistos, reenvio>>
            /\ recusa'[e] = IF e = d THEN TRUE ELSE recusa[e]
        BY <1>6 DEF Negar, Canal
      <3>2. feitos[d] < Canal(d)
        BY <1>6 DEF Negar, HaEnviada
      <3> QED
        BY <3>1, <3>2 DEF NoCanal
    <2> QED
      BY <1>6, <2>1 DEF Negar
  <1>7. ASSUME NEW d \in Aparelhos, OnWriteStreamMutationResult(d) PROVE TypeOKServico'
    <2>0. pend[d] # <<>>
      BY <1>7, CanalTipo DEF OnWriteStreamMutationResult, NoCanal
    <2>1. Head(pend[d]) \in Mutacao
      BY <2>0, HeadTailProperties
    <2>2. [k \in Ids |-> Aplica(Head(pend[d]), k, base[d][k])] \in Docs
      BY <2>1, AplicaTipo
    <2>3. base' \in [Aparelhos -> Docs]
      BY <1>7, <2>2 DEF OnWriteStreamMutationResult
    <2>4. Retirar(d) /\ feitos[d] > 0 /\ recusa' = recusa
      BY <1>7 DEF OnWriteStreamMutationResult
    <2> QED
      BY <1>7, <2>0, <2>3, <2>4, RetirarTipo DEF OnWriteStreamMutationResult
  <1>8. ASSUME NEW d \in Aparelhos, HandleWriteError(d) PROVE TypeOKServico'
    <2>1. pend[d] # <<>>
      BY <1>8, CanalTipo DEF HandleWriteError, NoCanal
    <2>2. /\ Retirar(d) /\ feitos[d] = 0 /\ recusa' = [recusa EXCEPT ![d] = FALSE]
      BY <1>8 DEF HandleWriteError
    <2> QED
      BY <1>8, <2>1, <2>2, RetirarTipo DEF HandleWriteError
  <1>9. ASSUME NEW d \in Aparelhos, Observar(d) PROVE TypeOKServico'
    <2>1. base' \in [Aparelhos -> Docs] /\ vistos' \in [Aparelhos -> Nat]
      BY <1>9 DEF Observar
    <2>2. ASSUME NEW e \in Aparelhos PROVE NoCanal(e)'
      <3>1. /\ Canal(e)' = Canal(e) /\ NoCanal(e) /\ UNCHANGED <<feitos, recusa, reenvio>>
            /\ vistos'[e] = IF e = d THEN feitos[d] ELSE vistos[e]
        BY <1>9 DEF Observar, Canal
      <3> QED
        BY <3>1 DEF NoCanal
    <2> QED
      BY <1>9, <2>1, <2>2 DEF Observar
  <1>10. ASSUME NEW d \in Aparelhos, PerderRespostas(d) PROVE TypeOKServico'
    <2>1. falhas' \in Nat
      BY <1>10 DEF PerderRespostas
    <2> QED
      BY <1>10, <2>1, ReenviarTipo DEF PerderRespostas
  <1>11. ASSUME NEW d \in Aparelhos, Reiniciar(d) PROVE TypeOKServico'
    <2>1. /\ falhas' \in Nat
          /\ emCurso' \in [Aparelhos -> Seq(Mutacao)]
      BY <1>11 DEF Reiniciar
    <2> QED
      BY <1>11, <2>1, ReenviarTipo DEF Reiniciar
  <1>12. CASE UNCHANGED estado
    BY <1>12, CanalParado DEF estado
  <1> QED
    BY <1>1, <1>2, <1>3, <1>4, <1>5, <1>6, <1>7, <1>8, <1>9, <1>10, <1>11, <1>12
       DEF NextServico, Rede

\* Every variable of the service keeps its type, and every write the server
\* has seen without its answer being received is among the first
\* kMaxPendingWrites of the queue.
THEOREM TiposServico == SpecServico => []TypeOKServico
  BY TipoInicial, TipoPasso, PTL DEF SpecServico

----------------------------------------------------------------------------
(* How each action changes the unanswered writes of a device *)

\* Facts about sequences, for any set of elements.
LEMMA Junta ==
    ASSUME NEW S, NEW p \in Seq(S), NEW q \in Seq(S)
    PROVE  /\ p \o q \in Seq(S)
           /\ Len(p) \in Nat /\ Len(q) \in Nat
           /\ Len(p \o q) = Len(p) + Len(q)
           /\ \A i \in 1..(Len(p) + Len(q)) :
                (p \o q)[i] = IF i <= Len(p) THEN p[i] ELSE q[i - Len(p)]
  OBVIOUS

LEMMA JuntaPasse ==
    ASSUME NEW S, NEW p \in Seq(S), NEW q \in Seq(S), q # <<>>
    PROVE  Append(p, Head(q)) \o Tail(q) = p \o q /\ Append(p, Head(q)) # <<>>
  <1> DEFINE u == Append(p, Head(q))
  <1>1. /\ Head(q) \in S /\ Tail(q) \in Seq(S) /\ Head(q) = q[1]
        /\ Len(q) \in Nat /\ Len(q) >= 1 /\ Len(Tail(q)) = Len(q) - 1
        /\ \A i \in 1..(Len(q) - 1) : Tail(q)[i] = q[i + 1]
    BY HeadTailProperties
  <1>2. /\ u \in Seq(S) /\ Len(u) = Len(p) + 1 /\ Len(p) \in Nat
        /\ u[Len(p) + 1] = q[1] /\ \A i \in 1..Len(p) : u[i] = p[i]
    BY <1>1
  <1> HIDE DEF u
  <1>3. /\ u \o Tail(q) \in Seq(S) /\ Len(u \o Tail(q)) = Len(p) + Len(q)
        /\ \A i \in 1..(Len(p) + Len(q)) : (u \o Tail(q))[i] =
               IF i <= Len(p) + 1 THEN u[i] ELSE Tail(q)[i - (Len(p) + 1)]
    <2>1. /\ u \o Tail(q) \in Seq(S)
          /\ Len(u \o Tail(q)) = Len(u) + Len(Tail(q))
          /\ \A i \in 1..(Len(u) + Len(Tail(q))) : (u \o Tail(q))[i] =
                 IF i <= Len(u) THEN u[i] ELSE Tail(q)[i - Len(u)]
      BY <1>1, <1>2, Junta
    <2>2. Len(u) + Len(Tail(q)) = Len(p) + Len(q)
      BY <1>1, <1>2
    <2> QED
      BY <2>1, <2>2, <1>2
  <1>4. /\ p \o q \in Seq(S) /\ Len(p \o q) = Len(p) + Len(q)
        /\ \A i \in 1..(Len(p) + Len(q)) : (p \o q)[i] =
               IF i <= Len(p) THEN p[i] ELSE q[i - Len(p)]
    BY Junta
  <1>5. ASSUME NEW i \in 1..(Len(p) + Len(q)) PROVE (u \o Tail(q))[i] = (p \o q)[i]
    <2>1. CASE i <= Len(p)
      BY <2>1, <1>1, <1>2, <1>3, <1>4
    <2>2. CASE i = Len(p) + 1
      BY <2>2, <1>1, <1>2, <1>3, <1>4
    <2>3. CASE i > Len(p) + 1
      <3>1. /\ (i - (Len(p) + 1)) \in 1..(Len(q) - 1)
            /\ (i - (Len(p) + 1)) + 1 = i - Len(p)
        BY <2>3, <1>1, <1>2
      <3>2. Tail(q)[i - (Len(p) + 1)] = q[i - Len(p)]
        BY <3>1, <1>1
      <3> QED
        BY <2>3, <3>2, <1>2, <1>3, <1>4
    <2> QED
      BY <2>1, <2>2, <2>3, <1>2
  <1>6. u \o Tail(q) = p \o q
    BY <1>3, <1>4, <1>5, SeqEqual
  <1> QED
    BY <1>2, <1>6 DEF u

LEMMA JuntaCauda ==
    ASSUME NEW S, NEW p \in Seq(S), NEW q \in Seq(S), p # <<>>
    PROVE  /\ Len(Tail(p) \o q) = Len(p \o q) - 1
           /\ \A i \in 1..(Len(p \o q) - 1) : (Tail(p) \o q)[i] = (p \o q)[i + 1]
  <1>1. /\ Tail(p) \in Seq(S) /\ Len(p) \in Nat /\ Len(p) >= 1 /\ Len(q) \in Nat
        /\ Len(Tail(p)) = Len(p) - 1
        /\ \A i \in 1..(Len(p) - 1) : Tail(p)[i] = p[i + 1]
    BY HeadTailProperties
  <1>2. /\ Len(p \o q) = Len(p) + Len(q)
        /\ \A i \in 1..(Len(p) + Len(q)) : (p \o q)[i] =
               IF i <= Len(p) THEN p[i] ELSE q[i - Len(p)]
    BY Junta
  <1>3. /\ Len(Tail(p) \o q) = (Len(p) - 1) + Len(q)
        /\ \A i \in 1..((Len(p) - 1) + Len(q)) : (Tail(p) \o q)[i] =
               IF i <= Len(p) - 1 THEN Tail(p)[i] ELSE q[i - (Len(p) - 1)]
    BY <1>1, Junta
  <1>4. ASSUME NEW i \in 1..(Len(p \o q) - 1)
        PROVE  (Tail(p) \o q)[i] = (p \o q)[i + 1]
    <2>1. i \in 1..((Len(p) - 1) + Len(q)) /\ (i + 1) \in 1..(Len(p) + Len(q))
      BY <1>1, <1>2
    <2>2. CASE i <= Len(p) - 1
      BY <2>1, <2>2, <1>1, <1>2, <1>3
    <2>3. CASE ~(i <= Len(p) - 1)
      <3>1. ~(i + 1 <= Len(p)) /\ i - (Len(p) - 1) = (i + 1) - Len(p)
        BY <2>3, <1>1
      <3> QED
        BY <2>1, <2>3, <3>1, <1>2, <1>3
    <2> QED
      BY <2>2, <2>3
  <1> QED
    BY <1>1, <1>2, <1>3, <1>4

LEMMA FilaTipo ==
    ASSUME TypeOKServico, NEW d \in Aparelhos
    PROVE  /\ pend[d] \in Seq(Mutacao) /\ emCurso[d] \in Seq(Mutacao)
           /\ Fila(d) \in Seq(Mutacao) /\ Len(Fila(d)) \in Nat
  <1>1. pend[d] \in Seq(Mutacao) /\ emCurso[d] \in Seq(Mutacao)
    BY DEF TypeOKServico
  <1>2. Fila(d) \in Seq(Mutacao)
    BY <1>1, Junta DEF Fila
  <1> QED
    BY <1>1, <1>2

LEMMA FilaCabeca ==
    ASSUME TypeOKServico, NEW d \in Aparelhos, pend[d] # <<>>
    PROVE  1 \in 1..Len(Fila(d)) /\ Fila(d)[1] = Head(pend[d])
  <1> DEFINE p == pend[d]
             q == emCurso[d]
  <1>1. p \in Seq(Mutacao) /\ q \in Seq(Mutacao) /\ p # <<>> /\ Fila(d) = p \o q
    BY FilaTipo DEF Fila
  <1> HIDE DEF p, q
  <1>2. Len(p) \in Nat /\ Len(p) >= 1 /\ Len(q) \in Nat /\ Head(p) = p[1]
    BY <1>1
  <1>3. /\ Len(p \o q) = Len(p) + Len(q)
        /\ \A i \in 1..(Len(p) + Len(q)) :
              (p \o q)[i] = IF i <= Len(p) THEN p[i] ELSE q[i - Len(p)]
    BY <1>1, Junta
  <1> QED
    BY <1>1, <1>2, <1>3 DEF p

LEMMA FilaInicio ==
    ASSUME TypeOKServico, NEW d \in Aparelhos, NEW i \in 1..Len(pend[d])
    PROVE  i \in 1..Len(Fila(d)) /\ Fila(d)[i] = pend[d][i]
  <1> DEFINE p == pend[d]
             q == emCurso[d]
  <1>1. p \in Seq(Mutacao) /\ q \in Seq(Mutacao)
    BY FilaTipo
  <1>2. i \in 1..Len(p) /\ Fila(d) = p \o q
    BY DEF Fila
  <1> HIDE DEF p, q
  <1>3. /\ Len(p) \in Nat /\ Len(q) \in Nat /\ Len(p \o q) = Len(p) + Len(q)
        /\ \A j \in 1..(Len(p) + Len(q)) :
              (p \o q)[j] = IF j <= Len(p) THEN p[j] ELSE q[j - Len(p)]
    BY <1>1, Junta
  <1>4. i \in 1..Len(Fila(d)) /\ Fila(d)[i] = p[i]
    BY <1>2, <1>3
  <1> QED
    BY <1>4 DEF p

LEMMA FilaProxima ==
    ASSUME TypeOKServico, NEW d \in Aparelhos, HaEnviada(d)
    PROVE  /\ feitos[d] \in Nat /\ feitos[d] + 1 \in 1..Len(Fila(d))
           /\ Fila(d)[feitos[d] + 1] = Proxima(d)
  BY ProximaTipo, FilaInicio DEF Proxima

LEMMA FilaElemento ==
    ASSUME TypeOKServico, NEW d \in Aparelhos, NEW i \in 1..Len(Fila(d))
    PROVE  Fila(d)[i] \in Mutacao /\ (Cria(d, i) => Fila(d)[i].id \in Ids)
  <1>1. Fila(d)[i] \in Mutacao
    BY FilaTipo, ElementOfSeq
  <1> QED
    BY <1>1, MutacaoTipo DEF Cria

LEMMA FilaEscrever ==
    ASSUME TypeOKServico, NEW d \in Aparelhos, NEW m \in Mutacao, Escrever(d, m)
    PROVE  /\ \A e \in Aparelhos : e # d => Fila(e)' = Fila(e)
           /\ Len(Fila(d)') = Len(Fila(d)) + 2
           /\ \A i \in 1..Len(Fila(d)) : Fila(d)'[i] = Fila(d)[i]
           /\ Fila(d)'[Len(Fila(d)) + 1] = m
           /\ Fila(d)'[Len(Fila(d)) + 2].op = "data"
  <1> DEFINE dt == [op |-> "data", hora |-> hora + 1]
  <1>1. dt \in Mutacao
    BY DEF TypeOKServico, Mutacao
  <1>2. pend[d] \in Seq(Mutacao) /\ emCurso[d] \in Seq(Mutacao)
    BY DEF TypeOKServico
  <1>3. <<m, dt>> \in Seq(Mutacao) /\ Len(<<m, dt>>) = 2
    BY <1>1
  <1>4. Fila(d)' = pend[d] \o (emCurso[d] \o <<m, dt>>)
    BY DEF Fila, Escrever, TypeOKServico
  <1> HIDE DEF dt
  <1>5. Fila(d)' = Fila(d) \o <<m, dt>>
    <2>1. ASSUME NEW p \in Seq(Mutacao), NEW q \in Seq(Mutacao), NEW r \in Seq(Mutacao)
          PROVE  (p \o q) \o r = p \o (q \o r)
      BY ConcatAssociative
    <2> QED
      BY <1>2, <1>3, <1>4, <2>1 DEF Fila
  <1>6. \A e \in Aparelhos : e # d => Fila(e)' = Fila(e)
    BY DEF Fila, Escrever, TypeOKServico
  <1>7. /\ Len(Fila(d)') = Len(Fila(d)) + 2
        /\ \A i \in 1..(Len(Fila(d)) + 2) : Fila(d)'[i] =
               IF i <= Len(Fila(d)) THEN Fila(d)[i] ELSE <<m, dt>>[i - Len(Fila(d))]
    BY <1>3, <1>5, FilaTipo, Junta
  <1>8. <<m, dt>>[1] = m /\ <<m, dt>>[2] = dt
    OBVIOUS
  <1>9. Len(Fila(d)) \in Nat
    BY FilaTipo
  <1>10. Fila(d)'[Len(Fila(d)) + 1] = m /\ Fila(d)'[Len(Fila(d)) + 2] = dt
    BY <1>7, <1>8, <1>9
  <1>11. dt.op = "data"
    BY DEF dt
  <1> QED
    BY <1>6, <1>7, <1>9, <1>10, <1>11

LEMMA FilaPersistir ==
    ASSUME TypeOKServico, NEW d \in Aparelhos, Persistir(d)
    PROVE  \A e \in Aparelhos : Fila(e)' = Fila(e)
  <1>1. /\ emCurso[d] # <<>> /\ emCurso'[d] = Tail(emCurso[d])
        /\ pend'[d] = Append(pend[d], Head(emCurso[d]))
    BY DEF TypeOKServico, Persistir
  <1>2. Fila(d)' = Fila(d)
    BY <1>1, FilaTipo, JuntaPasse DEF Fila
  <1>3. \A e \in Aparelhos : e # d => pend'[e] = pend[e] /\ emCurso'[e] = emCurso[e]
    BY DEF Persistir, TypeOKServico
  <1> QED
    BY <1>2, <1>3 DEF Fila

LEMMA FilaRetirar ==
    ASSUME TypeOKServico, NEW d \in Aparelhos, Retirar(d), UNCHANGED emCurso,
           pend[d] # <<>>
    PROVE  /\ \A e \in Aparelhos : e # d => Fila(e)' = Fila(e)
           /\ Len(Fila(d)') = Len(Fila(d)) - 1
           /\ \A i \in 1..(Len(Fila(d)) - 1) : Fila(d)'[i] = Fila(d)[i + 1]
  <1>1. pend[d] # <<>> /\ Fila(d)' = Tail(pend[d]) \o emCurso[d]
    BY DEF TypeOKServico, Retirar, Fila
  <1>2. \A e \in Aparelhos : e # d => Fila(e)' = Fila(e)
    BY DEF Fila, Retirar, TypeOKServico
  <1> DEFINE p == pend[d]
             q == emCurso[d]
  <1>3. p \in Seq(Mutacao) /\ q \in Seq(Mutacao)
    BY FilaTipo
  <1>4. Fila(d) = p \o q /\ Fila(d)' = Tail(p) \o q /\ p # <<>>
    BY <1>1 DEF Fila
  <1> HIDE DEF p, q
  <1>5. /\ Len(Tail(p) \o q) = Len(p \o q) - 1
        /\ \A i \in 1..(Len(p \o q) - 1) : (Tail(p) \o q)[i] = (p \o q)[i + 1]
    BY <1>3, <1>4, JuntaCauda
  <1> QED
    BY <1>2, <1>4, <1>5

\* Both answers take the head of the queue away.
LEMMA RespostaRetira ==
    ASSUME TypeOKServico, NEW d \in Aparelhos,
           OnWriteStreamMutationResult(d) \/ HandleWriteError(d)
    PROVE  /\ Retirar(d) /\ pend[d] # <<>>
           /\ UNCHANGED <<docs, emCurso, original, nascidos>>
  <1>1. feitos[d] > 0 \/ recusa[d]
    BY DEF OnWriteStreamMutationResult, HandleWriteError
  <1>2. pend[d] # <<>>
    BY <1>1, CanalTipo DEF TypeOKServico, NoCanal
  <1> QED
    BY <1>2 DEF OnWriteStreamMutationResult, HandleWriteError

LEMMA FilaReiniciar ==
    ASSUME TypeOKServico, NEW d \in Aparelhos, Reiniciar(d)
    PROVE  /\ \A e \in Aparelhos : e # d => Fila(e)' = Fila(e)
           /\ Len(Fila(d)') \in Nat /\ Len(Fila(d)') <= Len(Fila(d))
           /\ \A i \in 1..Len(Fila(d)') : Fila(d)'[i] = Fila(d)[i]
  <1> DEFINE p == pend[d]
             q == emCurso[d]
  <1>1. p \in Seq(Mutacao) /\ q \in Seq(Mutacao)
    BY FilaTipo
  <1>2. Fila(d) = p \o q /\ Fila(d)' = p \o <<>>
    BY DEF Fila, Reiniciar, TypeOKServico
  <1>3. \A e \in Aparelhos : e # d => Fila(e)' = Fila(e)
    BY DEF Fila, Reiniciar, TypeOKServico
  <1> HIDE DEF p, q
  <1>4. p \o <<>> = p
    BY <1>1, ConcatEmptySeq
  <1>5. /\ Len(p) \in Nat /\ Len(q) \in Nat /\ Len(p \o q) = Len(p) + Len(q)
        /\ \A i \in 1..(Len(p) + Len(q)) :
              (p \o q)[i] = IF i <= Len(p) THEN p[i] ELSE q[i - Len(p)]
    BY <1>1, Junta
  <1>6. \A i \in 1..Len(p) : (p \o q)[i] = p[i]
    BY <1>5
  <1> QED
    BY <1>2, <1>3, <1>4, <1>5, <1>6

----------------------------------------------------------------------------
(* One creation per document *)

LEMMA CriacaoInicial == InitServico => CriacaoUnica
  <1> SUFFICES ASSUME InitServico PROVE CriacaoUnica
    OBVIOUS
  <1>1. \A d \in Aparelhos : Len(Fila(d)) = 0
    BY DEF InitServico, Fila
  <1>2. \A k \in nascidos : original[k] # Ausente
    BY DEF InitServico
  <1> QED
    BY <1>1, <1>2 DEF CriacaoUnica

\* Actions that leave the unanswered writes of every device as they are.
LEMMA CriacaoFilasIguais ==
    ASSUME TypeOKServico, CriacaoUnica,
           \A e \in Aparelhos : Fila(e)' = Fila(e),
           \A e \in Aparelhos : \A i \in Nat :
              i <= feitos[e] \/ i <= reenvio[e] => i <= feitos'[e] \/ i <= reenvio'[e],
           UNCHANGED <<original, nascidos>>
    PROVE  CriacaoUnica'
  BY DEF CriacaoUnica, Cria

\* Actions after which every creation still queued was queued before, at the
\* same place.
LEMMA CriacaoFilasMenores ==
    ASSUME TypeOKServico, CriacaoUnica,
           \A e \in Aparelhos : \A i \in 1..Len(Fila(e)') :
              Fila(e)'[i].op = "set" =>
                  i \in 1..Len(Fila(e)) /\ Fila(e)'[i] = Fila(e)[i],
           \A e \in Aparelhos : \A i \in Nat :
              i <= feitos[e] \/ i <= reenvio[e] => i <= feitos'[e] \/ i <= reenvio'[e],
           UNCHANGED <<original, nascidos>>
    PROVE  CriacaoUnica'
  <1>1. ASSUME NEW e \in Aparelhos, NEW i \in 1..Len(Fila(e)'),
               Fila(e)'[i].op = "set"
        PROVE  i \in 1..Len(Fila(e)) /\ Fila(e)'[i] = Fila(e)[i] /\ Cria(e, i)
    BY <1>1 DEF Cria
  <1>2. ASSUME NEW e \in Aparelhos, NEW i \in 1..Len(Fila(e)'),
               Fila(e)'[i].op = "set"
        PROVE  /\ Fila(e)'[i].dados = original'[Fila(e)'[i].id]
               /\ original'[Fila(e)'[i].id] # Ausente
               /\ Fila(e)'[i].id \in nascidos' =>
                     i <= feitos'[e] \/ i <= reenvio'[e]
    BY <1>1, <1>2 DEF CriacaoUnica
  <1>3. ASSUME NEW e \in Aparelhos, NEW f \in Aparelhos,
               NEW i \in 1..Len(Fila(e)'), NEW j \in 1..Len(Fila(f)'),
               Fila(e)'[i].op = "set", Fila(f)'[j].op = "set",
               Fila(e)'[i].id = Fila(f)'[j].id
        PROVE  e = f /\ i = j
    BY <1>1, <1>3 DEF CriacaoUnica
  <1>4. \A k \in nascidos' : original'[k] # Ausente
    BY DEF CriacaoUnica
  <1> QED
    BY <1>2, <1>3, <1>4 DEF CriacaoUnica, Cria

LEMMA CriacaoEscrever ==
    ASSUME TypeOKServico, CriacaoUnica, NEW d \in Aparelhos, NEW m \in Mutacao,
           Escrever(d, m), m.op # "set", UNCHANGED original
    PROVE  CriacaoUnica'
  <1>1. /\ UNCHANGED <<nascidos, feitos, reenvio>>
        /\ \A e \in Aparelhos : Len(Fila(e)) \in Nat
    BY FilaTipo DEF Escrever
  <1>2. \A e \in Aparelhos : \A i \in 1..Len(Fila(e)') :
            Fila(e)'[i].op = "set" =>
                i \in 1..Len(Fila(e)) /\ Fila(e)'[i] = Fila(e)[i]
    <2> TAKE e \in Aparelhos
    <2>1. CASE e # d
      BY <2>1, FilaEscrever
    <2>2. CASE e = d
      <3>1. /\ Len(Fila(d)') = Len(Fila(d)) + 2
            /\ \A i \in 1..Len(Fila(d)) : Fila(d)'[i] = Fila(d)[i]
            /\ Fila(d)'[Len(Fila(d)) + 1] = m
            /\ Fila(d)'[Len(Fila(d)) + 2].op = "data"
        BY FilaEscrever
      <3>2. \A i \in 1..Len(Fila(d)') :
               i \in 1..Len(Fila(d)) \/ i = Len(Fila(d)) + 1 \/ i = Len(Fila(d)) + 2
        BY <1>1, <3>1
      <3> QED
        BY <2>2, <3>1, <3>2
    <2> QED
      BY <2>1, <2>2
  <1> QED
    BY <1>1, <1>2, CriacaoFilasMenores

LEMMA CriacaoAdd ==
    ASSUME TypeOKServico, CriacaoUnica, NEW d \in Aparelhos, NEW k \in Ids,
           NEW c \in Conteudo, addItem(d, k, c)
    PROVE  CriacaoUnica'
  <1> DEFINE m == [op |-> "set", id |-> k, dados |-> c]
             n == Len(Fila(d)) + 1
  <1>1. m \in Mutacao /\ m.op = "set" /\ m.id = k /\ m.dados = c
    BY DEF Mutacao
  <1>2. /\ original[k] = Ausente /\ original' = [original EXCEPT ![k] = c]
        /\ Escrever(d, m) /\ UNCHANGED <<nascidos, feitos, reenvio>>
        /\ k \notin nascidos
    BY DEF addItem, Escrever, CriacaoUnica
  <1>3. \A e \in Aparelhos : Len(Fila(e)) \in Nat
    BY FilaTipo
  <1>4. /\ \A e \in Aparelhos : e # d => Fila(e)' = Fila(e)
        /\ Len(Fila(d)') = Len(Fila(d)) + 2
        /\ \A i \in 1..Len(Fila(d)) : Fila(d)'[i] = Fila(d)[i]
        /\ Fila(d)'[n] = m
        /\ Fila(d)'[Len(Fila(d)) + 2].op = "data"
    BY <1>1, <1>2, FilaEscrever
  <1>5. \A j \in Ids : original'[j] = IF j = k THEN c ELSE original[j]
    BY <1>2 DEF TypeOKServico, Docs
  <1>6. c # Ausente
    BY EstoqueServiceAssumption
  <1> HIDE DEF m
  <1>7. \A i \in 1..Len(Fila(d)') :
            i \in 1..Len(Fila(d)) \/ i = n \/ i = Len(Fila(d)) + 2
    BY <1>3, <1>4
  \* A creation in a queue after the step is the new one or an old one.
  <1>8. \A e \in Aparelhos : \A i \in 1..Len(Fila(e)') : Fila(e)'[i].op = "set" =>
            \/ e = d /\ i = n
            \/ i \in 1..Len(Fila(e)) /\ Fila(e)'[i] = Fila(e)[i] /\ Cria(e, i)
    BY <1>4, <1>7 DEF Cria
  <1> HIDE DEF n
  <1>9. \A e \in Aparelhos : \A i \in 1..Len(Fila(e)) : Cria(e, i) =>
            /\ Fila(e)[i].id \in Ids /\ Fila(e)[i].id # k
            /\ original'[Fila(e)[i].id] = original[Fila(e)[i].id]
    BY <1>2, <1>5, FilaElemento DEF CriacaoUnica
  <1>10. \A j \in nascidos' : original'[j] # Ausente
    BY <1>2, <1>5, <1>6 DEF CriacaoUnica, TypeOKServico
  <1>11. ASSUME NEW e \in Aparelhos, NEW i \in 1..Len(Fila(e)'),
                Fila(e)'[i].op = "set"
         PROVE  /\ Fila(e)'[i].dados = original'[Fila(e)'[i].id]
                /\ original'[Fila(e)'[i].id] # Ausente
                /\ Fila(e)'[i].id \in nascidos' =>
                      i <= feitos'[e] \/ i <= reenvio'[e]
    <2>1. CASE e = d /\ i = n
      BY <2>1, <1>1, <1>2, <1>4, <1>5, <1>6
    <2>2. CASE i \in 1..Len(Fila(e)) /\ Fila(e)'[i] = Fila(e)[i] /\ Cria(e, i)
      BY <2>2, <1>2, <1>9 DEF CriacaoUnica
    <2> QED
      BY <2>1, <2>2, <1>8, <1>11
  <1>12. ASSUME NEW e \in Aparelhos, NEW f \in Aparelhos,
                NEW i \in 1..Len(Fila(e)'), NEW j \in 1..Len(Fila(f)'),
                Fila(e)'[i].op = "set", Fila(f)'[j].op = "set",
                Fila(e)'[i].id = Fila(f)'[j].id
         PROVE  e = f /\ i = j
    <2>1. CASE e = d /\ i = n
      BY <2>1, <1>1, <1>4, <1>8, <1>9, <1>12
    <2>2. CASE f = d /\ j = n
      BY <2>2, <1>1, <1>4, <1>8, <1>9, <1>12
    <2>3. CASE ~(e = d /\ i = n) /\ ~(f = d /\ j = n)
      BY <2>3, <1>8, <1>12 DEF CriacaoUnica
    <2> QED
      BY <2>1, <2>2, <2>3
  <1> QED
    BY <1>10, <1>11, <1>12 DEF CriacaoUnica, Cria

LEMMA CriacaoConfirmar ==
    ASSUME TypeOKServico, CriacaoUnica, NEW d \in Aparelhos, Confirmar(d)
    PROVE  CriacaoUnica'
  <1> DEFINE m == Proxima(d)
             n == feitos[d] + 1
  <1>1. /\ \A e \in Aparelhos : Fila(e)' = Fila(e)
        /\ UNCHANGED <<pend, reenvio, original>> /\ HaEnviada(d)
        /\ nascidos' = nascidos \cup (IF m.op = "set" THEN {m.id} ELSE {})
        /\ \A e \in Aparelhos : feitos'[e] = IF e = d THEN n ELSE feitos[e]
    BY DEF Confirmar, Fila, TypeOKServico
  <1>2. n \in 1..Len(Fila(d)) /\ Fila(d)[n] = m /\ feitos[d] \in Nat
    BY <1>1, FilaProxima
  <1> HIDE DEF m
  <1>3. m.op = "set" => Cria(d, n) /\ original[m.id] # Ausente
    BY <1>2 DEF Cria, CriacaoUnica
  <1>4. ASSUME NEW e \in Aparelhos, NEW i \in 1..Len(Fila(e)), Cria(e, i),
               Fila(e)[i].id \in nascidos'
        PROVE  i <= feitos'[e] \/ i <= reenvio'[e]
    <2>1. CASE m.op = "set" /\ Fila(e)[i].id = m.id
      <3>1. e = d /\ i = n
        BY <1>2, <1>3, <1>4, <2>1 DEF CriacaoUnica
      <3> QED
        BY <3>1, <1>1, <1>2
    <2>2. CASE Fila(e)[i].id \in nascidos
      <3>1. i <= feitos[e] \/ i <= reenvio[e]
        BY <1>4, <2>2 DEF CriacaoUnica
      <3>2. i \in Int
        OBVIOUS
      <3> QED
        BY <3>1, <3>2, <1>1, <1>2
    <2> QED
      BY <2>1, <2>2, <1>1, <1>4
  <1>5. \A k \in nascidos' : original'[k] # Ausente
    BY <1>1, <1>3 DEF CriacaoUnica
  <1> QED
    BY <1>1, <1>4, <1>5 DEF CriacaoUnica, Cria

\* When the head leaves the queue everything moves up by one place: the
\* queued writes and the counts of the committed ones.
LEMMA CriacaoRetirar ==
    ASSUME TypeOKServico, CriacaoUnica, NEW d \in Aparelhos, Retirar(d),
           pend[d] # <<>>, UNCHANGED <<emCurso, original, nascidos>>
    PROVE  CriacaoUnica'
  <1>1. \A e \in Aparelhos : e # d =>
              /\ Fila(e)' = Fila(e)
              /\ reenvio'[e] = reenvio[e] /\ feitos'[e] = feitos[e]
    BY FilaRetirar DEF Retirar, TypeOKServico
  <1>2. /\ Len(Fila(d)') = Len(Fila(d)) - 1 /\ Len(Fila(d)) \in Nat
        /\ \A i \in 1..(Len(Fila(d)) - 1) : Fila(d)'[i] = Fila(d)[i + 1]
    BY FilaRetirar, FilaTipo
  <1>3. /\ feitos[d] \in Nat /\ reenvio[d] \in Nat
        /\ feitos'[d] = Menos1(feitos[d]) /\ reenvio'[d] = Menos1(reenvio[d])
    BY DEF Retirar, TypeOKServico
  \* The place a queued write had before the step.
  <1> DEFINE lugar(e, i) == IF e = d THEN i + 1 ELSE i
  <1>4. ASSUME NEW e \in Aparelhos, NEW i \in 1..Len(Fila(e)')
        PROVE  /\ lugar(e, i) \in 1..Len(Fila(e))
               /\ Fila(e)'[i] = Fila(e)[lugar(e, i)]
               /\ i \in Nat /\ i >= 1
    <2>1. CASE e = d
      BY <2>1, <1>2
    <2>2. CASE e # d
      BY <2>2, <1>1, FilaTipo
    <2> QED
      BY <2>1, <2>2
  <1>5. ASSUME NEW e \in Aparelhos, NEW i \in 1..Len(Fila(e)'),
               Fila(e)'[i].op = "set"
        PROVE  /\ Fila(e)'[i].dados = original'[Fila(e)'[i].id]
               /\ original'[Fila(e)'[i].id] # Ausente
               /\ Fila(e)'[i].id \in nascidos' =>
                     i <= feitos'[e] \/ i <= reenvio'[e]
    <2>1. Cria(e, lugar(e, i))
      BY <1>4, <1>5 DEF Cria
    <2>2. /\ Fila(e)'[i].dados = original[Fila(e)'[i].id]
          /\ original[Fila(e)'[i].id] # Ausente
          /\ Fila(e)'[i].id \in nascidos =>
                lugar(e, i) <= feitos[e] \/ lugar(e, i) <= reenvio[e]
      BY <1>4, <2>1 DEF CriacaoUnica
    <2>3. CASE e = d
      <3>1. i + 1 <= feitos[d] \/ i + 1 <= reenvio[d] =>
               i <= Menos1(feitos[d]) \/ i <= Menos1(reenvio[d])
        BY <1>3, <1>4 DEF Menos1
      <3> QED
        BY <2>2, <2>3, <3>1, <1>3
    <2>4. CASE e # d
      BY <2>2, <2>4, <1>1
    <2> QED
      BY <2>3, <2>4
  <1>6. ASSUME NEW e \in Aparelhos, NEW f \in Aparelhos,
               NEW i \in 1..Len(Fila(e)'), NEW j \in 1..Len(Fila(f)'),
               Fila(e)'[i].op = "set", Fila(f)'[j].op = "set",
               Fila(e)'[i].id = Fila(f)'[j].id
        PROVE  e = f /\ i = j
    <2>1. PICK a \in 1..Len(Fila(e)) : a = lugar(e, i) /\ Fila(e)'[i] = Fila(e)[a]
      BY <1>4
    <2>2. PICK b \in 1..Len(Fila(f)) : b = lugar(f, j) /\ Fila(f)'[j] = Fila(f)[b]
      BY <1>4
    <2>3. Cria(e, a) /\ Cria(f, b) /\ Fila(e)[a].id = Fila(f)[b].id
      BY <2>1, <2>2, <1>6 DEF Cria
    <2>4. e = f /\ a = b
      BY <2>3 DEF CriacaoUnica
    <2> QED
      BY <2>1, <2>2, <2>4, <1>4
  <1>7. \A k \in nascidos' : original'[k] # Ausente
    BY DEF CriacaoUnica
  <1> QED
    BY <1>5, <1>6, <1>7 DEF CriacaoUnica, Cria

LEMMA CriacaoPasso == TypeOKServico /\ CriacaoUnica /\ [NextServico]_estado => CriacaoUnica'
  <1> SUFFICES ASSUME TypeOKServico, CriacaoUnica, [NextServico]_estado
               PROVE  CriacaoUnica'
    OBVIOUS
  <1>1. ASSUME NEW d \in Aparelhos, NEW k \in Ids, NEW c \in Conteudo,
               updateItem(d, k, c)
        PROVE  CriacaoUnica'
    <2> DEFINE m == [op |-> "update", id |-> k, dados |-> c]
    <2>1. m \in Mutacao /\ m.op # "set"
      BY DEF Mutacao
    <2>2. Escrever(d, m) /\ UNCHANGED original
      BY <1>1 DEF updateItem
    <2> HIDE DEF m
    <2> QED
      BY <2>1, <2>2, CriacaoEscrever
  <1>2. ASSUME NEW d \in Aparelhos, NEW k \in Ids, deleteItem(d, k)
        PROVE  CriacaoUnica'
    <2> DEFINE m == [op |-> "delete", id |-> k, dados |-> Ausente]
    <2>1. m \in Mutacao /\ m.op # "set"
      BY DEF Mutacao
    <2>2. Escrever(d, m) /\ UNCHANGED original
      BY <1>2 DEF deleteItem
    <2> HIDE DEF m
    <2> QED
      BY <2>1, <2>2, CriacaoEscrever
  <1>3. ASSUME NEW d \in Aparelhos, Persistir(d) PROVE CriacaoUnica'
    BY <1>3, FilaPersistir, CriacaoFilasIguais DEF Persistir
  <1>4. ASSUME NEW d \in Aparelhos, Negar(d) \/ Observar(d) PROVE CriacaoUnica'
    <2>1. /\ \A e \in Aparelhos : Fila(e)' = Fila(e)
          /\ UNCHANGED <<feitos, reenvio, original, nascidos>>
      BY <1>4 DEF Negar, Observar, Fila
    <2> QED
      BY <2>1, CriacaoFilasIguais
  <1>5. ASSUME NEW d \in Aparelhos,
               OnWriteStreamMutationResult(d) \/ HandleWriteError(d)
        PROVE  CriacaoUnica'
    BY <1>5, RespostaRetira, CriacaoRetirar
  <1>6. ASSUME NEW d \in Aparelhos, Reenviar(d)
        PROVE  \A e \in Aparelhos : \A i \in Nat :
                  i <= feitos[e] \/ i <= reenvio[e] => i <= feitos'[e] \/ i <= reenvio'[e]
    <2> TAKE e \in Aparelhos
    <2>1. CASE e # d
      <3>1. reenvio'[e] = reenvio[e] /\ feitos'[e] = feitos[e]
        BY <1>6, <2>1 DEF Reenviar, TypeOKServico
      <3> QED
        BY <3>1
    <2>2. CASE e = d
      <3>1. /\ reenvio'[d] = IF reenvio[d] < feitos[d] THEN feitos[d] ELSE reenvio[d]
            /\ reenvio[d] \in Nat /\ feitos[d] \in Nat
        BY <1>6 DEF Reenviar, TypeOKServico
      <3> QED
        BY <2>2, <3>1
    <2> QED
      BY <2>1, <2>2
  <1>7. ASSUME NEW d \in Aparelhos, PerderRespostas(d) PROVE CriacaoUnica'
    <2>1. /\ \A e \in Aparelhos : Fila(e)' = Fila(e)
          /\ UNCHANGED <<original, nascidos>> /\ Reenviar(d)
      BY <1>7 DEF PerderRespostas, Fila
    <2> QED
      BY <2>1, <1>6, CriacaoFilasIguais
  <1>8. ASSUME NEW d \in Aparelhos, Reiniciar(d) PROVE CriacaoUnica'
    <2>1. UNCHANGED <<original, nascidos>> /\ Reenviar(d)
      BY <1>8 DEF Reiniciar
    <2>2. ASSUME NEW e \in Aparelhos, NEW i \in 1..Len(Fila(e)')
          PROVE  i \in 1..Len(Fila(e)) /\ Fila(e)'[i] = Fila(e)[i]
      BY <1>8, FilaReiniciar, FilaTipo
    <2> QED
      BY <2>1, <2>2, <1>6, CriacaoFilasMenores
  <1>9. CASE UNCHANGED estado
    <2>1. /\ \A e \in Aparelhos : Fila(e)' = Fila(e)
          /\ UNCHANGED <<feitos, reenvio, original, nascidos>>
      BY <1>9 DEF estado, Fila
    <2> QED
      BY <2>1, CriacaoFilasIguais
  <1> QED
    BY <1>1, <1>2, <1>3, <1>4, <1>5, <1>7, <1>8, <1>9, CriacaoAdd,
       CriacaoConfirmar DEF NextServico, Rede

\* A document is created by one write of one device: addItem draws a fresh
\* id, and neither retries nor restarts duplicate the write.  A creation that
\* was committed and is still queued is within the beginning of the pipeline
\* that the server committed on this stream or on one that died.
THEOREM CriacaoSempreUnica == SpecServico => []CriacaoUnica
  BY CriacaoInicial, CriacaoPasso, TiposServico, PTL DEF SpecServico

----------------------------------------------------------------------------
(* The service implements the abstract stock *)

\* The content each document was born with, as Estoque sees it.
Nascimento == [k \in Ids |-> IF k \in nascidos THEN original[k] ELSE Ausente]

LEMMA RefinaInicial == InitServico => E!Init
  <1> SUFFICES ASSUME InitServico PROVE E!Init
    OBVIOUS
  <1>1. Nascimento = Inicial
    BY EstoqueServiceAssumption DEF InitServico, Nascimento
  <1> QED
    BY <1>1 DEF InitServico, E!Init, Nascimento

\* Steps that touch neither the server's documents nor what was born.
LEMMA RefinaParado ==
    ASSUME UNCHANGED <<docs, nascidos>>, Nascimento' = Nascimento
    PROVE  UNCHANGED E!vars
  BY DEF E!vars, Nascimento

LEMMA RefinaConfirmar ==
    ASSUME TypeOKServico, CriacaoUnica, NEW d \in Aparelhos, Confirmar(d)
    PROVE  [E!Next]_(E!vars)
  <1> DEFINE m == Proxima(d)
  <1>1. m \in Mutacao /\ HaEnviada(d)
    BY ProximaTipo DEF Confirmar
  <1>2. /\ docs' = [k \in Ids |-> Aplica(m, k, docs[k])]
        /\ nascidos' = nascidos \cup (IF m.op = "set" THEN {m.id} ELSE {})
        /\ original' = original
    BY DEF Confirmar
  <1>3. m.op = "set" =>
          m.dados = original[m.id] /\ original[m.id] # Ausente
    <2>1. m = Fila(d)[feitos[d] + 1] /\ feitos[d] + 1 \in 1..Len(Fila(d))
      BY <1>1, FilaProxima
    <2> HIDE DEF m
    <2> QED
      BY <2>1 DEF CriacaoUnica, Cria
  <1> HIDE DEF m
  <1>4. docs \in [Ids -> Conteudo \cup {Ausente}]
        /\ original \in [Ids -> Conteudo \cup {Ausente}]
    BY DEF TypeOKServico, Docs
  <1>5. CASE m.op = "data" \/ (m.op = "update" /\ docs[m.id] = Ausente)
    <2>1. \A k \in Ids : Aplica(m, k, docs[k]) = docs[k]
      BY <1>5 DEF Aplica
    <2>2. docs' = docs
      BY <2>1, <1>2, <1>4
    <2>3. nascidos' = nascidos /\ Nascimento' = Nascimento
      BY <1>2, <1>5 DEF Nascimento
    <2> QED
      BY <2>2, <2>3, RefinaParado
  <1>6. ASSUME m.op # "data", m.op = "update" => docs[m.id] # Ausente
        PROVE  m.id \in Ids /\ docs' = [docs EXCEPT ![m.id] = m.dados]
    <2>1. m.id \in Ids
      BY <1>1, <1>6, MutacaoTipo
    <2>2. \A k \in Ids : Aplica(m, k, docs[k]) = IF k = m.id THEN m.dados ELSE docs[k]
      BY <1>6 DEF Aplica
    <2> QED
      BY <2>1, <2>2, <1>2, <1>4
  <1>7. CASE m.op = "update" /\ docs[m.id] # Ausente
    <2>1. m.id \in Ids /\ docs' = [docs EXCEPT ![m.id] = m.dados]
      BY <1>6, <1>7
    <2>2. nascidos' = nascidos /\ Nascimento' = Nascimento
      BY <1>2, <1>7 DEF Nascimento
    <2>3. m.dados \in Conteudo
      BY <1>1, <1>7, MutacaoTipo
    <2>4. E!Atualizar(m.id, m.dados)
      BY <2>1, <2>2, <1>7 DEF E!Atualizar, Nascimento
    <2> QED
      BY <2>1, <2>3, <2>4 DEF E!Next
  <1>8. CASE m.op = "delete"
    <2>1. m.id \in Ids /\ docs' = [docs EXCEPT ![m.id] = m.dados]
      BY <1>6, <1>8
    <2>2. nascidos' = nascidos /\ Nascimento' = Nascimento
      BY <1>2, <1>8 DEF Nascimento
    <2>3. m.dados = Ausente
      BY <1>1, <1>8, MutacaoTipo
    <2>4. E!Excluir(m.id)
      BY <2>1, <2>2, <2>3 DEF E!Excluir, Nascimento
    <2> QED
      BY <2>1, <2>4 DEF E!Next
  <1>9. CASE m.op = "set"
    <2>1. m.id \in Ids /\ docs' = [docs EXCEPT ![m.id] = m.dados]
      BY <1>6, <1>9
    <2>2. /\ m.dados = original[m.id] /\ m.dados \in Conteudo
          /\ nascidos' = nascidos \cup {m.id}
      BY <1>2, <1>3, <1>4, <1>9, <2>1
    <2>3. CASE m.id \notin nascidos
      <3>1. Nascimento' = [Nascimento EXCEPT ![m.id] = m.dados]
        BY <2>1, <2>2, <2>3, <1>2 DEF Nascimento
      <3>2. PICK c \in Conteudo : c = m.dados
        BY <2>2
      <3>3. E!Criar(m.id, c)
        BY <2>1, <2>2, <2>3, <3>1, <3>2 DEF E!Criar, Nascimento
      <3> QED
        BY <3>3, <2>1 DEF E!Next
    <2>4. CASE m.id \in nascidos
      <3>1. nascidos' = nascidos /\ Nascimento' = Nascimento
        BY <2>2, <2>4, <1>2 DEF Nascimento
      <3>2. CASE docs[m.id] # Ausente
        <4>1. E!Atualizar(m.id, m.dados)
          BY <2>1, <3>1, <3>2 DEF E!Atualizar, Nascimento
        <4> QED
          BY <4>1, <2>1, <2>2 DEF E!Next
      <3>3. CASE docs[m.id] = Ausente
        <4>1. Nascimento[m.id] = m.dados
          BY <2>1, <2>2, <2>4 DEF Nascimento
        <4>2. E!Reviver(m.id)
          BY <2>1, <2>4, <3>1, <3>3, <4>1 DEF E!Reviver, Nascimento
        <4> QED
          BY <4>2, <2>1 DEF E!Next
      <3> QED
        BY <3>2, <3>3
    <2> QED
      BY <2>3, <2>4
  <1> QED
    BY <1>1, <1>5, <1>7, <1>8, <1>9, MutacaoTipo

LEMMA RefinaPasso ==
    TypeOKServico /\ CriacaoUnica /\ [NextServico]_estado => [E!Next]_(E!vars)
  <1> SUFFICES ASSUME TypeOKServico, CriacaoUnica, [NextServico]_estado
               PROVE  [E!Next]_(E!vars)
    OBVIOUS
  <1>1. ASSUME NEW d \in Aparelhos, NEW k \in Ids, NEW c \in Conteudo,
               addItem(d, k, c)
        PROVE  UNCHANGED E!vars
    <2>1. /\ UNCHANGED <<docs, nascidos>> /\ k \notin nascidos
          /\ original' = [original EXCEPT ![k] = c]
      BY <1>1 DEF addItem, Escrever, CriacaoUnica
    <2>2. Nascimento' = Nascimento
      BY <2>1 DEF Nascimento, TypeOKServico, Docs
    <2> QED
      BY <2>1, <2>2, RefinaParado
  <1>2. ASSUME UNCHANGED <<docs, nascidos, original>> PROVE UNCHANGED E!vars
    BY <1>2 DEF E!vars
  <1>3. ASSUME NEW d \in Aparelhos,
               \/ \E k \in Ids, c \in Conteudo : updateItem(d, k, c)
               \/ \E k \in Ids : deleteItem(d, k)
               \/ Persistir(d) \/ Negar(d) \/ OnWriteStreamMutationResult(d)
               \/ HandleWriteError(d) \/ Observar(d) \/ PerderRespostas(d)
               \/ Reiniciar(d)
        PROVE  UNCHANGED <<docs, nascidos, original>>
    BY <1>3 DEF updateItem, deleteItem, Escrever, Persistir, Negar,
                OnWriteStreamMutationResult, HandleWriteError, Observar,
                PerderRespostas, Reiniciar
  <1>4. CASE UNCHANGED estado
    <2>1. UNCHANGED <<docs, nascidos, original>>
      BY <1>4 DEF estado
    <2> QED
      BY <2>1, <1>2
  <1> QED
    BY <1>1, <1>2, <1>3, <1>4, RefinaConfirmar DEF NextServico, Rede

\* Every behaviour of the service is a behaviour of the abstract stock: an
\* edit never creates or revives a document, a creation happens once, and a
\* deleted document can only come back with the content it was born with.
THEOREM ServicoImplementaEstoque == SpecServico => ImplementaEstoque
  BY RefinaInicial, RefinaPasso, TiposServico, CriacaoSempreUnica, PTL
     DEF SpecServico, ImplementaEstoque, E!Spec

----------------------------------------------------------------------------
(* Only a retry of the creation brings a deleted document back *)

LEMMA RessurreicaoPasso ==
    ASSUME TypeOKServico, CriacaoUnica, NextServico, NEW k \in nascidos,
           docs[k] = Ausente, docs'[k] # Ausente
    PROVE  \E d \in Aparelhos :
              /\ feitos[d] < reenvio[d] /\ feitos'[d] = feitos[d] + 1
              /\ Proxima(d).op = "set" /\ Proxima(d).id = k
  <1>1. k \in Ids
    BY DEF TypeOKServico
  <1>2. PICK d \in Aparelhos : Confirmar(d)
    BY DEF NextServico, Rede, addItem, updateItem, deleteItem, Escrever, Persistir,
           Negar, OnWriteStreamMutationResult, HandleWriteError, Observar,
           PerderRespostas, Reiniciar
  <1> DEFINE m == Proxima(d)
             n == feitos[d] + 1
  <1>3. /\ m \in Mutacao /\ docs'[k] = Aplica(m, k, docs[k])
        /\ feitos[d] \in Nat /\ feitos'[d] = n /\ HaEnviada(d)
    BY <1>1, <1>2, ProximaTipo DEF Confirmar, TypeOKServico
  <1>4. m.op # "data" /\ m.id = k /\ m.op # "update" /\ m.dados # Ausente
    BY <1>3 DEF Aplica
  <1>5. m.op = "set"
    BY <1>3, <1>4, MutacaoTipo
  <1>6. n \in 1..Len(Fila(d)) /\ Cria(d, n) /\ Fila(d)[n].id = k
    BY <1>3, <1>4, <1>5, FilaProxima DEF Cria
  <1>7. n <= feitos[d] \/ n <= reenvio[d]
    BY <1>6 DEF CriacaoUnica
  <1>8. feitos[d] < reenvio[d]
    BY <1>3, <1>7 DEF TypeOKServico
  <1> QED
    BY <1>3, <1>4, <1>5, <1>8

\* A deleted item reappears on the server only when the server commits again a
\* creation of the pipeline whose answer died with an earlier stream.
THEOREM SoReenvioRevive == SpecServico => RessurreicaoSoPorReenvio
  <1>1. ASSUME TypeOKServico, CriacaoUnica, [NextServico]_estado
        PROVE  [\A k \in nascidos : docs[k] = Ausente /\ docs'[k] # Ausente =>
                  \E d \in Aparelhos :
                     /\ feitos[d] < reenvio[d] /\ feitos'[d] = feitos[d] + 1
                     /\ Proxima(d).op = "set" /\ Proxima(d).id = k]_estado
    BY <1>1, RessurreicaoPasso
  <1> QED
    BY <1>1, TiposServico, CriacaoSempreUnica, PTL
       DEF SpecServico, RessurreicaoSoPorReenvio

----------------------------------------------------------------------------
(* The form uses the service and nothing else *)

LEMMA FormPasso == [Next]_vars => [NextServico]_estado
  <1> SUFFICES ASSUME [Next]_vars PROVE [NextServico]_estado
    OBVIOUS
  <1>1. ASSUME NEW d \in Aparelhos, Salvar(d) PROVE NextServico
    <2>1. PICK c \in Rascunho :
             /\ verificaCampos(c)
             /\ \/ form[d] = Novo /\ \E k \in Ids : addItem(d, k, c)
                \/ form[d] \in Ids /\ updateItem(d, form[d], c)
      BY <1>1 DEF Salvar
    <2>2. c \in Conteudo
      BY <2>1 DEF verificaCampos
    <2> QED
      BY <2>1, <2>2 DEF NextServico
  <1>2. ASSUME NEW d \in Aparelhos, Abrir(d) \/ SalvarInvalido(d) \/ Voltar(d)
        PROVE  UNCHANGED estado
    BY <1>2 DEF Abrir, SalvarInvalido, Voltar
  <1>3. ASSUME NEW d \in Aparelhos, Excluir(d) PROVE NextServico
    BY <1>3 DEF Excluir, NextServico
  <1>4. ASSUME NEW d \in Aparelhos, Rede(d) \/ ReiniciarApp(d) PROVE NextServico
    BY <1>4 DEF ReiniciarApp, NextServico
  <1>5. CASE UNCHANGED vars
    BY <1>5 DEF vars
  <1> QED
    BY <1>1, <1>2, <1>3, <1>4, <1>5 DEF Next

\* Every behaviour of the item forms is a behaviour of the service: a form
\* only writes through addItem, updateItem and deleteItem, and only what
\* verificaCampos accepted.
THEOREM FormUsaServico == Spec => SpecServico
  BY FormPasso, PTL DEF Spec, Init, SpecServico

\* What the service guarantees holds of the application: items are created
\* once, the collection behaves as the abstract stock, and only a retry of its
\* creation brings a deleted item back.
THEOREM FormMantemGarantias ==
    Spec => []CriacaoUnica /\ ImplementaEstoque /\ RessurreicaoSoPorReenvio
  BY FormUsaServico, CriacaoSempreUnica, ServicoImplementaEstoque, SoReenvioRevive, PTL

----------------------------------------------------------------------------
(* A form only edits what was created *)

\* Inductive: the server, every cache and every unanswered write only know
\* documents that some device created.
ConhecidosServico ==
    /\ \A k \in Ids : docs[k] # Ausente => original[k] # Ausente
    /\ \A d \in Aparelhos, k \in Ids : base[d][k] # Ausente => original[k] # Ausente
    /\ \A d \in Aparelhos : \A i \in 1..Len(Fila(d)) :
          Fila(d)[i].op # "data" => original[Fila(d)[i].id] # Ausente

LEMMA OriginalFica ==
    ASSUME TypeOKServico, [NextServico]_estado, NEW k \in Ids, original[k] # Ausente
    PROVE  original'[k] # Ausente
  <1>1. ASSUME NEW d \in Aparelhos, NEW j \in Ids, NEW c \in Conteudo, addItem(d, j, c)
        PROVE  original'[k] # Ausente
    BY <1>1 DEF addItem, TypeOKServico, Docs
  <1> QED
    BY <1>1 DEF NextServico, Rede, updateItem, deleteItem, Persistir, Confirmar, Negar,
           OnWriteStreamMutationResult, HandleWriteError, Observar, PerderRespostas,
           Reiniciar, estado

\* A write of m, which is about a document that exists by then.
LEMMA ConhecidosEscrever ==
    ASSUME TypeOKServico, ConhecidosServico, NEW d \in Aparelhos, NEW m \in Mutacao,
           Escrever(d, m), m.op # "data" => original'[m.id] # Ausente,
           \A k \in Ids : original[k] # Ausente => original'[k] # Ausente
    PROVE  ConhecidosServico'
  <1>1. UNCHANGED <<docs, base>>
    BY DEF Escrever
  <1>2. ASSUME NEW e \in Aparelhos, NEW i \in 1..Len(Fila(e)), Fila(e)[i].op # "data"
        PROVE  original'[Fila(e)[i].id] # Ausente
    <2>1. Fila(e)[i] \in Mutacao
      BY FilaElemento
    <2>2. Fila(e)[i].id \in Ids
      BY <1>2, <2>1, MutacaoTipo
    <2> QED
      BY <1>2, <2>2 DEF ConhecidosServico
  <1>3. ASSUME NEW e \in Aparelhos, NEW i \in 1..Len(Fila(e)'), Fila(e)'[i].op # "data"
        PROVE  original'[Fila(e)'[i].id] # Ausente
    <2>1. CASE e # d
      BY <1>2, <1>3, <2>1, FilaEscrever
    <2>2. CASE e = d
      <3>1. Len(Fila(d)) \in Nat
        BY FilaTipo
      <3>2. \/ i \in 1..Len(Fila(d))
            \/ i = Len(Fila(d)) + 1
            \/ i = Len(Fila(d)) + 2
        BY <2>2, <3>1, FilaEscrever
      <3> QED
        BY <1>2, <1>3, <2>2, <3>2, FilaEscrever
    <2> QED
      BY <2>1, <2>2
  <1> QED
    BY <1>1, <1>3 DEF ConhecidosServico

LEMMA ConhecidosPasso ==
    TypeOKServico /\ ConhecidosServico /\ [NextServico]_estado => ConhecidosServico'
  <1> SUFFICES ASSUME TypeOKServico, ConhecidosServico, [NextServico]_estado
               PROVE  ConhecidosServico'
    OBVIOUS
  <1>0. \A k \in Ids : original[k] # Ausente => original'[k] # Ausente
    BY OriginalFica
  <1>1. ASSUME NEW d \in Aparelhos, NEW k \in Ids, NEW c \in Conteudo,
               addItem(d, k, c)
        PROVE  ConhecidosServico'
    <2> DEFINE m == [op |-> "set", id |-> k, dados |-> c]
    <2>1. m \in Mutacao /\ m.id = k
      BY DEF Mutacao
    <2>2. Escrever(d, m) /\ original'[k] # Ausente
      BY <1>1, EstoqueServiceAssumption DEF addItem, TypeOKServico, Docs
    <2> HIDE DEF m
    <2> QED
      BY <1>0, <2>1, <2>2, ConhecidosEscrever
  <1>2. ASSUME NEW d \in Aparelhos, NEW k \in Ids, NEW c \in Conteudo,
               updateItem(d, k, c)
        PROVE  ConhecidosServico'
    <2> DEFINE m == [op |-> "update", id |-> k, dados |-> c]
    <2>1. m \in Mutacao /\ m.id = k
      BY DEF Mutacao
    <2>2. Escrever(d, m) /\ original[k] # Ausente
      BY <1>2 DEF updateItem
    <2> HIDE DEF m
    <2> QED
      BY <1>0, <2>1, <2>2, ConhecidosEscrever
  <1>3. ASSUME NEW d \in Aparelhos, NEW k \in Ids, deleteItem(d, k)
        PROVE  ConhecidosServico'
    <2> DEFINE m == [op |-> "delete", id |-> k, dados |-> Ausente]
    <2>1. m \in Mutacao /\ m.id = k
      BY DEF Mutacao
    <2>2. Escrever(d, m) /\ original[k] # Ausente
      BY <1>3 DEF deleteItem
    <2> HIDE DEF m
    <2> QED
      BY <1>0, <2>1, <2>2, ConhecidosEscrever
  <1>4. ASSUME UNCHANGED <<docs, base, original>>, \A e \in Aparelhos : Fila(e)' = Fila(e)
        PROVE  ConhecidosServico'
    BY <1>4 DEF ConhecidosServico
  <1>5. ASSUME NEW d \in Aparelhos, Persistir(d) PROVE ConhecidosServico'
    BY <1>4, <1>5, FilaPersistir DEF Persistir
  <1>6. ASSUME NEW d \in Aparelhos, NEW i \in 1..Len(Fila(d)), NEW k \in Ids, NEW v,
               v # Ausente => original[k] # Ausente,
               Aplica(Fila(d)[i], k, v) # Ausente
        PROVE  original[k] # Ausente
    <2>1. Fila(d)[i].op # "data" => original[Fila(d)[i].id] # Ausente
      BY DEF ConhecidosServico
    <2> QED
      BY <1>6, <2>1 DEF Aplica
  <1>7. ASSUME NEW d \in Aparelhos, Confirmar(d) PROVE ConhecidosServico'
    <2>0. feitos[d] + 1 \in 1..Len(Fila(d)) /\ Fila(d)[feitos[d] + 1] = Proxima(d)
      BY <1>7, FilaProxima DEF Confirmar
    <2>1. \A k \in Ids : docs'[k] # Ausente => original[k] # Ausente
      BY <1>6, <1>7, <2>0 DEF Confirmar, ConhecidosServico
    <2>2. UNCHANGED <<base, original>> /\ \A e \in Aparelhos : Fila(e)' = Fila(e)
      BY <1>7 DEF Confirmar, Fila
    <2> QED
      BY <2>1, <2>2 DEF ConhecidosServico
  <1>8. ASSUME NEW d \in Aparelhos, Negar(d) \/ PerderRespostas(d) PROVE ConhecidosServico'
    BY <1>4, <1>8 DEF Negar, PerderRespostas, Fila
  <1>9. ASSUME NEW d \in Aparelhos,
               OnWriteStreamMutationResult(d) \/ HandleWriteError(d)
        PROVE  ConhecidosServico'
    <2>0. Retirar(d) /\ pend[d] # <<>> /\ UNCHANGED emCurso
      BY <1>9, RespostaRetira
    <2>1. /\ UNCHANGED <<docs, original>> /\ pend[d] # <<>>
          /\ 1 \in 1..Len(Fila(d)) /\ Fila(d)[1] = Head(pend[d])
      BY <1>9, RespostaRetira, FilaCabeca
    <2>2. \A e \in Aparelhos, k \in Ids : base'[e][k] # Ausente => original[k] # Ausente
      <3> TAKE e \in Aparelhos, k \in Ids
      <3>1. base'[e] = base[e] \/
            (e = d /\ base'[e] = [j \in Ids |-> Aplica(Head(pend[d]), j, base[d][j])])
        BY <1>9 DEF OnWriteStreamMutationResult, HandleWriteError, TypeOKServico
      <3>2. CASE base'[e] = base[e]
        BY <3>2 DEF ConhecidosServico
      <3>3. CASE e = d /\ base'[e] = [j \in Ids |-> Aplica(Head(pend[d]), j, base[d][j])]
        <4>1. base'[e][k] = Aplica(Head(pend[d]), k, base[d][k])
          BY <3>3
        <4>2. base[d][k] # Ausente => original[k] # Ausente
          BY DEF ConhecidosServico
        <4> QED
          BY <1>6, <2>1, <4>1, <4>2
      <3> QED
        BY <3>1, <3>2, <3>3
    <2>3. \A e \in Aparelhos : \A i \in 1..Len(Fila(e)') :
             Fila(e)'[i].op # "data" => original[Fila(e)'[i].id] # Ausente
      <3> TAKE e \in Aparelhos
      <3>1. CASE e # d
        BY <2>0, <2>1, <3>1, FilaRetirar DEF ConhecidosServico
      <3>2. CASE e = d
        <4>1. Len(Fila(d)) \in Nat
          BY FilaTipo
        <4>2. /\ Len(Fila(d)') = Len(Fila(d)) - 1
              /\ \A i \in 1..(Len(Fila(d)) - 1) :
                    i + 1 \in 1..Len(Fila(d)) /\ Fila(d)'[i] = Fila(d)[i + 1]
          BY <2>0, <4>1, FilaRetirar
        <4> QED
          BY <3>2, <4>2 DEF ConhecidosServico
      <3> QED
        BY <3>1, <3>2
    <2> QED
      BY <2>1, <2>2, <2>3 DEF ConhecidosServico
  <1>10. ASSUME NEW d \in Aparelhos, Observar(d) PROVE ConhecidosServico'
    <2>1. \A e \in Aparelhos : base'[e] \in {base[e], docs}
      BY <1>10 DEF Observar, TypeOKServico
    <2>2. UNCHANGED <<docs, original>> /\ \A e \in Aparelhos : Fila(e)' = Fila(e)
      BY <1>10 DEF Observar, Fila
    <2> QED
      BY <2>1, <2>2 DEF ConhecidosServico
  <1>11. ASSUME NEW d \in Aparelhos, Reiniciar(d) PROVE ConhecidosServico'
    <2>1. UNCHANGED <<docs, base, original>>
      BY <1>11 DEF Reiniciar
    <2>2. ASSUME NEW e \in Aparelhos, NEW i \in 1..Len(Fila(e)')
          PROVE  i \in 1..Len(Fila(e)) /\ Fila(e)'[i] = Fila(e)[i]
      BY <1>11, FilaReiniciar, FilaTipo
    <2> QED
      BY <2>1, <2>2 DEF ConhecidosServico
  <1>12. CASE UNCHANGED estado
    BY <1>4, <1>12 DEF estado, Fila
  <1> QED
    BY <1>1, <1>2, <1>3, <1>5, <1>7, <1>8, <1>9, <1>10, <1>11, <1>12 DEF NextServico, Rede

\* A device shows only documents that were created: nothing but a creation
\* brings a document to its cache or to its queue.
LEMMA VistaConhecida ==
    ASSUME TypeOKServico, ConhecidosServico, NEW d \in Aparelhos, NEW k \in Ids,
           original[k] = Ausente
    PROVE  Vista(d)[k] = Ausente
  <1> DEFINE n == Len(pend[d])
             P(f) == f = [i \in 0..n |->
                            IF i = 0 THEN base[d][k] ELSE Aplica(pend[d][i], k, f[i - 1])]
             Ate == CHOOSE f : P(f)
  <1>1. Vista(d)[k] = Ate[n]
    BY DEF Vista
  <1>2. n \in Nat /\ pend[d] \in Seq(Mutacao) /\ base[d][k] = Ausente
    BY LenProperties DEF TypeOKServico, ConhecidosServico
  <1>3. ASSUME NEW i \in 1..n PROVE Aplica(pend[d][i], k, Ausente) = Ausente
    <2>1. i \in 1..Len(Fila(d)) /\ Fila(d)[i] = pend[d][i]
      BY FilaInicio
    <2>2. pend[d][i].op # "data" => pend[d][i].id # k
      BY <2>1 DEF ConhecidosServico
    <2> QED
      BY <2>2 DEF Aplica
  <1> HIDE DEF n
  <1>4. P([i \in 0..n |-> Ausente])
    BY <1>2, <1>3
  <1>5. P(Ate)
    BY <1>4
  <1> HIDE DEF Ate
  <1>6. Ate[0] = Ausente /\ \A i \in 1..n : Ate[i] = Aplica(pend[d][i], k, Ate[i - 1])
    BY <1>2, <1>5
  <1> DEFINE S == {i \in 0..n : Ate[i] = Ausente}
  <1>7. 0 \in S /\ \A i \in 1..n : i - 1 \in S => i \in S
    BY <1>2, <1>3, <1>6
  <1> HIDE DEF S
  <1>8. \A i \in 0..n : i \in S
    BY <1>2, <1>7, InducaoAte
  <1> QED
    BY <1>1, <1>2, <1>8 DEF S

FormTipo == form \in [Aparelhos -> {Fechado, Novo} \cup {k \in Ids : original[k] # Ausente}]

LEMMA FormTipoPasso ==
    ASSUME TypeOKServico, ConhecidosServico, FormTipo, [Next]_vars
    PROVE  FormTipo'
  <1> DEFINE Abertos == {Fechado, Novo} \cup {k \in Ids : original[k] # Ausente}
  <1>1. Abertos \subseteq Abertos'
    BY FormPasso, OriginalFica
  <1>2. form \in [Aparelhos -> Abertos']
    BY <1>1 DEF FormTipo
  <1>3. ASSUME NEW d \in Aparelhos, Abrir(d) PROVE form' \in [Aparelhos -> Abertos']
    <2>1. PICK f \in {Novo} \cup {k \in Ids : Vista(d)[k] # Ausente} :
             form' = [form EXCEPT ![d] = f]
      BY <1>3 DEF Abrir
    <2>2. f \in Abertos
      BY <2>1, VistaConhecida
    <2> QED
      BY <1>1, <1>2, <2>1, <2>2
  <1>4. ASSUME NEW d \in Aparelhos, Fechar(d) PROVE form' \in [Aparelhos -> Abertos']
    BY <1>2, <1>4 DEF Fechar
  <1>5. ASSUME UNCHANGED form PROVE form' \in [Aparelhos -> Abertos']
    BY <1>2, <1>5
  <1>6. form' \in [Aparelhos -> Abertos']
    BY <1>3, <1>4, <1>5
       DEF Next, Salvar, SalvarInvalido, Excluir, Voltar, ReiniciarApp, vars
  <1> QED
    BY <1>6 DEF FormTipo

\* The forms and the service keep their types: in particular a form is only
\* ever open on an item that some device created, so that what "Salvar" and
\* "Excluir" write names a document that has existed.
THEOREM TiposFormItem == Spec => []TypeOK
  <1>1. Init => ConhecidosServico /\ FormTipo
    <2> SUFFICES ASSUME Init PROVE ConhecidosServico /\ FormTipo
      OBVIOUS
    <2>1. \A d \in Aparelhos : Fila(d) = <<>>
      BY DEF Init, InitServico, Fila
    <2>2. ConhecidosServico
      BY <2>1 DEF Init, InitServico, ConhecidosServico
    <2> QED
      BY <2>2 DEF Init, FormTipo
  <1>2. TypeOKServico /\ FormTipo => TypeOK
    BY DEF TypeOK, FormTipo
  <1>3. TypeOKServico /\ ConhecidosServico /\ FormTipo /\ [Next]_vars
           => ConhecidosServico' /\ FormTipo'
    BY FormPasso, ConhecidosPasso, FormTipoPasso
  <1>4. Spec => []TypeOKServico
    BY FormUsaServico, TiposServico, PTL
  <1> QED
    BY <1>1, <1>2, <1>3, <1>4, PTL DEF Spec
=============================================================================
