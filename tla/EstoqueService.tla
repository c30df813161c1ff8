--------------------------- MODULE EstoqueService ---------------------------
(***************************************************************************)
(* The writes of EstoqueService from several devices to one collection.    *)
(*                                                                         *)
(* addItem, updateItem and deleteItem each hand Firestore two independent  *)
(* writes, the item and the field `data` of the NGO, and report success    *)
(* before either is stored.  The Firestore client of each device persists  *)
(* its writes one by one in a queue and sends the first kMaxPendingWrites  *)
(* of them, the write pipeline, without waiting for answers; the answers   *)
(* come back in order.  When the stream or the process dies, everything    *)
(* still in the pipeline is sent again, whatever the server did with it.   *)
(* The queue survives a restart of the app; a write not yet persisted does *)
(* not.                                                                    *)
(***************************************************************************)
EXTENDS Integers, Sequences, FiniteSets

CONSTANTS
    Aparelhos,   \* devices running RelpiAdmin for this NGO
    Ids,         \* ids document() may generate
    Conteudo,    \* valid contents of an item
    Ausente,     \* "no document with this id"
    Inicial,     \* the documents everyone has when the history starts
    kMaxPendingWrites,   \* capacity of the write pipeline (10 in the code)
    MaxHora,     \* bound on the clock, and so on the operations
    MaxFalhas    \* bound on lost connections and restarts

ASSUME EstoqueServiceAssumption ==
    /\ Ausente \notin Conteudo
    /\ Inicial \in [Ids -> Conteudo \cup {Ausente}]
    /\ kMaxPendingWrites \in Nat \ {0}
    /\ MaxHora \in Nat
    /\ MaxFalhas \in Nat

VARIABLES
    docs,       \* server: ong/<idOng>/estoque
    data,       \* server: field `data` of ong/<idOng>
    hora,       \* the clock Date() reads
    emCurso,    \* per device: writes handed to Firestore, not yet persisted
    pend,       \* per device: the persisted mutation queue
    feitos,     \* per device: the first writes of pend that the server has
                \*   committed on this stream, their answers on the way
    recusa,     \* per device: the server closed the stream over the next one
    vistos,     \* per device: of `feitos`, those older than the last watch view
    base,       \* per device: cache of the documents the server sent
    falhas,     \* lost connections and restarts so far
    original,   \* history: content given to addItem for each generated id
    nascidos,   \* history: ids that have ever been on the server
    reenvio     \* history, per device: the first writes of pend that were
                \*   committed on a stream that died

estado == <<docs, data, hora, emCurso, pend, feitos, recusa, vistos, base,
            falhas, original, nascidos, reenvio>>

Docs == [Ids -> Conteudo \cup {Ausente}]

Mutacao ==
    [op : {"set", "update"}, id : Ids, dados : Conteudo]
      \cup [op : {"delete"}, id : Ids, dados : {Ausente}]
      \cup [op : {"data"}, hora : Nat]

InitServico ==
    /\ docs = Inicial
    /\ data = 0
    /\ hora = 0
    /\ emCurso = [d \in Aparelhos |-> <<>>]
    /\ pend = [d \in Aparelhos |-> <<>>]
    /\ feitos = [d \in Aparelhos |-> 0]
    /\ recusa = [d \in Aparelhos |-> FALSE]
    /\ vistos = [d \in Aparelhos |-> 0]
    /\ base = [d \in Aparelhos |-> Inicial]
    /\ falhas = 0
    /\ original = Inicial
    /\ nascidos = {k \in Ids : Inicial[k] # Ausente}
    /\ reenvio = [d \in Aparelhos |-> 0]

----------------------------------------------------------------------------
(* EstoqueService *)

\* One call of the service: the item's write, then updateDate's write of the
\* device's clock; neither is waited for.
Escrever(d, m) ==
    /\ hora < MaxHora
    /\ hora' = hora + 1
    /\ emCurso' = [emCurso EXCEPT ![d] =
                      @ \o <<m, [op |-> "data", hora |-> hora + 1]>>]
    /\ UNCHANGED <<docs, data, pend, feitos, recusa, vistos, base, falhas,
                   nascidos, reenvio>>

\* Mutant: the id of the document may have been used before.
addItemIdRepetido(d, k, c) ==
    /\ original' = [original EXCEPT ![k] = c]
    /\ Escrever(d, [op |-> "set", id |-> k, dados |-> c])

\* setData on a document with a new id.
addItem(d, k, c) ==
    /\ original[k] = Ausente
    /\ original' = [original EXCEPT ![k] = c]
    /\ Escrever(d, [op |-> "set", id |-> k, dados |-> c])

\* Mutant: setData in place of updateData.
updateItemComSet(d, k, c) ==
    /\ original[k] # Ausente
    /\ Escrever(d, [op |-> "set", id |-> k, dados |-> c])
    /\ UNCHANGED original

\* updateData: a patch that requires the document to exist.
updateItem(d, k, c) ==
    /\ original[k] # Ausente
    /\ Escrever(d, [op |-> "update", id |-> k, dados |-> c])
    /\ UNCHANGED original

deleteItem(d, k) ==
    /\ original[k] # Ausente
    /\ Escrever(d, [op |-> "delete", id |-> k, dados |-> Ausente])
    /\ UNCHANGED original

----------------------------------------------------------------------------
(* Firestore client and server *)

\* The content of document k after m, when it was v before.
Aplica(m, k, v) ==
    IF m.op = "data" THEN v
    ELSE IF m.id # k \/ (m.op = "update" /\ v = Ausente) THEN v
    ELSE m.dados

\* What the device shows: its cache under its own pending writes.
Vista(d) ==
    [k \in Ids |->
        LET Ate[n \in 0..Len(pend[d])] ==
                IF n = 0 THEN base[d][k] ELSE Aplica(pend[d][n], k, Ate[n - 1])
        IN  Ate[Len(pend[d])]]

\* LocalStore::WriteLocally: the next write is persisted.
Persistir(d) ==
    /\ emCurso[d] # <<>>
    /\ emCurso' = [emCurso EXCEPT ![d] = Tail(@)]
    /\ pend' = [pend EXCEPT ![d] = Append(@, Head(emCurso[d]))]
    /\ UNCHANGED <<docs, data, hora, feitos, recusa, vistos, base, falhas,
                   original, nascidos, reenvio>>

\* write_pipeline_: FillWritePipeline runs after every persisted write and
\* after every answer, so it holds the first writes of the queue.
Canal(d) == IF Len(pend[d]) < kMaxPendingWrites THEN Len(pend[d])
                                                ELSE kMaxPendingWrites

\* A write of the pipeline that the server, which takes them in order, has
\* not looked at yet; it looks at none after one it refused.
HaEnviada(d) == feitos[d] < Canal(d) /\ ~recusa[d]
Proxima(d) == pend[d][feitos[d] + 1]

Aceitavel(m) == m.op = "update" => docs[m.id] # Ausente

\* The server commits the next write of the stream; the client does not wait
\* for this before it sends the following ones.
Confirmar(d) ==
    /\ HaEnviada(d) /\ Aceitavel(Proxima(d))
    /\ feitos' = [feitos EXCEPT ![d] = @ + 1]
    /\ LET m == Proxima(d) IN
         /\ docs' = [k \in Ids |-> Aplica(m, k, docs[k])]
         /\ nascidos' = nascidos \cup (IF m.op = "set" THEN {m.id} ELSE {})
         /\ data' = IF m.op = "data" THEN m.hora ELSE data
    /\ UNCHANGED <<hora, emCurso, pend, recusa, vistos, base, falhas, original,
                   reenvio>>

\* The server refuses the next write for good (no document to patch, security
\* rules) and closes the stream over it.
Negar(d) ==
    /\ HaEnviada(d)
    /\ recusa' = [recusa EXCEPT ![d] = TRUE]
    /\ UNCHANGED <<docs, data, hora, emCurso, pend, feitos, vistos, base, falhas,
                   original, nascidos, reenvio>>

Menos1(n) == IF n = 0 THEN 0 ELSE n - 1

\* The head of the queue is answered and leaves it.
Retirar(d) ==
    /\ pend' = [pend EXCEPT ![d] = Tail(@)]
    /\ feitos' = [feitos EXCEPT ![d] = Menos1(@)]
    /\ vistos' = [vistos EXCEPT ![d] = Menos1(@)]
    /\ reenvio' = [reenvio EXCEPT ![d] = Menos1(@)]

\* Mutant: the answered write is left in the queue.
ResultadoSemRetirar(d) ==
    /\ feitos[d] > 0
    /\ feitos' = [feitos EXCEPT ![d] = Menos1(@)]
    /\ vistos' = [vistos EXCEPT ![d] = Menos1(@)]
    /\ UNCHANGED <<docs, data, hora, emCurso, pend, recusa, base, falhas, original,
                   nascidos, reenvio>>

\* The result of the oldest write arrives (HandleSuccessfulWrite): it reaches
\* the cache unless watch brought something newer.
OnWriteStreamMutationResult(d) ==
    /\ feitos[d] > 0
    /\ base' = [base EXCEPT ![d] =
                  IF vistos[d] = 0
                  THEN [k \in Ids |-> Aplica(Head(pend[d]), k, @[k])]
                  ELSE @]
    /\ Retirar(d)
    /\ UNCHANGED <<docs, data, hora, emCurso, recusa, falhas, original, nascidos>>

\* Mutant: a refused write stays at the head of the queue.
HandleWriteErrorSemDescartar(d) ==
    /\ feitos[d] = 0 /\ recusa[d]
    /\ recusa' = [recusa EXCEPT ![d] = FALSE]
    /\ UNCHANGED <<docs, data, hora, emCurso, pend, feitos, vistos, base, falhas,
                   original, nascidos, reenvio>>

\* The stream closes with a permanent error, after the results of the earlier
\* writes: the head is dropped (HandleRejectedWrite) and the rest is sent
\* again on a new stream.
HandleWriteError(d) ==
    /\ feitos[d] = 0 /\ recusa[d]
    /\ recusa' = [recusa EXCEPT ![d] = FALSE]
    /\ Retirar(d)
    /\ UNCHANGED <<docs, data, hora, emCurso, base, falhas, original, nascidos>>

\* ApplyRemoteEvent: the watch stream brings the server's documents.
Observar(d) ==
    /\ base[d] # docs \/ vistos[d] < feitos[d]
    /\ base' = [base EXCEPT ![d] = docs]
    /\ vistos' = [vistos EXCEPT ![d] = feitos[d]]
    /\ UNCHANGED <<docs, data, hora, emCurso, pend, feitos, recusa, falhas,
                   original, nascidos, reenvio>>

\* The stream dies with the answers on it.  The new one is sent the whole
\* pipeline, the writes the server has committed included.
Reenviar(d) ==
    /\ feitos' = [feitos EXCEPT ![d] = 0]
    /\ recusa' = [recusa EXCEPT ![d] = FALSE]
    /\ vistos' = [vistos EXCEPT ![d] = 0]
    /\ reenvio' = [reenvio EXCEPT ![d] = IF @ < feitos[d] THEN feitos[d] ELSE @]

\* The write stream closes with a transient error, or its network is restarted.
PerderRespostas(d) ==
    /\ falhas < MaxFalhas /\ (feitos[d] > 0 \/ recusa[d])
    /\ falhas' = falhas + 1
    /\ Reenviar(d)
    /\ UNCHANGED <<docs, data, hora, emCurso, pend, base, original, nascidos>>

\* The app is killed and started again.
Reiniciar(d) ==
    /\ falhas < MaxFalhas
    /\ falhas' = falhas + 1
    /\ emCurso' = [emCurso EXCEPT ![d] = <<>>]
    /\ Reenviar(d)
    /\ UNCHANGED <<docs, data, hora, pend, base, original, nascidos>>

Rede(d) ==
    \/ Persistir(d) \/ Confirmar(d) \/ Negar(d) \/ OnWriteStreamMutationResult(d)
    \/ HandleWriteError(d) \/ Observar(d) \/ PerderRespostas(d)

NextServico ==
    \E d \in Aparelhos :
        \/ \E k \in Ids, c \in Conteudo : addItem(d, k, c) \/ updateItem(d, k, c)
        \/ \E k \in Ids : deleteItem(d, k)
        \/ Rede(d)
        \/ Reiniciar(d)

SpecServico == InitServico /\ [][NextServico]_estado

----------------------------------------------------------------------------
(* Properties *)

\* Only writes of the pipeline are ever on the server unanswered.
NoCanal(d) ==
    /\ vistos[d] <= feitos[d] /\ feitos[d] <= Canal(d) /\ reenvio[d] <= Canal(d)
    /\ recusa[d] => feitos[d] < Canal(d)

TypeOKServico ==
    /\ docs \in Docs
    /\ data \in Nat /\ hora \in Nat /\ falhas \in Nat
    /\ emCurso \in [Aparelhos -> Seq(Mutacao)]
    /\ pend \in [Aparelhos -> Seq(Mutacao)]
    /\ feitos \in [Aparelhos -> Nat]
    /\ recusa \in [Aparelhos -> BOOLEAN]
    /\ vistos \in [Aparelhos -> Nat]
    /\ base \in [Aparelhos -> Docs]
    /\ original \in Docs
    /\ nascidos \subseteq Ids
    /\ reenvio \in [Aparelhos -> Nat]
    /\ \A d \in Aparelhos : NoCanal(d)

\* Every write of a device that the server has not answered, oldest first.
Fila(d) == pend[d] \o emCurso[d]
Cria(d, i) == Fila(d)[i].op = "set"

\* A document is created by one write of one device, with the content its
\* form had (addItem draws a fresh id each time).  Once committed, that write
\* is in the queue only while its answer is on the way or after its stream
\* died: the committed writes are always a beginning of the pipeline, never
\* one behind another that the server has not seen.
CriacaoUnica ==
    /\ \A k \in nascidos : original[k] # Ausente
    /\ \A d \in Aparelhos : \A i \in 1..Len(Fila(d)) : Cria(d, i) =>
          /\ Fila(d)[i].dados = original[Fila(d)[i].id]
          /\ original[Fila(d)[i].id] # Ausente
          /\ Fila(d)[i].id \in nascidos =>
                i <= feitos[d] \/ i <= reenvio[d]
    /\ \A d, e \in Aparelhos :
          \A i \in 1..Len(Fila(d)), j \in 1..Len(Fila(e)) :
             Cria(d, i) /\ Cria(e, j) /\ Fila(d)[i].id = Fila(e)[j].id
                => d = e /\ i = j

E == INSTANCE Estoque WITH
        original <- [k \in Ids |-> IF k \in nascidos THEN original[k] ELSE Ausente]

\* The service implements the abstract stock: edits and retries from any
\* device never create a document, and what comes back after a deletion has
\* the content it was created with.
ImplementaEstoque == E!Spec

\* A deleted item reappears on the server only when the server commits for a
\* second time a creation of the pipeline that a device sent again because
\* its answer died with the stream (addItem's setData has no precondition,
\* updateItem's updateData has one).
RessurreicaoSoPorReenvio ==
    [][\A k \in nascidos : docs[k] = Ausente /\ docs'[k] # Ausente =>
          \E d \in Aparelhos :
             /\ feitos[d] < reenvio[d] /\ feitos'[d] = feitos[d] + 1
             /\ Proxima(d).op = "set" /\ Proxima(d).id = k]_estado

\* Once the operations and the failures stop, every device shows the
\* server's documents for good.
Convergem == <>[](\A d \in Aparelhos : Vista(d) = docs)
=============================================================================
