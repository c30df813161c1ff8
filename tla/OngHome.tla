------------------------------ MODULE OngHome ------------------------------
(***************************************************************************)
(* The home screen of an NGO (SobreOngGeralViewModel), in both apps.       *)
(*                                                                         *)
(* It keeps the profile, the stock inside the profile, the photo and one   *)
(* loading flag shared by every request.  Storing a fetched profile erases *)
(* the stock (a stored profile has none: OngService.create clears it), the *)
(* listener ignores snapshots while the stock is nil, and a read of the    *)
(* stock, started at the same time, brings it back.                        *)
(*                                                                         *)
(* The main queue is FIFO; the listener's loop over documentChanges is one *)
(* step, since nothing else runs on the main thread meanwhile.             *)
(***************************************************************************)
EXTENDS Lista, FiniteSets

CONSTANTS
    Vistas,       \* the views of the collection Firestore may publish
    Perfis,       \* profiles the NGO may have: records with a field foto
    SemFoto,      \* foto nil or "": nothing is downloaded
    Nil,          \* ong.estoque == nil
    SemImagem,    \* selectedImage == nil
    MaxFila,      \* bound on the main queue for a new view to be published
    MaxPedidos,   \* bound on reads under way for the user to cause more
    MaxDownloads, \* bound on downloads of one photo for the user to cause more
    MaxFalhas     \* bound on failed reads

ASSUME OngHomeAssumption ==
    /\ Ids \subseteq Nat /\ IsFiniteSet(Ids)
    /\ Ausente \notin Conteudo /\ Ausente \notin Perfis
    /\ Vistas \subseteq Docs
    /\ MaxFila \in Nat /\ MaxPedidos \in Nat /\ MaxDownloads \in Nat /\ MaxFalhas \in Nat

VARIABLES
    colecao,     \* the device's view of ong/<idOng>/estoque
    perfil,      \* the document ong/<idOng>, or Ausente
    ouvindo,     \* the listener has not been ended by an error
    fila,        \* main queue
    visto,       \* the collection according to the snapshots delivered
    ong,         \* viewModel.ong without its stock; Ausente: still blank
    estoque,     \* viewModel.ong.estoque
    imagem,      \* viewModel.selectedImage: the photo it shows
    isLoading,   \* viewModel.isLoading
    pedidosOng,  \* calls of getOng not yet answered, by caller
    pedidosItems,\* calls of getItems not yet answered
    baixando,    \* downloads under way, by photo
    caiu,        \* the process died on a force unwrap
    falhas,      \* failed reads so far
    divergiu,    \* history: the stock last stored differed from `visto`
    vazio,       \* history: a getOng found no document
    atrasada     \* history: the photo on screen may not be the profile's

vars == <<colecao, perfil, ouvindo, fila, visto, ong, estoque, imagem,
          isLoading, pedidosOng, pedidosItems, baixando, caiu, falhas, divergiu, vazio,
          atrasada>>

firestore == <<colecao, perfil, ouvindo>>
tela == <<ong, estoque, imagem, isLoading>>
pedidos == <<pedidosOng, pedidosItems, baixando>>
historia == <<divergiu, vazio, atrasada>>

Modos == {"fetchOng", "fetchOngSemImagem"}
Fotos == {p.foto : p \in Perfis}

Evento ==
    [tipo : {"snapshot", "getItems", "aplicar"}, docs : Docs]
      \cup [tipo : {"erroItems"}]
      \cup [tipo : {"ong"}, modo : Modos, perfil : Perfis]
      \cup [tipo : {"erroOng"}, modo : Modos]
      \cup [tipo : {"imagem"}, foto : Fotos]

----------------------------------------------------------------------------
\* init: blank profile with an empty stock, fetchOng, the listener.
Init ==
    /\ colecao = Nenhum
    /\ perfil \in Perfis \cup {Ausente}
    /\ ouvindo = TRUE
    /\ fila = <<>>
    /\ visto = Nenhum
    /\ ong = Ausente
    /\ estoque = <<>>
    /\ imagem = SemImagem
    /\ isLoading = TRUE
    /\ pedidosOng = [m \in Modos |-> IF m = "fetchOng" THEN 1 ELSE 0]
    /\ pedidosItems = 0
    /\ baixando = [f \in Fotos |-> 0]
    /\ caiu = FALSE
    /\ falhas = 0
    /\ divergiu = FALSE
    /\ vazio = FALSE
    /\ atrasada = FALSE

(***************************************************************************)
(* Firestore, Storage (external).                                          *)
(***************************************************************************)
Enfileirar(e) ==
    /\ ~caiu
    /\ fila' = Append(fila, e)
    /\ UNCHANGED <<visto, tela, caiu>>

Publicar(nova) ==
    /\ ouvindo /\ nova # colecao /\ Len(fila) < MaxFila
    /\ colecao' = nova
    /\ Enfileirar([tipo |-> "snapshot", docs |-> nova])
    /\ UNCHANGED <<perfil, ouvindo, pedidos, falhas, historia>>

\* The server ends the listener: its callback gets no snapshot and returns,
\* nor is it called again.
RecusarListener ==
    /\ ~caiu /\ ouvindo
    /\ ouvindo' = FALSE
    /\ UNCHANGED <<colecao, perfil, fila, visto, tela, pedidos, caiu, falhas, historia>>

MudarSemOuvinte(nova) ==
    /\ ~caiu /\ ~ouvindo /\ nova # colecao
    /\ colecao' = nova
    /\ UNCHANGED <<perfil, ouvindo, fila, visto, tela, pedidos, caiu, falhas, historia>>

\* Another device saves the profile; no listener watches that document.
MudarPerfil(p) ==
    /\ ~caiu /\ p # perfil
    /\ perfil' = p
    /\ UNCHANGED <<colecao, ouvindo, fila, visto, tela, pedidos, caiu, falhas, historia>>

RespostaOng(m) ==
    /\ pedidosOng[m] > 0
    /\ pedidosOng' = [pedidosOng EXCEPT ![m] = @ - 1]
    /\ UNCHANGED <<firestore, pedidosItems, baixando, divergiu, atrasada>>

\* getOng finds the document and completes.
ResponderOng(m) ==
    /\ RespostaOng(m)
    /\ perfil # Ausente
    /\ Enfileirar([tipo |-> "ong", modo |-> m, perfil |-> perfil])
    /\ UNCHANGED <<falhas, vazio>>

\* guard let ong = ongs?.first else { return }: getOng never completes.
NaoResponderOng(m) ==
    /\ ~caiu
    /\ RespostaOng(m)
    /\ perfil = Ausente
    /\ vazio' = TRUE
    /\ UNCHANGED <<fila, visto, tela, caiu, falhas>>

Falhar == falhas < MaxFalhas /\ falhas' = falhas + 1

FalharOng(m) ==
    /\ RespostaOng(m)
    /\ Falhar
    /\ Enfileirar([tipo |-> "erroOng", modo |-> m])
    /\ UNCHANGED vazio

RespostaItems(e) ==
    /\ pedidosItems > 0
    /\ pedidosItems' = pedidosItems - 1
    /\ Enfileirar(e)
    /\ UNCHANGED <<firestore, pedidosOng, baixando, historia>>

ResponderItems ==
    RespostaItems([tipo |-> "getItems", docs |-> colecao]) /\ UNCHANGED falhas

FalharItems == RespostaItems([tipo |-> "erroItems"]) /\ Falhar

FimDownload(f) ==
    /\ baixando[f] > 0
    /\ baixando' = [baixando EXCEPT ![f] = @ - 1]
    /\ UNCHANGED <<firestore, pedidosOng, pedidosItems, divergiu, vazio>>

Baixar(f) ==
    /\ FimDownload(f)
    /\ Enfileirar([tipo |-> "imagem", foto |-> f])
    /\ UNCHANGED <<falhas, atrasada>>

\* downloadImage hands back an error, or data that is no image.
FalharDownload(f) ==
    /\ ~caiu
    /\ FimDownload(f)
    /\ Falhar
    /\ atrasada' = TRUE
    /\ UNCHANGED <<fila, visto, tela, caiu>>

(***************************************************************************)
(* Callbacks on the main thread.                                           *)
(***************************************************************************)
Despachar(tipo) ==
    /\ ~caiu /\ fila # <<>>
    /\ Head(fila).tipo = tipo
    /\ fila' = Tail(fila)
    /\ UNCHANGED <<firestore, falhas, vazio>>

ImagensPendentes ==
    {f \in Fotos : baixando[f] > 0}
      \cup {fila[i].foto : i \in {j \in 1..Len(fila) : fila[j].tipo = "imagem"}}

\* Mutant: the photo is not downloaded when one is already on screen.
fetchImageUmaVez(p, m) ==
    IF m = "fetchOng" /\ p.foto # SemFoto
    THEN /\ baixando' = [baixando EXCEPT ![p.foto] =
                            IF imagem = SemImagem THEN @ + 1 ELSE @]
         /\ atrasada' = (ImagensPendentes \ {p.foto} # {})
    ELSE /\ UNCHANGED baixando
         /\ atrasada' = (atrasada \/ ong = Ausente \/ p.foto # ong.foto)

\* fetchImage, called by fetchOng only.
fetchImage(p, m) ==
    IF m = "fetchOng" /\ p.foto # SemFoto
    THEN /\ baixando' = [baixando EXCEPT ![p.foto] = @ + 1]
         /\ atrasada' = (ImagensPendentes \ {p.foto} # {})
    ELSE /\ UNCHANGED baixando
         /\ atrasada' = (atrasada \/ ong = Ausente \/ p.foto # ong.foto)

\* Mutant: the stock read with the profile is not asked for again.
ReceberOngSemItems ==
    /\ Despachar("ong")
    /\ ong' = Head(fila).perfil
    /\ estoque' = Nil
    /\ fetchImage(Head(fila).perfil, Head(fila).modo)
    /\ isLoading' = FALSE
    /\ UNCHANGED <<visto, imagem, pedidosOng, pedidosItems, caiu, divergiu>>

\* The success branch of fetchOng and of fetchOngSemImagem.
ReceberOng ==
    /\ Despachar("ong")
    /\ ong' = Head(fila).perfil
    /\ estoque' = Nil
    /\ fetchImage(Head(fila).perfil, Head(fila).modo)
    /\ pedidosItems' = pedidosItems + 1
    /\ isLoading' = FALSE
    /\ UNCHANGED <<visto, imagem, pedidosOng, caiu, divergiu>>

\* Mutant: the failure branch leaves the loading view up.
ReceberErroOngCarregando ==
    /\ Despachar("erroOng")
    /\ UNCHANGED <<visto, tela, pedidos, caiu, divergiu, atrasada>>

ReceberErroOng ==
    /\ Despachar("erroOng")
    /\ isLoading' = FALSE
    /\ UNCHANGED <<visto, ong, estoque, imagem, pedidos, caiu, divergiu, atrasada>>

\* fetchItems, success: loading until the second turn of the main queue.
ReceberItems ==
    /\ ~caiu /\ fila # <<>> /\ Head(fila).tipo = "getItems"
    /\ isLoading' = TRUE
    /\ fila' = Append(Tail(fila), [tipo |-> "aplicar", docs |-> Head(fila).docs])
    /\ UNCHANGED <<firestore, visto, ong, estoque, imagem, pedidos, caiu, falhas,
                   historia>>

ReceberErroItems ==
    /\ Despachar("erroItems")
    /\ isLoading' = FALSE
    /\ UNCHANGED <<visto, ong, estoque, imagem, pedidos, caiu, divergiu, atrasada>>

\* The elements of S in increasing order.
EmOrdem(S) ==
    CHOOSE f \in [1..Cardinality(S) -> S] :
        \A i, j \in 1..Cardinality(S) : i < j => f[i] < f[j]

Itens(S, p) == [i \in 1..Cardinality(S) |->
                   [id |-> EmOrdem(S)[i], dados |-> p[EmOrdem(S)[i]]]]

\* Mutant: the flag is cleared by the read, not by the store of its result.
AplicarItemsCarregando ==
    /\ Despachar("aplicar")
    /\ estoque' = Itens({k \in Ids : Head(fila).docs[k] # Ausente}, Head(fila).docs)
    /\ divergiu' = (Head(fila).docs # visto)
    /\ UNCHANGED <<visto, ong, imagem, isLoading, pedidos, caiu, atrasada>>

\* self.ong.estoque = items; self.isLoading = false
AplicarItems ==
    /\ Despachar("aplicar")
    /\ estoque' = Itens({k \in Ids : Head(fila).docs[k] # Ausente}, Head(fila).docs)
    /\ isLoading' = FALSE
    /\ divergiu' = (Head(fila).docs # visto)
    /\ UNCHANGED <<visto, ong, imagem, pedidos, caiu, atrasada>>

AplicarImagem ==
    /\ Despachar("imagem")
    /\ imagem' = Head(fila).foto
    /\ UNCHANGED <<visto, ong, estoque, isLoading, pedidos, caiu, divergiu, atrasada>>

\* What the changes from view `de` to view `para` do to the list s.
Presentes(p) == {k \in Ids : p[k] # Ausente}
Removidos(de, para) == Presentes(de) \ Presentes(para)

Primeira(s, k) == CHOOSE i \in Posicoes(s, k) : \A j \in Posicoes(s, k) : i <= j

SemRemovidos(s, R) ==
    LET ficam == EmOrdem((1..Len(s)) \ {Primeira(s, k) : k \in R})
    IN  [i \in 1..Len(ficam) |-> s[ficam[i]]]

\* Mutant: a duplicate of a removed document is given its missing fields.
ComModificadosSemPara(s, de, para) ==
    [i \in 1..Len(s) |->
        IF s[i].id \in Presentes(de) /\ de[s[i].id] # para[s[i].id]
        THEN [s[i] EXCEPT !.dados = para[s[i].id]]
        ELSE s[i]]

ComModificados(s, de, para) ==
    [i \in 1..Len(s) |->
        IF s[i].id \in Presentes(de) \cap Presentes(para) /\ de[s[i].id] # para[s[i].id]
        THEN [s[i] EXCEPT !.dados = para[s[i].id]]
        ELSE s[i]]

\* Mutant: modified documents keep their old fields.
MudancasSemModified(s, de, para) ==
    SemRemovidos(s, Removidos(de, para)) \o Itens(Presentes(para) \ Presentes(de), para)

Mudancas(s, de, para) ==
    ComModificados(SemRemovidos(s, Removidos(de, para)), de, para)
      \o Itens(Presentes(para) \ Presentes(de), para)

\* Mutant: snapshots are ignored while the loading view is up.
TratarSnapshotCarregado ==
    /\ Despachar("snapshot")
    /\ visto' = Head(fila).docs
    /\ LET some == \E k \in Removidos(visto, Head(fila).docs) : Posicoes(estoque, k) = {}
       IN  IF estoque = Nil \/ isLoading THEN UNCHANGED <<estoque, caiu>>
           ELSE IF some THEN caiu' = TRUE /\ UNCHANGED estoque
           ELSE estoque' = Mudancas(estoque, visto, Head(fila).docs) /\ UNCHANGED caiu
    /\ UNCHANGED <<ong, imagem, isLoading, pedidos, divergiu, atrasada>>

\* The snapshot listener: nothing while the stock is nil; firstIndex(...)!
\* kills the process when a removed document is not in the list.
TratarSnapshot ==
    /\ Despachar("snapshot")
    /\ visto' = Head(fila).docs
    /\ LET some == \E k \in Removidos(visto, Head(fila).docs) : Posicoes(estoque, k) = {}
       IN  IF estoque = Nil THEN UNCHANGED <<estoque, caiu>>
           ELSE IF some THEN caiu' = TRUE /\ UNCHANGED estoque
           ELSE estoque' = Mudancas(estoque, visto, Head(fila).docs) /\ UNCHANGED caiu
    /\ UNCHANGED <<ong, imagem, isLoading, pedidos, divergiu, atrasada>>

(***************************************************************************)
(* The user.                                                               *)
(***************************************************************************)

\* The loading view of the first read covers everything.
Descoberta == ong # Ausente \/ ~isLoading

EmAndamento ==
    pedidosItems + pedidosOng["fetchOng"] + pedidosOng["fetchOngSemImagem"]
      + Len(SelectSeq(fila, LAMBDA e : e.tipo # "snapshot"))

\* Back from an item form: voltouTela -> atualizar -> fetchItems.
atualizar ==
    /\ ~caiu /\ Descoberta /\ EmAndamento < MaxPedidos
    /\ pedidosItems' = pedidosItems + 1
    /\ UNCHANGED <<firestore, fila, visto, tela, pedidosOng, baixando, caiu, falhas,
                   historia>>

\* The profile form saved p and calls its delegate.
SalvarPerfil(p, m) ==
    /\ ~caiu /\ Descoberta /\ EmAndamento < MaxPedidos
    /\ perfil' = p
    /\ pedidosOng' = [pedidosOng EXCEPT ![m] = @ + 1]
    /\ isLoading' = (isLoading \/ m = "fetchOng")
    /\ UNCHANGED <<colecao, ouvindo, fila, visto, ong, estoque, imagem, pedidosItems,
                   baixando, caiu, falhas, historia>>

atualizarHome(p) ==
    (ong # Ausente => p.foto = ong.foto) /\ SalvarPerfil(p, "fetchOngSemImagem")
atualizarHomeComImagem(p) ==
    (\A f \in Fotos : baixando[f] < MaxDownloads) /\ SalvarPerfil(p, "fetchOng")

----------------------------------------------------------------------------
TerminarOng(m) == ResponderOng(m) \/ NaoResponderOng(m) \/ FalharOng(m)
TerminarItems == ResponderItems \/ FalharItems

Principal ==
    \/ ReceberOng \/ ReceberErroOng
    \/ ReceberItems \/ ReceberErroItems \/ AplicarItems
    \/ AplicarImagem
    \/ TratarSnapshot

Next ==
    \/ \E nova \in Vistas : Publicar(nova) \/ MudarSemOuvinte(nova)
    \/ RecusarListener
    \/ \E p \in Perfis : MudarPerfil(p)
    \/ \E m \in Modos : TerminarOng(m)
    \/ TerminarItems
    \/ \E f \in Fotos : Baixar(f) \/ FalharDownload(f)
    \/ Principal
    \/ atualizar
    \/ \E p \in Perfis : atualizarHome(p) \/ atualizarHomeComImagem(p)

Spec == Init /\ [][Next]_vars

\* Firestore answers every read, if only with an error; the main thread
\* never stops.
FairSpec ==
    /\ Spec
    /\ WF_vars(Principal)
    /\ WF_vars(TerminarItems)
    /\ \A m \in Modos : WF_vars(TerminarOng(m))

----------------------------------------------------------------------------
(* Properties *)

TypeOK ==
    /\ colecao \in Docs /\ visto \in Docs
    /\ perfil \in Perfis \cup {Ausente} /\ ong \in Perfis \cup {Ausente}
    /\ fila \in Seq(Evento)
    /\ estoque = Nil \/ estoque \in Seq(Item)
    /\ imagem \in Fotos \cup {SemImagem}
    /\ isLoading \in BOOLEAN
    /\ pedidosOng \in [Modos -> Nat] /\ pedidosItems \in Nat
    /\ baixando \in [Fotos -> Nat]
    /\ ouvindo \in BOOLEAN /\ caiu \in BOOLEAN /\ divergiu \in BOOLEAN
    /\ vazio \in BOOLEAN /\ atrasada \in BOOLEAN
    /\ falhas \in 0..MaxFalhas

\* Although a refetched profile erases the stock and the listener ignores
\* what it hears meanwhile, a stock on screen is the one the snapshots told
\* of, each document once with its last fields, unless the read stored last
\* was out of date (fetchItems, addSnapshotListenerToItems).
EstoqueFiel == estoque # Nil /\ ~divergiu => Enumera(estoque, visto)

\* firstIndex(where:)! fails only after an out-of-date read was stored.
QuedaSoSeDivergiu == caiu => divergiu

\* The loading view, which covers the screen and hides Logout, is up only
\* while a getOng of fetchOng is unanswered, a result is waiting for the
\* main thread, or a getOng found no document and so never completed.
RodinhaTemMotivo ==
    isLoading =>
        \/ vazio
        \/ pedidosOng["fetchOng"] > 0
        \/ \E i \in 1..Len(fila) : fila[i].tipo \in {"ong", "erroOng", "aplicar"}

\* With no download under way the photo on screen is the profile's, unless
\* two downloads overlapped, one failed, or the profile was read again
\* without its photo.
ImagemEmDia ==
    ong # Ausente /\ ImagensPendentes = {} /\ ~atrasada => imagem = ong.foto

\* Loading ends, however the requests that share the flag overlap, unless
\* a getOng found no document.
RodinhaApaga == isLoading ~> (~isLoading \/ vazio \/ caiu)

\* The stock a refetched profile erased comes back unless the read fails.
EstoqueVolta == (estoque = Nil) ~> (estoque # Nil \/ falhas > 0 \/ caiu)

itensEstocados == IF estoque = Nil THEN 0 ELSE Len(estoque)

\* The card a donor sees in the place of the button to the needs list.
SemItens == ~caiu /\ ~isLoading /\ itensEstocados = 0

=============================================================================
