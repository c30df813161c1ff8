------------------------------ MODULE Explorar ------------------------------
(***************************************************************************)
(* The donor's list of NGOs (DoadorHomeViewModel) and the screen with      *)
(* their photos (ExplorarOngViewModel), over the cache of photos that the  *)
(* whole app shares (ImageCache).                                          *)
(*                                                                         *)
(* The body of DoadorHome builds the view model of the photo screen, so    *)
(* each time it runs (the list arrived, the search text changed) the photo *)
(* screen, on screen or not, starts again: photos in the cache at once,    *)
(* the others through downloads of its own.  A download whose view model   *)
(* was replaced ends without effect, even on the cache ([weak self]).      *)
(*                                                                         *)
(* A photo is named by its URL; NSCache may drop an entry at any time.     *)
(***************************************************************************)
EXTENDS Integers

CONSTANTS
    Ongs,       \* ids of NGOs
    Fotos,      \* URLs of photos
    SemFoto,    \* foto nil or ""
    Ausente,    \* not in the list; no photo: the placeholder
    MaxListas,  \* bound on calls of fetchOngs
    MaxTelas,   \* bound on photo screens built
    MaxMudancas,\* bound on changes of photos
    MaxFalhas   \* bound on failures

ASSUME ExplorarAssumption ==
    /\ SemFoto \notin Fotos /\ Ausente \notin Fotos \cup {SemFoto}
    /\ MaxListas \in Nat \ {0} /\ MaxTelas \in Nat \ {0}
    /\ MaxMudancas \in Nat /\ MaxFalhas \in Nat

VARIABLES
    servidor,  \* Firestore: the photo of each NGO
    mudancas,  \* changes of photos so far
    listaVM,   \* the current DoadorHomeViewModel
    buscas,    \* view models whose fetchOngs is not answered
    respostas, \* main queue: self?.ongs = ongs.sorted(...)
    lista,     \* DoadorHomeViewModel.ongs
    tela,      \* the current ExplorarOngViewModel
    ongs,      \* its ongs
    images,    \* its images
    cache,     \* ImageCache: the URLs it holds
    baixando,  \* downloads under way
    blocos,    \* main queue: images[ong.id!] = image
    falhas,    \* failures so far
    falhou     \* history: downloads that failed

vars == <<servidor, mudancas, listaVM, buscas, respostas, lista, tela, ongs, images,
          cache, baixando, blocos, falhas, falhou>>
servidorVars == <<servidor, mudancas>>
listaVars == <<listaVM, buscas, respostas, lista>>
telaVars == <<tela, ongs, images>>
falhasVars == <<falhas, falhou>>

Lista == [Ongs -> Fotos \cup {SemFoto, Ausente}]
Vazia == [o \in Ongs |-> Ausente]
Download == [vm : 1..MaxTelas, ong : Ongs, foto : Fotos]

Init ==
    /\ servidor \in [Ongs -> Fotos \cup {SemFoto}]
    /\ mudancas = 0
    /\ listaVM = 1
    /\ buscas = {1}
    /\ respostas = {}
    /\ lista = Vazia
    /\ tela = 1
    /\ ongs = Vazia
    /\ images = Vazia
    /\ cache = {}
    /\ baixando = {}
    /\ blocos = {}
    /\ falhas = 0
    /\ falhou = {}

----------------------------------------------------------------------------
(* ExplorarOngViewModel.init and fetchImages, for the list l *)

DaCache(l) == {o \in Ongs : l[o] \in Fotos \cap cache}

\* Mutant: the test foto != "" is missing.
ABaixarSemTeste(l) == {o \in Ongs : l[o] \notin cache \cup {Ausente}}

\* Mutant: a photo that is being downloaded is not asked for again.
ABaixarUmaVez(l) ==
    {o \in Ongs : l[o] \in Fotos \ cache /\ \A d \in baixando : d.foto # l[o]}

ABaixar(l) == {o \in Ongs : l[o] \in Fotos \ cache}

\* Mutant: a cached photo is not put on screen.
fetchImagesSemCache(l) ==
    /\ images' = Vazia
    /\ baixando' = baixando \cup
          {[vm |-> tela', ong |-> o, foto |-> l[o]] : o \in ABaixar(l)}

fetchImages(l) ==
    /\ images' = [o \in Ongs |-> IF o \in DaCache(l) THEN l[o] ELSE Ausente]
    /\ baixando' = baixando \cup
          {[vm |-> tela', ong |-> o, foto |-> l[o]] : o \in ABaixar(l)}

\* ExplorarOngView: an entry for each NGO of the list, with getImage(from:).
NaTela == [o \in {o \in Ongs : ongs[o] # Ausente} |-> images[o]]

\* The body of DoadorHome runs with the list l.
Reconstruir(l) ==
    /\ tela < MaxTelas
    /\ tela' = tela + 1
    /\ ongs' = l
    /\ fetchImages(l)

\* The search text changes.
Pesquisar ==
    /\ Reconstruir(lista)
    /\ UNCHANGED <<servidorVars, listaVars, cache, blocos, falhasVars>>

----------------------------------------------------------------------------
(* DoadorHomeViewModel *)

\* ContentView's body runs again: a new list, asked for again.
Recomecar ==
    /\ listaVM < MaxListas
    /\ listaVM' = listaVM + 1
    /\ buscas' = buscas \cup {listaVM + 1}
    /\ lista' = Vazia
    /\ Reconstruir(Vazia)
    /\ UNCHANGED <<servidorVars, respostas, cache, blocos, falhasVars>>

\* fetchOngs succeeds: the list goes to the main queue.
ResponderOngs(n) ==
    /\ n \in buscas
    /\ buscas' = buscas \ {n}
    /\ respostas' = respostas \cup {[vm |-> n, ongs |-> servidor]}
    /\ UNCHANGED <<servidorVars, listaVM, lista, telaVars, cache, baixando, blocos,
                   falhasVars>>

\* Its block, if that view model still exists.
AplicarOngs(r) ==
    /\ respostas' = respostas \ {r}
    /\ IF r.vm = listaVM
       THEN lista' = r.ongs /\ Reconstruir(r.ongs)
       ELSE UNCHANGED <<lista, telaVars, baixando>>
    /\ UNCHANGED <<servidorVars, listaVM, buscas, cache, blocos, falhasVars>>

Falhar == falhas < MaxFalhas /\ falhas' = falhas + 1

FalharOngs(n) ==
    /\ n \in buscas
    /\ buscas' = buscas \ {n}
    /\ Falhar
    /\ UNCHANGED <<servidorVars, listaVM, respostas, lista, telaVars, cache, baixando,
                   blocos, falhou>>

\* An NGO changes its photo.
MudarFoto(o, f) ==
    /\ mudancas < MaxMudancas /\ mudancas' = mudancas + 1
    /\ servidor[o] # f
    /\ servidor' = [servidor EXCEPT ![o] = f]
    /\ UNCHANGED <<listaVars, telaVars, cache, baixando, blocos, falhasVars>>

----------------------------------------------------------------------------
(* Downloads and the cache *)

\* The completion of downloadImage, on a thread of the URL session.
Baixar(d) ==
    /\ d \in baixando
    /\ baixando' = baixando \ {d}
    /\ IF d.vm = tela
       THEN cache' = cache \cup {d.foto} /\ blocos' = blocos \cup {d}
       ELSE UNCHANGED <<cache, blocos>>
    /\ UNCHANGED <<servidorVars, listaVars, telaVars, falhasVars>>

\* An error is only logged.
FalharDownload(d) ==
    /\ d \in baixando
    /\ baixando' = baixando \ {d}
    /\ Falhar
    /\ falhou' = falhou \cup {d}
    /\ UNCHANGED <<servidorVars, listaVars, telaVars, cache, blocos>>

\* Mutant: the block writes to whatever screen is there.
AplicarImagemAtual(d) ==
    /\ d \in blocos
    /\ blocos' = blocos \ {d}
    /\ images' = [images EXCEPT ![d.ong] = d.foto]
    /\ UNCHANGED <<servidorVars, listaVars, tela, ongs, cache, baixando, falhasVars>>

\* self?.images[ong.id!] = image
AplicarImagem(d) ==
    /\ d \in blocos
    /\ blocos' = blocos \ {d}
    /\ images' = IF d.vm = tela THEN [images EXCEPT ![d.ong] = d.foto] ELSE images
    /\ UNCHANGED <<servidorVars, listaVars, tela, ongs, cache, baixando, falhasVars>>

\* NSCache evicts an entry.
Despejar(f) ==
    /\ f \in cache
    /\ cache' = cache \ {f}
    /\ UNCHANGED <<servidorVars, listaVars, telaVars, baixando, blocos, falhasVars>>

Terminar(d) == Baixar(d) \/ FalharDownload(d)

Next ==
    \/ Pesquisar \/ Recomecar
    \/ \E n \in 1..MaxListas : ResponderOngs(n) \/ FalharOngs(n)
    \/ \E r \in respostas : AplicarOngs(r)
    \/ \E o \in Ongs, f \in Fotos \cup {SemFoto} : MudarFoto(o, f)
    \/ \E d \in Download : Terminar(d) \/ AplicarImagem(d)
    \/ \E f \in Fotos : Despejar(f)

Spec == Init /\ [][Next]_vars

\* Every download ends, if only with an error; the main queue runs.
FairSpec ==
    /\ Spec
    /\ \A d \in Download : WF_vars(Terminar(d)) /\ WF_vars(AplicarImagem(d))

----------------------------------------------------------------------------
(* Properties *)

TypeOK ==
    /\ servidor \in [Ongs -> Fotos \cup {SemFoto}]
    /\ mudancas \in 0..MaxMudancas
    /\ listaVM \in 1..MaxListas /\ buscas \subseteq 1..MaxListas
    /\ respostas \subseteq [vm : 1..MaxListas, ongs : Lista]
    /\ lista \in Lista /\ ongs \in Lista
    /\ tela \in 1..MaxTelas
    /\ images \in [Ongs -> Fotos \cup {Ausente}]
    /\ cache \subseteq Fotos
    /\ baixando \subseteq Download /\ blocos \subseteq Download /\ falhou \subseteq Download
    /\ falhas \in 0..MaxFalhas

\* A photo on screen is the one its NGO has in the list on screen, although
\* screens are replaced while downloads and their blocks are under way and
\* NGOs change their photos between two lists.
ImagemDaLista == \A o \in DOMAIN NaTela : NaTela[o] \in {Ausente, ongs[o]}

Este(o) == [vm |-> tela, ong |-> o, foto |-> ongs[o]]

\* No photo of the list is forgotten: it is on screen, or a download of this
\* very screen will bring it, or that download failed.  Downloads of earlier
\* screens do not count: they end without effect (fetchImages, [weak self]).
NadaSePerde ==
    \A o \in DOMAIN NaTela : ongs[o] \in Fotos =>
        NaTela[o] = ongs[o] \/ Este(o) \in baixando \cup blocos \cup falhou

\* Every photo of the list appears, unless its download fails or the screen
\* gets another list.
ImagensChegam ==
    \A o \in Ongs : \A f \in Fotos :
        (ongs[o] = f) ~> (images[o] = f \/ ongs[o] # f \/ Este(o) \in falhou)
=============================================================================
