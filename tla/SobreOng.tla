------------------------------ MODULE SobreOng ------------------------------
(***************************************************************************)
(* The donor's app from the list of NGOs on: the screen of an NGO that a   *)
(* search found (SobreOngView, SobreOngViewModel) and its "Contribua"      *)
(* screen (sobreOngDoadorView, SobreOngDoadorViewModel), beside the photo  *)
(* screen of Explorar, with which they share the cache of photos.          *)
(*                                                                         *)
(* Each body builds the view models of the screens its links lead to.  The *)
(* body of DoadorHome builds a SobreOngViewModel for every NGO found,      *)
(* together with the photo screen (the same number `tela`); the body of    *)
(* SobreOngView builds the view model of Contribua whenever it publishes a *)
(* change, and that one starts blank and reads the profile again.          *)
(*                                                                         *)
(* The items of the NGO are left out but for what their arrival does: the  *)
(* screen is drawn again.                                                  *)
(***************************************************************************)
EXTENDS Explorar

CONSTANTS
    SemSite  \* NGOs whose site is not a URL; the profile form checks nothing

ASSUME SobreOngAssumption == SemSite \subseteq Ongs

VARIABLES
    achadas,    \* NGOs whose name contains the search text; {} without text
    sobre,      \* SobreOngViewModel.image of each NGO found
    fotosSobre, \* downloads of the SobreOngViewModels that still exist
    lendo,      \* SobreOngViewModels waiting for getItems
    onde,       \* the screen in front
    aberta,     \* the NGO it is about
    contribua,  \* SobreOngDoadorViewModel: image, and whether the profile came
    caiu        \* the process died on a force unwrap

sobreVars == <<achadas, sobre, fotosSobre, lendo>>
navegacao == <<onde, aberta, contribua>>
varsDoador == <<vars, sobreVars, navegacao, caiu>>

Telas == {"home", "sobre", "contribua"}
Leitura == [vm : 1..MaxTelas, ong : Ongs]

InitDoador ==
    /\ Init
    /\ achadas = {}
    /\ sobre = Vazia
    /\ fotosSobre = {}
    /\ lendo = {}
    /\ onde = "home"
    /\ aberta = Ausente
    /\ contribua = Ausente
    /\ caiu = FALSE

----------------------------------------------------------------------------
(* View models *)

Existe(o) == o \in achadas /\ ongs[o] # Ausente

\* getItems holds its view model; the completion of a download does not
\* ([weak self]), so a download without a view model has no effect.
Vivas(D, L) == {d \in D : d.vm = tela' \/ [vm |-> d.vm, ong |-> d.ong] \in L}

\* SobreOngDoadorViewModel.init: blank profile, fetchOng.  Without an image
\* fetchImage runs first, on the blank foto: downloadImage returns at once.
SobreOngDoadorVM(image) == contribua' = [image |-> image, perfil |-> "lendo"]

\* The body of SobreOngView, if it is open for the NGO o with the photo i.
DesenharSobre(o, i) ==
    /\ IF onde # "home" /\ aberta = o THEN SobreOngDoadorVM(i) ELSE UNCHANGED contribua
    /\ UNCHANGED <<onde, aberta>>

\* The link that led to the open screen is gone and SwiftUI pops it: a list
\* is asked for once, so behind an open screen the body only runs again for
\* a new, empty list.
Fechar == onde' = "home" /\ aberta' = Ausente /\ contribua' = Ausente

\* SobreOngViewModel.init for each NGO of the list l that the search found,
\* as the body of DoadorHome runs: fetchImage and fetchItems.
SobreOngVMs(l, A) ==
    LET novas == {o \in A : l[o] # Ausente}
    IN  /\ achadas' = A
        /\ sobre' = [o \in Ongs |-> IF o \in novas \cap DaCache(l) THEN l[o] ELSE Ausente]
        /\ lendo' = lendo \cup {[vm |-> tela', ong |-> o] : o \in novas}
        /\ fotosSobre' = Vivas(fotosSobre, lendo) \cup
              {[vm |-> tela', ong |-> o, foto |-> l[o]] : o \in novas \cap ABaixar(l)}
        /\ IF onde = "home" THEN UNCHANGED navegacao ELSE Fechar

----------------------------------------------------------------------------
(* DoadorHome *)

\* Only reachable with the home screen in front.
PesquisarOngs(A) ==
    /\ onde = "home"
    /\ Pesquisar
    /\ SobreOngVMs(lista, A)

RecomecarHome == Recomecar /\ SobreOngVMs(Vazia, achadas)

ReceberOngs(r) ==
    /\ AplicarOngs(r)
    /\ IF r.vm = listaVM THEN SobreOngVMs(r.ongs, achadas)
                         ELSE UNCHANGED <<sobreVars, navegacao>>

\* NavigationLink(destination: SobreOngView(...))
AbrirSobre(o) ==
    /\ onde = "home" /\ Existe(o)
    /\ onde' = "sobre"
    /\ aberta' = o
    /\ SobreOngDoadorVM(sobre[o])
    /\ UNCHANGED <<vars, sobreVars>>

AbrirContribua ==
    /\ onde = "sobre"
    /\ onde' = "contribua"
    /\ UNCHANGED <<vars, sobreVars, aberta, contribua>>

Voltar ==
    /\ \/ onde = "contribua" /\ onde' = "sobre" /\ UNCHANGED <<aberta, contribua>>
       \/ onde = "sobre" /\ Fechar
    /\ UNCHANGED <<vars, sobreVars>>

----------------------------------------------------------------------------
(* SobreOngViewModel *)

\* imageCache.set: all that the photo screen sees of these screens.
Guardar(f) ==
    /\ cache' = cache \cup {f}
    /\ UNCHANGED <<servidorVars, listaVars, telaVars, baixando, blocos, falhasVars>>

Atual(r) == r.vm = tela /\ Existe(r.ong)

\* Mutant: Contribua keeps the image it was given first.
ReceberFotoSemDesenhar(d) ==
    /\ d \in fotosSobre
    /\ fotosSobre' = fotosSobre \ {d}
    /\ Guardar(d.foto)
    /\ sobre' = IF Atual(d) THEN [sobre EXCEPT ![d.ong] = d.foto] ELSE sobre
    /\ UNCHANGED <<achadas, lendo, navegacao>>

\* The completion of downloadImage, on the main queue.
ReceberFoto(d) ==
    /\ d \in fotosSobre
    /\ fotosSobre' = fotosSobre \ {d}
    /\ Guardar(d.foto)
    /\ IF Atual(d)
       THEN sobre' = [sobre EXCEPT ![d.ong] = d.foto] /\ DesenharSobre(d.ong, d.foto)
       ELSE UNCHANGED <<sobre, navegacao>>
    /\ UNCHANGED <<achadas, lendo>>

FalharFoto(d) ==
    /\ d \in fotosSobre
    /\ fotosSobre' = fotosSobre \ {d}
    /\ UNCHANGED <<vars, achadas, sobre, lendo, navegacao>>

\* getItems is answered; a view model only it held goes with its download.
FimItens(r) ==
    /\ r \in lendo
    /\ lendo' = lendo \ {r}
    /\ UNCHANGED <<vars, achadas, sobre>>
    /\ fotosSobre' = Vivas(fotosSobre, lendo')

\* Mutant: the items are asked for again each time they come.
ReceberItensDeNovo(r) ==
    /\ r \in lendo
    /\ UNCHANGED <<vars, sobreVars>>
    /\ IF Atual(r) THEN DesenharSobre(r.ong, sobre[r.ong]) ELSE UNCHANGED navegacao

\* Mutant: the items are stored in whatever view model the NGO has now.
ReceberItensNaNova(r) ==
    /\ FimItens(r)
    /\ IF Existe(r.ong) THEN DesenharSobre(r.ong, sobre[r.ong]) ELSE UNCHANGED navegacao

\* self.ong.estoque = items
ReceberItens(r) ==
    /\ FimItens(r)
    /\ IF Atual(r) THEN DesenharSobre(r.ong, sobre[r.ong]) ELSE UNCHANGED navegacao

FalharItens(r) == FimItens(r) /\ UNCHANGED navegacao

----------------------------------------------------------------------------
(* SobreOngDoadorViewModel *)

\* fetchOng answers: self?.ong = ong, or only a log line, or (no NGO with this
\* id) nothing at all.
ReceberPerfil(p) ==
    /\ contribua # Ausente /\ contribua.perfil = "lendo"
    /\ contribua' = [contribua EXCEPT !.perfil = p]
    /\ UNCHANGED <<vars, sobreVars, onde, aberta>>

\* URL(string: viewModel.siteOngLabel) is not nil.
TemSite == contribua.perfil = "chegou" /\ aberta \notin SemSite

\* "Visite o site": openURL leaves the app as it is, the unwrap of nil does not.
VisitarSite ==
    /\ onde = "contribua" /\ ~TemSite
    /\ caiu' = TRUE
    /\ UNCHANGED <<vars, sobreVars, navegacao>>

----------------------------------------------------------------------------
TerminarFoto(d) == ReceberFoto(d) \/ FalharFoto(d)
TerminarItens(r) == ReceberItens(r) \/ FalharItens(r)
TerminarPerfil == \E p \in {"chegou", "falhou"} : ReceberPerfil(p)

Baixa(d) == (Terminar(d) \/ AplicarImagem(d)) /\ UNCHANGED <<sobreVars, navegacao>>

Passo ==
    \/ \E A \in SUBSET Ongs : PesquisarOngs(A)
    \/ RecomecarHome
    \/ \E r \in respostas : ReceberOngs(r)
    \/ \E o \in Ongs : AbrirSobre(o)
    \/ AbrirContribua \/ Voltar
    \/ \E d \in Download : TerminarFoto(d) \/ Baixa(d)
    \/ \E r \in Leitura : TerminarItens(r)
    \/ TerminarPerfil
    \/ /\ \/ \E n \in 1..MaxListas : ResponderOngs(n) \/ FalharOngs(n)
          \/ \E o \in Ongs, f \in Fotos \cup {SemFoto} : MudarFoto(o, f)
          \/ \E f \in Fotos : Despejar(f)
       /\ UNCHANGED <<sobreVars, navegacao>>

NextDoador ==
    /\ ~caiu
    /\ \/ Passo /\ UNCHANGED caiu
       \/ VisitarSite

SpecDoador == InitDoador /\ [][NextDoador]_varsDoador

\* Firebase ends every download and every read, if only with an error.  The
\* donor owes nothing.
FairDoador ==
    /\ SpecDoador
    /\ \A d \in Download : WF_varsDoador(TerminarFoto(d) /\ ~caiu /\ UNCHANGED caiu)
    /\ \A r \in Leitura : WF_varsDoador(TerminarItens(r) /\ ~caiu /\ UNCHANGED caiu)
    /\ WF_varsDoador(TerminarPerfil /\ ~caiu /\ UNCHANGED caiu)

----------------------------------------------------------------------------
(* Properties *)

TypeOKDoador ==
    /\ TypeOK
    /\ achadas \subseteq Ongs
    /\ sobre \in [Ongs -> Fotos \cup {Ausente}]
    /\ fotosSobre \subseteq Download /\ lendo \subseteq Leitura
    /\ onde \in Telas
    /\ IF onde = "home" THEN aberta = Ausente /\ contribua = Ausente
       ELSE /\ aberta \in Ongs /\ Existe(aberta)
            /\ contribua \in [image : Fotos \cup {Ausente},
                              perfil : {"lendo", "chegou", "falhou"}]
    /\ caiu \in BOOLEAN

\* Contribua never downloads a photo (its fetchImage runs before fetchOng, on
\* a blank foto), and still shows what the screen below it shows: that
\* NGO's own photo in the current list, or the placeholder, although view
\* models are replaced while downloads are under way.
ContribuaAcompanha ==
    /\ \A o \in Ongs : sobre[o] \in {Ausente, ongs[o]}
    /\ contribua # Ausente => contribua.image = sobre[aberta]

Pendente(o) ==
    \/ [vm |-> tela, ong |-> o] \in lendo
    \/ \E d \in fotosSobre : d.vm = tela /\ d.ong = o

\* "Visite o site" kills the app while the profile is blank, and every change
\* of the screen below makes it blank again.  Once the photo and the items of
\* that screen have come, or failed, a profile that has come stays until the
\* donor leaves, whatever view models of earlier screens still receive
\* (getItems holds them).
PerfilFica ==
    [][onde = "contribua" /\ contribua.perfil = "chegou" /\ ~Pendente(aberta)
         => onde' # "contribua" \/ contribua'.perfil = "chegou"]_varsDoador

\* The time in which "Visite o site" finds a blank profile ends: however often
\* the screen below makes Contribua blank again, a donor who stays there gets
\* to a profile that was read, or whose reading failed, and that nothing will
\* replace any more (PerfilFica).
JanelaFecha ==
    (onde = "contribua") ~>
        \/ caiu \/ onde # "contribua"
        \/ contribua.perfil # "lendo" /\ ~Pendente(aberta)
=============================================================================
