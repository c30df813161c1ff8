--------------------------- MODULE SobreOngProofs ---------------------------
(***************************************************************************)
(* Proofs about Explorar and about SobreOng, which composes it with the    *)
(* screens of single NGOs, for any NGOs, photos, lists and screens.        *)
(*                                                                         *)
(* The invariants of Explorar are proved of the steps that SobreOng takes  *)
(* on its variables: those of Explorar, or a photo stored in the cache.    *)
(***************************************************************************)
EXTENDS SobreOng, TLAPS

ExplorarNext == Next \/ \E f \in Fotos : Guardar(f)

----------------------------------------------------------------------------
(* Explorar: type correctness *)

LEMMA FetchImagesTipo ==
    ASSUME TypeOK, NEW l \in Lista, Reconstruir(l)
    PROVE  /\ tela' \in 1..MaxTelas /\ tela' = tela + 1
           /\ ongs' = l
           /\ images' \in [Ongs -> Fotos \cup {Ausente}]
           /\ baixando' \subseteq Download
  <1>1. tela' \in 1..MaxTelas /\ tela' = tela + 1
    BY ExplorarAssumption DEF TypeOK, Reconstruir
  <1>2. images' \in [Ongs -> Fotos \cup {Ausente}]
    BY DEF Reconstruir, fetchImages, DaCache
  <1>3. {[vm |-> tela', ong |-> o, foto |-> l[o]] : o \in ABaixar(l)} \subseteq Download
    BY <1>1 DEF ABaixar, Download
  <1> QED
    BY <1>1, <1>2, <1>3 DEF Reconstruir, fetchImages, TypeOK

LEMMA VaziaTipo == Vazia \in Lista /\ Vazia \in [Ongs -> Fotos \cup {Ausente}]
  BY DEF Vazia, Lista

LEMMA TipoInicial == Init => TypeOK
  <1> SUFFICES ASSUME Init PROVE TypeOK
    OBVIOUS
  <1>1. 0 \in 0..MaxMudancas /\ 0 \in 0..MaxFalhas /\ 1 \in 1..MaxListas /\ 1 \in 1..MaxTelas
    BY ExplorarAssumption
  <1> QED
    BY <1>1, VaziaTipo DEF Init, TypeOK

LEMMA TipoPasso == TypeOK /\ [ExplorarNext]_vars => TypeOK'
  <1> SUFFICES ASSUME TypeOK, [ExplorarNext]_vars PROVE TypeOK'
    OBVIOUS
  <1> USE DEF TypeOK, servidorVars, listaVars, telaVars, falhasVars
  <1>1. ASSUME Pesquisar PROVE TypeOK'
    BY <1>1, FetchImagesTipo DEF Pesquisar
  <1>2. ASSUME Recomecar PROVE TypeOK'
    <2>1. listaVM' \in 1..MaxListas /\ buscas' \subseteq 1..MaxListas
      BY <1>2, ExplorarAssumption DEF Recomecar
    <2> QED
      BY <1>2, <2>1, VaziaTipo, FetchImagesTipo DEF Recomecar
  <1>3. ASSUME NEW n \in 1..MaxListas, ResponderOngs(n) PROVE TypeOK'
    <2>1. servidor \in Lista
      BY DEF Lista
    <2> QED
      BY <1>3, <2>1 DEF ResponderOngs
  <1>4. ASSUME NEW n \in 1..MaxListas, FalharOngs(n) PROVE TypeOK'
    BY <1>4, ExplorarAssumption DEF FalharOngs, Falhar
  <1>5. ASSUME NEW r \in respostas, AplicarOngs(r) PROVE TypeOK'
    <2>1. r.ongs \in Lista
      OBVIOUS
    <2>2. CASE r.vm = listaVM
      BY <1>5, <2>1, <2>2, FetchImagesTipo DEF AplicarOngs
    <2>3. CASE r.vm # listaVM
      BY <1>5, <2>3 DEF AplicarOngs
    <2> QED
      BY <2>2, <2>3
  <1>6. ASSUME NEW o \in Ongs, NEW f \in Fotos \cup {SemFoto}, MudarFoto(o, f)
        PROVE  TypeOK'
    BY <1>6, ExplorarAssumption DEF MudarFoto
  <1>7. ASSUME NEW d \in Download, Baixar(d) PROVE TypeOK'
    <2>1. d.foto \in Fotos
      BY DEF Download
    <2> QED
      BY <1>7, <2>1 DEF Baixar
  <1>8. ASSUME NEW d \in Download, FalharDownload(d) PROVE TypeOK'
    BY <1>8, ExplorarAssumption DEF FalharDownload, Falhar
  <1>9. ASSUME NEW d \in Download, AplicarImagem(d) PROVE TypeOK'
    <2>1. d.foto \in Fotos /\ d.ong \in Ongs
      BY DEF Download
    <2> QED
      BY <1>9, <2>1 DEF AplicarImagem
  <1>10. ASSUME NEW f \in Fotos, Despejar(f) PROVE TypeOK'
    BY <1>10 DEF Despejar
  <1>11. ASSUME NEW f \in Fotos, Guardar(f) PROVE TypeOK'
    BY <1>11 DEF Guardar
  <1>12. CASE UNCHANGED vars
    BY <1>12 DEF vars
  <1> QED
    BY <1>1, <1>2, <1>3, <1>4, <1>5, <1>6, <1>7, <1>8, <1>9, <1>10, <1>11, <1>12
       DEF ExplorarNext, Next, Terminar

----------------------------------------------------------------------------
(* Explorar: the photos on screen *)

\* Inductive: a download never belongs to a screen yet to be built, and one of
\* the screen in front is of the photo its NGO has there.
FotosInv ==
    /\ \A d \in baixando \cup blocos : d.vm <= tela /\ (d.vm = tela => d.foto = ongs[d.ong])
    /\ \A o \in Ongs : images[o] \in {Ausente, ongs[o]}
    /\ \A o \in Ongs : ongs[o] \in Fotos =>
          images[o] = ongs[o] \/ Este(o) \in baixando \cup blocos \cup falhou

LEMMA FotosReconstruir ==
    ASSUME TypeOK, FotosInv, NEW l \in Lista, Reconstruir(l),
           blocos' = blocos, falhou' = falhou
    PROVE  FotosInv'
  <1>1. tela \in Int /\ tela' = tela + 1 /\ ongs' = l
    BY ExplorarAssumption, FetchImagesTipo DEF TypeOK
  <1>2. ASSUME NEW d \in baixando \cup blocos PROVE d.vm <= tela' /\ d.vm # tela'
    <2>1. d.vm \in Int /\ d.vm <= tela
      BY ExplorarAssumption DEF FotosInv, TypeOK, Download
    <2> QED
      BY <1>1, <2>1
  <1>3. ASSUME NEW d \in baixando', d \notin baixando
        PROVE  d.vm <= tela' /\ d.foto = ongs'[d.ong]
    BY <1>1, <1>3 DEF Reconstruir, fetchImages
  <1>4. \A d \in baixando' \cup blocos' :
           d.vm <= tela' /\ (d.vm = tela' => d.foto = ongs'[d.ong])
    BY <1>2, <1>3
  <1>5. \A o \in Ongs : images'[o] = IF o \in DaCache(l) THEN l[o] ELSE Ausente
    BY DEF Reconstruir, fetchImages
  <1>6. ASSUME NEW o \in Ongs, l[o] \in Fotos, o \notin DaCache(l)
        PROVE  Este(o)' \in baixando'
    <2>1. o \in ABaixar(l)
      BY <1>6 DEF DaCache, ABaixar
    <2>2. Este(o)' = [vm |-> tela', ong |-> o, foto |-> l[o]]
      BY <1>1 DEF Este
    <2> QED
      BY <2>1, <2>2 DEF Reconstruir, fetchImages
  <1> QED
    BY <1>1, <1>4, <1>5, <1>6 DEF FotosInv

LEMMA FotosPasso == TypeOK /\ FotosInv /\ [ExplorarNext]_vars => FotosInv'
  <1> SUFFICES ASSUME TypeOK, FotosInv, [ExplorarNext]_vars PROVE FotosInv'
    OBVIOUS
  <1> USE DEF servidorVars, listaVars, telaVars, falhasVars
  <1>1. ASSUME Pesquisar PROVE FotosInv'
    BY <1>1, FotosReconstruir DEF Pesquisar, TypeOK
  <1>2. ASSUME Recomecar PROVE FotosInv'
    BY <1>2, FotosReconstruir, VaziaTipo DEF Recomecar
  <1>3. ASSUME NEW n \in 1..MaxListas, ResponderOngs(n) \/ FalharOngs(n) PROVE FotosInv'
    BY <1>3 DEF ResponderOngs, FalharOngs, FotosInv, Este
  <1>4. ASSUME NEW r \in respostas, AplicarOngs(r) PROVE FotosInv'
    <2>1. CASE r.vm = listaVM
      <3>1. r.ongs \in Lista
        BY DEF TypeOK
      <3> QED
        BY <1>4, <2>1, <3>1, FotosReconstruir DEF AplicarOngs
    <2>2. CASE r.vm # listaVM
      BY <1>4, <2>2 DEF AplicarOngs, FotosInv, Este
    <2> QED
      BY <2>1, <2>2
  <1>5. ASSUME NEW o \in Ongs, NEW f \in Fotos \cup {SemFoto}, MudarFoto(o, f)
        PROVE  FotosInv'
    BY <1>5 DEF MudarFoto, FotosInv, Este
  <1>6. ASSUME NEW d \in Download, Baixar(d) PROVE FotosInv'
    <2>1. UNCHANGED <<tela, ongs, images, falhou>>
      BY <1>6 DEF Baixar
    <2>2. \A o \in Ongs : Este(o)' = Este(o) /\ Este(o).vm = tela
      BY <2>1 DEF Este
    <2>3. /\ \A e \in baixando' \cup blocos' : e \in baixando \cup blocos
          /\ \A e \in baixando \cup blocos :
                e \in baixando' \cup blocos' \/ (e = d /\ d.vm # tela)
      BY <1>6 DEF Baixar
    <2> QED
      BY <2>1, <2>2, <2>3 DEF FotosInv
  <1>7. ASSUME NEW d \in Download, FalharDownload(d) PROVE FotosInv'
    <2>1. UNCHANGED <<tela, ongs, images, blocos>>
      BY <1>7 DEF FalharDownload
    <2>2. \A o \in Ongs : Este(o)' = Este(o)
      BY <2>1 DEF Este
    <2>3. /\ baixando' \subseteq baixando
          /\ baixando \cup falhou \subseteq baixando' \cup falhou'
      BY <1>7 DEF FalharDownload
    <2> QED
      BY <2>1, <2>2, <2>3 DEF FotosInv
  <1>8. ASSUME NEW d \in Download, AplicarImagem(d) PROVE FotosInv'
    <2>1. UNCHANGED <<tela, ongs, baixando, falhou>> /\ d \in blocos /\ blocos' = blocos \ {d}
      BY <1>8 DEF AplicarImagem
    <2>2. \A o \in Ongs : Este(o)' = Este(o) /\ Este(o).ong = o /\ Este(o).vm = tela
      BY <2>1 DEF Este
    <2>3. d.vm = tela => d.foto = ongs[d.ong]
      BY <2>1 DEF FotosInv
    <2>4. \A o \in Ongs : images'[o] = IF d.vm = tela /\ o = d.ong THEN ongs[o] ELSE images[o]
      BY <1>8, <2>3 DEF AplicarImagem, TypeOK, Download
    <2> QED
      BY <2>1, <2>2, <2>4 DEF FotosInv
  <1>9. ASSUME NEW f \in Fotos, Despejar(f) \/ Guardar(f) PROVE FotosInv'
    BY <1>9 DEF Despejar, Guardar, FotosInv, Este
  <1>10. CASE UNCHANGED vars
    BY <1>10 DEF vars, FotosInv, Este
  <1> QED
    BY <1>1, <1>2, <1>3, <1>4, <1>5, <1>6, <1>7, <1>8, <1>9, <1>10
       DEF ExplorarNext, Next, Terminar

LEMMA FotosInicial == Init => FotosInv
  BY DEF Init, FotosInv, Vazia

LEMMA FotosBastam == TypeOK /\ FotosInv => ImagemDaLista /\ NadaSePerde
  BY DEF TypeOK, FotosInv, ImagemDaLista, NadaSePerde, NaTela

\* The screens of the donor keep their types.
THEOREM TiposExplorar == Spec => []TypeOK
  <1>1. [Next]_vars => [ExplorarNext]_vars
    BY DEF ExplorarNext
  <1> QED
    BY <1>1, TipoInicial, TipoPasso, PTL DEF Spec

LEMMA FotosSempre == Spec => [](TypeOK /\ FotosInv)
  <1>1. [Next]_vars => [ExplorarNext]_vars
    BY DEF ExplorarNext
  <1> QED
    BY <1>1, TipoInicial, TipoPasso, FotosInicial, FotosPasso, PTL DEF Spec

\* A photo on screen is the one its NGO has in the list on screen, whatever
\* downloads of replaced screens end meanwhile.
THEOREM ImagemSempreDaLista == Spec => []ImagemDaLista
  BY FotosSempre, FotosBastam, PTL

\* No photo of the list is forgotten: it is on screen, on its way, or failed.
THEOREM NadaNuncaSePerde == Spec => []NadaSePerde
  BY FotosSempre, FotosBastam, PTL

----------------------------------------------------------------------------
(* What SobreOng does to the variables of Explorar *)

LEMMA DoadorPasso ==
    ASSUME TypeOKDoador, [NextDoador]_varsDoador
    PROVE  [ExplorarNext]_vars
  <1> USE DEF ExplorarNext, Next
  <1>1. CASE Passo
    <2>1. ASSUME NEW A \in SUBSET Ongs, PesquisarOngs(A) PROVE [ExplorarNext]_vars
      BY <2>1 DEF PesquisarOngs
    <2>2. ASSUME RecomecarHome PROVE [ExplorarNext]_vars
      BY <2>2 DEF RecomecarHome
    <2>3. ASSUME NEW r \in respostas, ReceberOngs(r) PROVE [ExplorarNext]_vars
      BY <2>3 DEF ReceberOngs
    <2>4. ASSUME NEW o \in Ongs, AbrirSobre(o) PROVE [ExplorarNext]_vars
      BY <2>4 DEF AbrirSobre
    <2>5. ASSUME AbrirContribua \/ Voltar PROVE [ExplorarNext]_vars
      BY <2>5 DEF AbrirContribua, Voltar
    <2>6. ASSUME NEW d \in Download, TerminarFoto(d) PROVE [ExplorarNext]_vars
      <3>1. d.foto \in Fotos
        BY DEF Download
      <3> QED
        BY <2>6, <3>1 DEF TerminarFoto, ReceberFoto, FalharFoto
    <2>7. ASSUME NEW d \in Download, Baixa(d) PROVE [ExplorarNext]_vars
      BY <2>7 DEF Baixa
    <2>8. ASSUME NEW r \in Leitura, TerminarItens(r) PROVE [ExplorarNext]_vars
      BY <2>8 DEF TerminarItens, ReceberItens, FalharItens, FimItens
    <2>9. ASSUME TerminarPerfil PROVE [ExplorarNext]_vars
      BY <2>9 DEF TerminarPerfil, ReceberPerfil
    <2> QED
      BY <1>1, <2>1, <2>2, <2>3, <2>4, <2>5, <2>6, <2>7, <2>8, <2>9 DEF Passo
  <1>2. CASE VisitarSite
    BY <1>2 DEF VisitarSite
  <1>3. CASE UNCHANGED varsDoador
    BY <1>3 DEF varsDoador
  <1> QED
    BY <1>1, <1>2, <1>3 DEF NextDoador

----------------------------------------------------------------------------
(* SobreOng: type correctness *)

\* A screen of an NGO, with Contribua behind its link.
TelaOk ==
    IF onde = "home" THEN aberta = Ausente /\ contribua = Ausente
    ELSE /\ aberta \in Ongs /\ Existe(aberta)
         /\ contribua \in [image : Fotos \cup {Ausente},
                           perfil : {"lendo", "chegou", "falhou"}]

LEMMA SobreOngVMsTipo ==
    ASSUME TypeOKDoador, NEW l \in Lista, NEW A \in SUBSET Ongs,
           Reconstruir(l), SobreOngVMs(l, A)
    PROVE  /\ achadas' \subseteq Ongs
           /\ sobre' \in [Ongs -> Fotos \cup {Ausente}]
           /\ fotosSobre' \subseteq Download /\ lendo' \subseteq Leitura
           /\ onde' = "home" /\ aberta' = Ausente /\ contribua' = Ausente
  <1>1. tela' \in 1..MaxTelas
    BY FetchImagesTipo DEF TypeOKDoador
  <1> DEFINE novas == {o \in A : l[o] # Ausente}
  <1>2. {[vm |-> tela', ong |-> o] : o \in novas} \subseteq Leitura
    BY <1>1 DEF Leitura
  <1>3. {[vm |-> tela', ong |-> o, foto |-> l[o]] : o \in novas \cap ABaixar(l)}
          \subseteq Download
    BY <1>1 DEF ABaixar, Download
  <1>4. Vivas(fotosSobre, lendo) \subseteq Download
    BY DEF Vivas, TypeOKDoador
  <1>5. sobre' \in [Ongs -> Fotos \cup {Ausente}]
    BY DEF SobreOngVMs, DaCache
  <1>6. onde' = "home" /\ aberta' = Ausente /\ contribua' = Ausente
    BY DEF SobreOngVMs, Fechar, navegacao, TypeOKDoador
  <1> QED
    BY <1>2, <1>3, <1>4, <1>5, <1>6 DEF SobreOngVMs, TypeOKDoador

\* The body of an NGO's screen only touches Contribua.
LEMMA DesenharTipo ==
    ASSUME TypeOKDoador, NEW o \in Ongs, NEW i \in Fotos \cup {Ausente},
           DesenharSobre(o, i), UNCHANGED <<achadas, ongs>>
    PROVE  TelaOk'
  BY DEF TypeOKDoador, TelaOk, DesenharSobre, SobreOngDoadorVM, Existe

LEMMA TelaParada ==
    ASSUME TypeOKDoador, UNCHANGED <<navegacao, achadas, ongs>>
    PROVE  TelaOk'
  BY DEF TypeOKDoador, TelaOk, navegacao, Existe

LEMMA DoadorTipoInicial == InitDoador => TypeOKDoador
  BY TipoInicial, VaziaTipo DEF InitDoador, TypeOKDoador, Telas

LEMMA DoadorTipoPasso == TypeOKDoador /\ [NextDoador]_varsDoador => TypeOKDoador'
  <1> SUFFICES ASSUME TypeOKDoador, [NextDoador]_varsDoador PROVE TypeOKDoador'
    OBVIOUS
  <1>0. TypeOK'
    BY DoadorPasso, TipoPasso DEF TypeOKDoador
  <1> SUFFICES /\ achadas' \subseteq Ongs
               /\ sobre' \in [Ongs -> Fotos \cup {Ausente}]
               /\ fotosSobre' \subseteq Download /\ lendo' \subseteq Leitura
               /\ onde' \in Telas
               /\ TelaOk'
               /\ caiu' \in BOOLEAN
    BY <1>0 DEF TypeOKDoador, TelaOk
  <1> DEFINE Ok == /\ achadas' \subseteq Ongs
                   /\ sobre' \in [Ongs -> Fotos \cup {Ausente}]
                   /\ fotosSobre' \subseteq Download /\ lendo' \subseteq Leitura
                   /\ onde' \in Telas
                   /\ TelaOk'
  <1>1. ASSUME Passo PROVE Ok
    <2>1. ASSUME NEW A \in SUBSET Ongs, PesquisarOngs(A) PROVE Ok
      <3>1. lista \in Lista /\ Reconstruir(lista) /\ SobreOngVMs(lista, A)
        BY <2>1 DEF PesquisarOngs, Pesquisar, TypeOKDoador, TypeOK
      <3> QED
        BY <3>1, SobreOngVMsTipo DEF TelaOk, Telas
    <2>2. ASSUME RecomecarHome PROVE Ok
      <3>1. Reconstruir(Vazia) /\ SobreOngVMs(Vazia, achadas) /\ achadas \in SUBSET Ongs
        BY <2>2 DEF RecomecarHome, Recomecar, TypeOKDoador
      <3> QED
        BY <3>1, VaziaTipo, SobreOngVMsTipo DEF TelaOk, Telas
    <2>3. ASSUME NEW r \in respostas, ReceberOngs(r) PROVE Ok
      <3>1. CASE r.vm = listaVM
        <4>1. /\ r.ongs \in Lista /\ Reconstruir(r.ongs) /\ SobreOngVMs(r.ongs, achadas)
              /\ achadas \in SUBSET Ongs
          BY <2>3, <3>1 DEF ReceberOngs, AplicarOngs, TypeOKDoador, TypeOK
        <4> QED
          BY <4>1, SobreOngVMsTipo DEF TelaOk, Telas
      <3>2. CASE r.vm # listaVM
        <4>1. UNCHANGED <<sobreVars, navegacao, ongs>>
          BY <2>3, <3>2 DEF ReceberOngs, AplicarOngs, telaVars
        <4> QED
          BY <4>1, TelaParada DEF TypeOKDoador, sobreVars, navegacao
      <3> QED
        BY <3>1, <3>2
    <2>4. ASSUME NEW o \in Ongs, AbrirSobre(o) PROVE Ok
      <3>1. UNCHANGED <<vars, sobreVars>> /\ Existe(o) /\ onde' = "sobre" /\ aberta' = o
        BY <2>4 DEF AbrirSobre
      <3>2. contribua' = [image |-> sobre[o], perfil |-> "lendo"]
        BY <2>4 DEF AbrirSobre, SobreOngDoadorVM
      <3>3. sobre[o] \in Fotos \cup {Ausente} /\ Existe(aberta)'
        BY <3>1 DEF TypeOKDoador, Existe, vars, sobreVars
      <3> QED
        BY <3>1, <3>2, <3>3 DEF TypeOKDoador, TelaOk, Telas, sobreVars
    <2>5. ASSUME AbrirContribua \/ Voltar PROVE Ok
      BY <2>5 DEF AbrirContribua, Voltar, Fechar, TypeOKDoador, TelaOk, Telas, Existe,
                  vars, sobreVars
    <2>6. ASSUME NEW d \in Download, TerminarFoto(d) PROVE Ok
      <3>1. d.foto \in Fotos /\ d.ong \in Ongs
        BY DEF Download
      <3>2. UNCHANGED <<achadas, lendo, ongs>> /\ fotosSobre' = fotosSobre \ {d}
        BY <2>6 DEF TerminarFoto, ReceberFoto, FalharFoto, Guardar, telaVars, vars
      <3>3. sobre' \in [Ongs -> Fotos \cup {Ausente}]
        BY <2>6, <3>1 DEF TerminarFoto, ReceberFoto, FalharFoto, TypeOKDoador
      <3>4. DesenharSobre(d.ong, d.foto) \/ UNCHANGED navegacao
        BY <2>6 DEF TerminarFoto, ReceberFoto, FalharFoto
      <3>5. onde' = onde
        BY <3>4 DEF DesenharSobre, navegacao
      <3> QED
        BY <3>1, <3>2, <3>3, <3>4, <3>5, DesenharTipo, TelaParada DEF TypeOKDoador
    <2>7. ASSUME UNCHANGED <<sobreVars, navegacao, ongs>> PROVE Ok
      BY <2>7, TelaParada DEF TypeOKDoador, sobreVars, navegacao
    <2>8. ASSUME NEW d \in Download, Baixa(d) PROVE Ok
      BY <2>7, <2>8 DEF Baixa, Terminar, Baixar, FalharDownload, AplicarImagem, telaVars
    <2>9. ASSUME NEW r \in Leitura, TerminarItens(r) PROVE Ok
      <3>1. r.ong \in Ongs
        BY DEF Leitura
      <3>2. /\ UNCHANGED <<achadas, sobre, ongs>>
            /\ fotosSobre' \subseteq fotosSobre /\ lendo' \subseteq lendo
        BY <2>9 DEF TerminarItens, ReceberItens, FalharItens, FimItens, Vivas, vars
      <3>3. DesenharSobre(r.ong, sobre[r.ong]) \/ UNCHANGED navegacao
        BY <2>9 DEF TerminarItens, ReceberItens, FalharItens
      <3>4. onde' = onde
        BY <3>3 DEF DesenharSobre, navegacao
      <3>5. sobre[r.ong] \in Fotos \cup {Ausente}
        BY <3>1 DEF TypeOKDoador
      <3> QED
        BY <3>1, <3>2, <3>3, <3>4, <3>5, DesenharTipo, TelaParada DEF TypeOKDoador
    <2>10. ASSUME NEW p \in {"chegou", "falhou"}, ReceberPerfil(p) PROVE Ok
      BY <2>10 DEF ReceberPerfil, TypeOKDoador, TelaOk, Existe, vars, sobreVars
    <2>11. ASSUME NEW n \in 1..MaxListas, ResponderOngs(n) \/ FalharOngs(n),
                  UNCHANGED <<sobreVars, navegacao>>
           PROVE  Ok
      BY <2>7, <2>11 DEF ResponderOngs, FalharOngs, telaVars
    <2>12. ASSUME NEW o \in Ongs, NEW f \in Fotos \cup {SemFoto}, MudarFoto(o, f),
                  UNCHANGED <<sobreVars, navegacao>>
           PROVE  Ok
      BY <2>7, <2>12 DEF MudarFoto, telaVars
    <2>13. ASSUME NEW f \in Fotos, Despejar(f), UNCHANGED <<sobreVars, navegacao>>
           PROVE  Ok
      BY <2>7, <2>13 DEF Despejar, telaVars
    <2> HIDE DEF Ok
    <2> QED
      BY <1>1, <2>1, <2>2, <2>3, <2>4, <2>5, <2>6, <2>8, <2>9, <2>10, <2>11, <2>12, <2>13
         DEF Passo, TerminarPerfil
  <1>2. CASE Passo /\ UNCHANGED caiu
    BY <1>1, <1>2 DEF TypeOKDoador
  <1>3. CASE VisitarSite
    <2>1. UNCHANGED <<vars, sobreVars, navegacao>> /\ caiu' = TRUE
      BY <1>3 DEF VisitarSite
    <2> QED
      BY <2>1, TelaParada DEF TypeOKDoador, vars, sobreVars, navegacao
  <1>4. CASE UNCHANGED varsDoador
    BY <1>4, TelaParada DEF varsDoador, TypeOKDoador, vars, sobreVars, navegacao
  <1> QED
    BY <1>2, <1>3, <1>4 DEF NextDoador

\* The screens of an NGO keep their types; one that is open is of an NGO that
\* the list and the search still have.
THEOREM TiposDoador == SpecDoador => []TypeOKDoador
  BY DoadorTipoInicial, DoadorTipoPasso, PTL DEF SpecDoador

\* Beside the screens of single NGOs, whose late view models write to the cache
\* it reads, the photo screen still shows only photos of its own list and
\* forgets none: a photo found in the cache is put on screen, one that turns
\* up there later is still brought by the download already under way.
THEOREM FotosAoLado == SpecDoador => [](ImagemDaLista /\ NadaSePerde)
  <1>1. InitDoador => FotosInv
    BY FotosInicial DEF InitDoador
  <1>2. TypeOKDoador /\ FotosInv /\ [NextDoador]_varsDoador => FotosInv'
    BY DoadorPasso, FotosPasso DEF TypeOKDoador
  <1>3. TypeOKDoador /\ FotosInv => ImagemDaLista /\ NadaSePerde
    BY FotosBastam DEF TypeOKDoador
  <1> QED
    BY <1>1, <1>2, <1>3, TiposDoador, PTL DEF SpecDoador

----------------------------------------------------------------------------
(* SobreOng: the photo on Contribua *)

\* Inductive: a download for a screen of the home screen's last drawing is of
\* the photo its NGO has in the list.
ContribuaInv ==
    /\ \A d \in fotosSobre : d.vm <= tela /\ (d.vm = tela => d.foto = ongs[d.ong])
    /\ ContribuaAcompanha

LEMMA ContribuaVMs ==
    ASSUME TypeOKDoador, ContribuaInv, NEW l \in Lista, NEW A \in SUBSET Ongs,
           Reconstruir(l), SobreOngVMs(l, A)
    PROVE  ContribuaInv'
  <1>1. tela \in Int /\ tela' = tela + 1 /\ ongs' = l
    BY ExplorarAssumption, FetchImagesTipo DEF TypeOKDoador, TypeOK
  <1>2. ASSUME NEW d \in fotosSobre PROVE d.vm <= tela' /\ d.vm # tela'
    <2>1. d.vm \in Int /\ d.vm <= tela
      BY ExplorarAssumption DEF ContribuaInv, TypeOKDoador, Download
    <2> QED
      BY <1>1, <2>1
  <1>3. ASSUME NEW d \in fotosSobre', d \notin fotosSobre
        PROVE  d.vm <= tela' /\ d.foto = ongs'[d.ong]
    BY <1>1, <1>3 DEF SobreOngVMs, Vivas
  <1>4. \A d \in fotosSobre' : d.vm <= tela' /\ (d.vm = tela' => d.foto = ongs'[d.ong])
    BY <1>2, <1>3
  <1>5. \A o \in Ongs : sobre'[o] \in {Ausente, ongs'[o]}
    BY <1>1 DEF SobreOngVMs
  <1>6. contribua' = Ausente
    BY SobreOngVMsTipo
  <1> QED
    BY <1>4, <1>5, <1>6 DEF ContribuaInv, ContribuaAcompanha

LEMMA ContribuaParada ==
    ASSUME ContribuaInv, UNCHANGED <<tela, ongs, fotosSobre, sobre, aberta, contribua>>
    PROVE  ContribuaInv'
  BY DEF ContribuaInv, ContribuaAcompanha

\* The body of an NGO's screen hands its photo on.
LEMMA ContribuaDesenhar ==
    ASSUME TypeOKDoador, ContribuaInv, UNCHANGED <<tela, ongs>>,
           fotosSobre' \subseteq fotosSobre,
           NEW o \in Ongs, NEW i \in {Ausente, ongs[o]},
           sobre' = [sobre EXCEPT ![o] = i], DesenharSobre(o, i)
    PROVE  ContribuaInv'
  <1>1. \A x \in Ongs : sobre'[x] = IF x = o THEN i ELSE sobre[x]
    BY DEF TypeOKDoador
  <1>2. \A x \in Ongs : sobre'[x] \in {Ausente, ongs'[x]}
    BY <1>1 DEF ContribuaInv, ContribuaAcompanha
  <1>3. contribua' # Ausente => contribua'.image = sobre'[aberta']
    <2>1. CASE onde # "home" /\ aberta = o
      BY <1>1, <2>1 DEF DesenharSobre, SobreOngDoadorVM
    <2>2. CASE onde # "home" /\ aberta # o
      <3>1. aberta \in Ongs /\ UNCHANGED <<aberta, contribua>>
        BY <2>2 DEF DesenharSobre, TypeOKDoador
      <3> QED
        BY <1>1, <2>2, <3>1 DEF ContribuaInv, ContribuaAcompanha
    <2>3. CASE onde = "home"
      BY <2>3 DEF DesenharSobre, TypeOKDoador
    <2> QED
      BY <2>1, <2>2, <2>3
  <1> QED
    BY <1>2, <1>3 DEF ContribuaInv, ContribuaAcompanha

LEMMA ContribuaPasso ==
    TypeOKDoador /\ ContribuaInv /\ [NextDoador]_varsDoador => ContribuaInv'
  <1> SUFFICES ASSUME TypeOKDoador, ContribuaInv, [NextDoador]_varsDoador
               PROVE  ContribuaInv'
    OBVIOUS
  <1>1. ASSUME Passo PROVE ContribuaInv'
    <2>1. ASSUME NEW A \in SUBSET Ongs, PesquisarOngs(A) PROVE ContribuaInv'
      <3>1. lista \in Lista /\ Reconstruir(lista) /\ SobreOngVMs(lista, A)
        BY <2>1 DEF PesquisarOngs, Pesquisar, TypeOKDoador, TypeOK
      <3> QED
        BY <3>1, ContribuaVMs
    <2>2. ASSUME RecomecarHome PROVE ContribuaInv'
      <3>1. Reconstruir(Vazia) /\ SobreOngVMs(Vazia, achadas) /\ achadas \in SUBSET Ongs
        BY <2>2 DEF RecomecarHome, Recomecar, TypeOKDoador
      <3> QED
        BY <3>1, VaziaTipo, ContribuaVMs
    <2>3. ASSUME NEW r \in respostas, ReceberOngs(r) PROVE ContribuaInv'
      <3>1. CASE r.vm = listaVM
        <4>1. /\ r.ongs \in Lista /\ Reconstruir(r.ongs) /\ SobreOngVMs(r.ongs, achadas)
              /\ achadas \in SUBSET Ongs
          BY <2>3, <3>1 DEF ReceberOngs, AplicarOngs, TypeOKDoador, TypeOK
        <4> QED
          BY <4>1, ContribuaVMs
      <3>2. CASE r.vm # listaVM
        BY <2>3, <3>2, ContribuaParada DEF ReceberOngs, AplicarOngs, telaVars, sobreVars,
                                           navegacao
      <3> QED
        BY <3>1, <3>2
    <2>4. ASSUME NEW o \in Ongs, AbrirSobre(o) PROVE ContribuaInv'
      BY <2>4 DEF AbrirSobre, SobreOngDoadorVM, ContribuaInv, ContribuaAcompanha, vars,
                  sobreVars
    <2>5. ASSUME AbrirContribua \/ Voltar PROVE ContribuaInv'
      BY <2>5 DEF AbrirContribua, Voltar, Fechar, ContribuaInv, ContribuaAcompanha, vars,
                  sobreVars
    <2>6. ASSUME NEW d \in Download, ReceberFoto(d), Atual(d) PROVE ContribuaInv'
      <3>1. /\ d.ong \in Ongs /\ d.foto = ongs[d.ong]
            /\ fotosSobre' \subseteq fotosSobre
            /\ sobre' = [sobre EXCEPT ![d.ong] = d.foto]
            /\ DesenharSobre(d.ong, d.foto)
        BY <2>6 DEF ReceberFoto, Atual, Download, ContribuaInv
      <3>2. UNCHANGED <<tela, ongs>>
        BY <2>6 DEF ReceberFoto, Guardar, telaVars
      <3> QED
        BY <3>1, <3>2, ContribuaDesenhar
    <2>7. ASSUME UNCHANGED <<tela, ongs, sobre, navegacao>>, fotosSobre' \subseteq fotosSobre
          PROVE  ContribuaInv'
      BY <2>7 DEF ContribuaInv, ContribuaAcompanha, navegacao
    <2>8. ASSUME NEW d \in Download, TerminarFoto(d), ~Atual(d) \/ FalharFoto(d)
          PROVE  ContribuaInv'
      BY <2>7, <2>8 DEF TerminarFoto, ReceberFoto, FalharFoto, Guardar, telaVars, vars
    <2>9. ASSUME NEW r \in Leitura, ReceberItens(r), Atual(r) PROVE ContribuaInv'
      <3>1. r.ong \in Ongs /\ DesenharSobre(r.ong, sobre[r.ong])
        BY <2>9 DEF Leitura, ReceberItens
      <3>2. UNCHANGED <<tela, ongs, sobre>> /\ fotosSobre' \subseteq fotosSobre
        BY <2>9 DEF ReceberItens, FimItens, Vivas, vars
      <3>3. sobre' = [sobre EXCEPT ![r.ong] = sobre[r.ong]]
        BY <3>2 DEF TypeOKDoador
      <3>4. sobre[r.ong] \in {Ausente, ongs[r.ong]}
        BY <3>1 DEF ContribuaInv, ContribuaAcompanha
      <3> QED
        BY <3>1, <3>2, <3>3, <3>4, ContribuaDesenhar
    <2>10. ASSUME NEW r \in Leitura, TerminarItens(r), ~Atual(r) \/ FalharItens(r)
           PROVE  ContribuaInv'
      <3>1. UNCHANGED <<tela, ongs, sobre>> /\ fotosSobre' \subseteq fotosSobre
        BY <2>10 DEF TerminarItens, ReceberItens, FalharItens, FimItens, Vivas, vars
      <3>2. UNCHANGED navegacao
        BY <2>10 DEF TerminarItens, ReceberItens, FalharItens
      <3> QED
        BY <2>7, <3>1, <3>2
    <2>11. ASSUME NEW p \in {"chegou", "falhou"}, ReceberPerfil(p) PROVE ContribuaInv'
      <3>1. /\ contribua \in [image : Fotos \cup {Ausente},
                              perfil : {"lendo", "chegou", "falhou"}]
            /\ UNCHANGED <<tela, ongs, fotosSobre, sobre, aberta>>
        BY <2>11 DEF ReceberPerfil, TypeOKDoador, vars, sobreVars
      <3>2. contribua'.image = contribua.image
        BY <2>11, <3>1 DEF ReceberPerfil
      <3> QED
        BY <2>11, <3>1, <3>2 DEF ReceberPerfil, ContribuaInv, ContribuaAcompanha
    <2>12. ASSUME NEW d \in Download, Baixa(d) PROVE ContribuaInv'
      BY <2>7, <2>12 DEF Baixa, Terminar, Baixar, FalharDownload, AplicarImagem, telaVars,
                         sobreVars
    <2>13. ASSUME UNCHANGED <<sobreVars, navegacao, telaVars>> PROVE ContribuaInv'
      BY <2>7, <2>13 DEF sobreVars, telaVars
    <2>14. ASSUME NEW n \in 1..MaxListas, ResponderOngs(n) \/ FalharOngs(n),
                  UNCHANGED <<sobreVars, navegacao>>
           PROVE  ContribuaInv'
      BY <2>13, <2>14 DEF ResponderOngs, FalharOngs
    <2>15. ASSUME NEW o \in Ongs, NEW f \in Fotos \cup {SemFoto}, MudarFoto(o, f),
                  UNCHANGED <<sobreVars, navegacao>>
           PROVE  ContribuaInv'
      BY <2>13, <2>15 DEF MudarFoto
    <2>16. ASSUME NEW f \in Fotos, Despejar(f), UNCHANGED <<sobreVars, navegacao>>
           PROVE  ContribuaInv'
      BY <2>13, <2>16 DEF Despejar
    <2>17. ASSUME NEW d \in Download, TerminarFoto(d) PROVE ContribuaInv'
      BY <2>6, <2>8, <2>17 DEF TerminarFoto
    <2>18. ASSUME NEW r \in Leitura, TerminarItens(r) PROVE ContribuaInv'
      BY <2>9, <2>10, <2>18 DEF TerminarItens
    <2> QED
      BY <1>1, <2>1, <2>2, <2>3, <2>4, <2>5, <2>11, <2>12, <2>14, <2>15, <2>16, <2>17, <2>18
         DEF Passo, TerminarPerfil
  <1>2. CASE VisitarSite
    BY <1>2, ContribuaParada DEF VisitarSite, vars, sobreVars, navegacao
  <1>3. CASE UNCHANGED varsDoador
    BY <1>3, ContribuaParada DEF varsDoador, vars, sobreVars, navegacao
  <1> QED
    BY <1>1, <1>2, <1>3 DEF NextDoador

\* Contribua, which downloads nothing, shows what the screen below it shows:
\* the photo its NGO has in the current list, or the placeholder.
THEOREM ContribuaSempreAcompanha == SpecDoador => []ContribuaAcompanha
  <1>1. InitDoador => ContribuaInv
    BY DEF InitDoador, ContribuaInv, ContribuaAcompanha, Vazia
  <1>2. ContribuaInv => ContribuaAcompanha
    BY DEF ContribuaInv
  <1> QED
    BY <1>1, <1>2, DoadorTipoInicial, DoadorTipoPasso, ContribuaPasso, PTL DEF SpecDoador

----------------------------------------------------------------------------
(* SobreOng: the profile on Contribua *)

LEMMA PerfilPasso ==
    ASSUME TypeOKDoador, [NextDoador]_varsDoador,
           onde = "contribua", contribua.perfil = "chegou", ~Pendente(aberta)
    PROVE  onde' # "contribua" \/ contribua'.perfil = "chegou"
  <1> DEFINE Ok == onde' # "contribua" \/ contribua'.perfil = "chegou"
  <1>1. ASSUME contribua' = contribua PROVE Ok
    BY <1>1
  <1>2. ASSUME NEW l, NEW A, SobreOngVMs(l, A) PROVE Ok
    BY <1>2 DEF SobreOngVMs, Fechar
  <1>3. ASSUME Passo PROVE Ok
    <2>1. ASSUME NEW A \in SUBSET Ongs, PesquisarOngs(A) PROVE Ok
      BY <2>1 DEF PesquisarOngs
    <2>2. ASSUME RecomecarHome PROVE Ok
      BY <1>2, <2>2 DEF RecomecarHome
    <2>3. ASSUME NEW r \in respostas, ReceberOngs(r) PROVE Ok
      BY <1>1, <1>2, <2>3 DEF ReceberOngs, navegacao
    <2>4. ASSUME NEW o \in Ongs, AbrirSobre(o) PROVE Ok
      BY <2>4 DEF AbrirSobre
    <2>5. ASSUME AbrirContribua \/ Voltar PROVE Ok
      BY <2>5 DEF AbrirContribua, Voltar
    <2>6. ASSUME NEW d \in Download, TerminarFoto(d) PROVE Ok
      <3>1. Atual(d) /\ d \in fotosSobre => d.ong # aberta
        BY DEF Atual, Pendente
      <3> QED
        BY <1>1, <2>6, <3>1 DEF TerminarFoto, ReceberFoto, FalharFoto, DesenharSobre,
                                navegacao
    <2>7. ASSUME NEW r \in Leitura, TerminarItens(r) PROVE Ok
      <3>1. r = [vm |-> r.vm, ong |-> r.ong]
        BY DEF Leitura
      <3>2. Atual(r) /\ r \in lendo => r.ong # aberta
        BY <3>1 DEF Atual, Pendente
      <3> QED
        BY <1>1, <2>7, <3>2 DEF TerminarItens, ReceberItens, FalharItens, FimItens,
                                DesenharSobre, navegacao
    <2>8. ASSUME TerminarPerfil PROVE Ok
      BY <2>8 DEF TerminarPerfil, ReceberPerfil
    <2>9. ASSUME UNCHANGED navegacao PROVE Ok
      BY <1>1, <2>9 DEF navegacao
    <2> HIDE DEF Ok
    <2> QED
      BY <1>3, <2>1, <2>2, <2>3, <2>4, <2>5, <2>6, <2>7, <2>8, <2>9 DEF Passo, Baixa
  <1>4. CASE VisitarSite
    BY <1>1, <1>4 DEF VisitarSite, navegacao
  <1>5. CASE UNCHANGED varsDoador
    BY <1>1, <1>5 DEF varsDoador, navegacao
  <1> QED
    BY <1>3, <1>4, <1>5 DEF NextDoador

\* A profile that has come stays on Contribua until the donor leaves, once the
\* photo and the items of the screen below have come or failed.
THEOREM PerfilSempreFica == SpecDoador => PerfilFica
  <1>1. TypeOKDoador /\ [NextDoador]_varsDoador =>
          [onde = "contribua" /\ contribua.perfil = "chegou" /\ ~Pendente(aberta)
             => onde' # "contribua" \/ contribua'.perfil = "chegou"]_varsDoador
    BY PerfilPasso
  <1> QED
    BY <1>1, TiposDoador, PTL DEF SpecDoador, PerfilFica
=============================================================================
