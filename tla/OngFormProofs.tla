--------------------------- MODULE OngFormProofs ---------------------------
(***************************************************************************)
(* Proofs about OngForm, for any contents of the text fields, any photos   *)
(* and any bounds.                                                         *)
(***************************************************************************)
EXTENDS OngForm, TLAPS

----------------------------------------------------------------------------
(* Type correctness *)

\* Inductive: besides the types, nothing of the home screen (a read, a
\* download, the form behind "Ver perfil") is there before it.
TiposInv ==
    /\ TypeOK
    /\ home = Ausente => /\ doc = Ausente
                         /\ \A b \in Buscas : buscas[b] = 0
                         /\ baixando = {}
                         /\ form["perfil"] = Ausente

LEMMA FormNovo ==
    ASSUME NEW p \in Perfil, NEW i \in Fotos
    PROVE  FormPerfil(p, i) \in Form /\ FormPerfil(p, i) # Ausente
  <1>1. SemFoto \in Fotos
    BY DEF Fotos
  <1>2. FormPerfil(p, i) \in Form
    BY <1>1 DEF FormPerfil, Form
  <1> QED
    BY <1>2, OngFormAssumption

LEMMA BrancoTipo ==
    ASSUME hora \in Nat
    PROVE  /\ PerfilBranco \in Perfil /\ PerfilBranco # Ausente
           /\ FormCadastro \in Form /\ FormCadastro # Ausente
  <1>1. PerfilBranco \in Perfil
    BY OngFormAssumption DEF PerfilBranco, Perfil, Textos, Fotos
  <1>2. FormCadastro \in Form
    BY <1>1 DEF FormCadastro, Form, Fotos
  <1> QED
    BY <1>1, <1>2, OngFormAssumption

LEMMA OrfaosTipo ==
    ASSUME NEW S \in SUBSET Envio, NEW m \in Modos
    PROVE  /\ Orfaos(S, m) \subseteq Envio
           /\ \A e \in Orfaos(S, m) : e.vivo => e \in S /\ e.modo # m
           /\ \A e \in Orfaos(S, m) :
                 \E d \in S : e.n = d.n /\ e.imagem = d.imagem /\ e.fase = d.fase
                              /\ e.modo = d.modo
  <1>1. ASSUME NEW d \in S
        PROVE  [d EXCEPT !.vivo = FALSE] \in Envio
    BY DEF Envio
  <1> QED
    BY <1>1 DEF Orfaos, Envio

LEMMA TiposInicio == Init => TiposInv
  <1> SUFFICES ASSUME Init PROVE TiposInv
    OBVIOUS
  <1>1. hora \in Nat
    BY DEF Init
  <1>2. ASSUME doc = Ausente, arquivo = SemFoto, tela = "cadastro", home = Ausente,
               isLoading = FALSE, buscas = [b \in Buscas |-> 0],
               form = [m \in Modos |-> IF m = "cadastro" THEN FormCadastro ELSE Ausente]
        PROVE  TiposInv
    <2>1. form \in [Modos -> Form \cup {Ausente}]
      BY <1>1, <1>2, BrancoTipo
    <2>2. form["cadastro"] # Ausente /\ form["perfil"] = Ausente
      BY <1>1, <1>2, BrancoTipo DEF Modos
    <2>3. SemFoto \in Fotos /\ gravadas \subseteq Imagens
      BY <1>2 DEF Fotos, Init
    <2>4. isLoading \in BOOLEAN /\ mexeu \in BOOLEAN
      BY <1>2 DEF Init
    <2>5. TypeOK
      BY <1>1, <1>2, <2>1, <2>2, <2>3, <2>4 DEF Init, TypeOK, Modos
    <2> QED
      BY <1>2, <2>2, <2>5 DEF TiposInv, Init
  <1>3. ASSUME NEW t \in Validos, NEW f \in Fotos,
               /\ doc = [texto |-> t, foto |-> f, data |-> 0]
               /\ arquivo = f
               /\ tela = "home"
               /\ home = PerfilBranco
               /\ isLoading = TRUE
               /\ buscas = SoFetchOng
               /\ form = [m \in Modos |-> IF m = "perfil"
                                          THEN FormPerfil(PerfilBranco, SemFoto)
                                          ELSE Ausente]
        PROVE  TiposInv
    <2>1. doc \in Perfil
      BY <1>3 DEF Perfil, Textos
    <2>2. buscas \in [Buscas -> Nat]
      BY <1>3 DEF SoFetchOng
    <2>3. SemFoto \in Fotos /\ gravadas \subseteq Imagens
      BY <1>3 DEF Fotos, Init
    <2>4. form \in [Modos -> Form \cup {Ausente}] /\ form["perfil"] # Ausente
      BY <1>1, <1>3, <2>3, BrancoTipo, FormNovo DEF Modos
    <2>5. isLoading \in BOOLEAN /\ mexeu \in BOOLEAN
      BY <1>3 DEF Init
    <2> QED
      BY <1>1, <1>3, <2>1, <2>2, <2>3, <2>4, <2>5, BrancoTipo
         DEF Init, TiposInv, TypeOK, Modos
  <1> QED
    BY <1>2, <1>3 DEF Init

LEMMA ReconstruirTipo ==
    ASSUME TiposInv, NEW p \in Perfil, NEW i \in Fotos, Reconstruir(p, i)
    PROVE  /\ form' \in [Modos -> Form \cup {Ausente}]
           /\ form'["perfil"] = FormPerfil(p, i) /\ form'["perfil"] # Ausente
           /\ form'["cadastro"] = form["cadastro"]
           /\ envios' \subseteq Envio
           /\ \A e \in envios' : e.vivo => e \in envios /\ e.modo = "cadastro"
           /\ \A e \in envios' :
                 \E d \in envios : e.imagem = d.imagem /\ e.fase = d.fase
  <1>1. form' \in [Modos -> Form \cup {Ausente}]
    BY FormNovo DEF Reconstruir, TiposInv, TypeOK
  <1>2. form'["perfil"] = FormPerfil(p, i) /\ form'["cadastro"] = form["cadastro"]
    BY DEF Reconstruir, TiposInv, TypeOK, Modos
  <1>3. envios \in SUBSET Envio /\ "perfil" \in Modos
    BY DEF TiposInv, TypeOK, Modos
  <1>4. \A e \in envios' : e.vivo => e.modo = "cadastro"
    BY <1>3, OrfaosTipo DEF Reconstruir, Envio, Modos
  <1> QED
    BY <1>1, <1>2, <1>3, <1>4, OrfaosTipo, FormNovo DEF Reconstruir

LEMMA FormMuda ==
    ASSUME TiposInv, NEW m \in Modos, NEW g \in Form, form' = [form EXCEPT ![m] = g]
    PROVE  /\ form' \in [Modos -> Form \cup {Ausente}]
           /\ form'[m] = g /\ g # Ausente
           /\ \A k \in Modos : k # m => form'[k] = form[k]
  BY OngFormAssumption DEF TiposInv, TypeOK

\* The home screen that a save leaves.
LEMMA CriarTipo ==
    ASSUME TiposInv, NEW m \in Modos, NEW p \in Perfil, NEW c \in BOOLEAN, NEW i \in Fotos,
           Criar(m, p, c, i), form[m] # Ausente
    PROVE  /\ doc' = p
           /\ home' \in Perfil /\ home' # Ausente
           /\ imagemHome' \in Fotos
           /\ isLoading' \in BOOLEAN
           /\ buscas' \in [Buscas -> Nat]
           /\ baixando' \subseteq Imagens
           /\ tela' \in {"home", "perfil"} /\ (tela' = "perfil" => tela = "perfil")
  <1> USE DEF TiposInv, TypeOK
  <1>1. CASE m = "cadastro"
    <2>1. home' \in Perfil /\ home' # Ausente
      BY <1>1, BrancoTipo DEF Criar
    <2>2. tela' \in {"home", "perfil"} /\ (tela' = "perfil" => tela = "perfil")
      BY <1>1 DEF Criar, Modos
    <2>3. buscas' \in [Buscas -> Nat]
      BY <1>1 DEF Criar, SoFetchOng
    <2> QED
      BY <1>1, <2>1, <2>2, <2>3 DEF Criar
  <1>2. CASE m = "perfil"
    <2>1. home # Ausente
      BY <1>2
    <2>2. buscas' \in [Buscas -> Nat]
      BY <1>2 DEF Criar, Buscas
    <2>3. isLoading' \in BOOLEAN
      BY <1>2 DEF Criar
    <2> QED
      BY <1>2, <2>1, <2>2, <2>3 DEF Criar, Modos
  <1> QED
    BY <1>1, <1>2 DEF Modos

\* What each action leaves of the forms.
LEMMA EditarForm ==
    ASSUME TiposInv, NEW m \in Modos, NEW t \in Textos, Editar(m, t)
    PROVE  /\ form' \in [Modos -> Form \cup {Ausente}]
           /\ form[m] \in Form /\ form'[m] \in Form /\ form'[m] # Ausente
           /\ form'[m].ong.foto = form[m].ong.foto /\ form'[m].ong.data = form[m].ong.data
           /\ form'[m].selecionada = form[m].selecionada
           /\ form'[m].baixada = form[m].baixada
           /\ \A k \in Modos : k # m => form'[k] = form[k]
  <1>1. form[m] \in Form
    BY DEF TiposInv, TypeOK, Editar
  <1> DEFINE g == [form[m] EXCEPT !.ong = [form[m].ong EXCEPT !.texto = t]]
  <1>2. g \in Form
    BY <1>1 DEF Form, Perfil
  <1>3. form' = [form EXCEPT ![m] = g]
    BY <1>1 DEF Editar, Form, TiposInv, TypeOK
  <1>4. /\ g.ong.foto = form[m].ong.foto /\ g.ong.data = form[m].ong.data
        /\ g.selecionada = form[m].selecionada /\ g.baixada = form[m].baixada
    BY <1>1 DEF Form, Perfil
  <1> HIDE DEF g
  <1> QED
    BY <1>1, <1>2, <1>3, <1>4, FormMuda

LEMMA EscolherForm ==
    ASSUME TiposInv, NEW m \in Modos, NEW i \in Imagens, EscolherImagem(m, i)
    PROVE  /\ form' \in [Modos -> Form \cup {Ausente}]
           /\ form[m] \in Form /\ form'[m] \in Form /\ form'[m] # Ausente
           /\ form'[m].ong = form[m].ong /\ form'[m].baixada = form[m].baixada
           /\ \A k \in Modos : k # m => form'[k] = form[k]
  <1>1. form[m] \in Form
    BY DEF TiposInv, TypeOK, EscolherImagem
  <1> DEFINE g == [form[m] EXCEPT !.selecionada = i]
  <1>2. g \in Form
    BY <1>1 DEF Form, Fotos
  <1>3. form' = [form EXCEPT ![m] = g]
    BY <1>1 DEF EscolherImagem, Form, TiposInv, TypeOK
  <1>4. g.ong = form[m].ong /\ g.baixada = form[m].baixada
    BY <1>1 DEF Form
  <1> HIDE DEF g
  <1> QED
    BY <1>1, <1>2, <1>3, <1>4, FormMuda

LEMMA FeedbackForm ==
    ASSUME TiposInv, NEW m \in Modos, NEW b \in BOOLEAN, form[m] # Ausente
    PROVE  /\ form[m] \in Form
           /\ [form[m] EXCEPT !.feedback = b] \in Form
           /\ [form[m] EXCEPT !.feedback = b].ong = form[m].ong
           /\ [form[m] EXCEPT !.feedback = b].selecionada = form[m].selecionada
           /\ [form[m] EXCEPT !.feedback = b].baixada = form[m].baixada
  <1>1. form[m] \in Form
    BY DEF TiposInv, TypeOK
  <1>2. [form[m] EXCEPT !.feedback = b] \in Form
    BY <1>1 DEF Form
  <1> QED
    BY <1>1, <1>2 DEF Form

\* A save that does not write, or not yet: only the message changes.
LEMMA SalvarForm ==
    ASSUME TiposInv, NEW m \in Modos, SalvarInvalido(m) \/ salvaComImagem(m)
                                       \/ salvaImagemSemDados(m)
    PROVE  /\ form' \in [Modos -> Form \cup {Ausente}]
           /\ form[m] \in Form /\ form'[m] \in Form /\ form'[m] # Ausente
           /\ form'[m].ong = form[m].ong
           /\ form'[m].selecionada = form[m].selecionada
           /\ form'[m].baixada = form[m].baixada
           /\ \A k \in Modos : k # m => form'[k] = form[k]
  <1>1. form[m] # Ausente
    BY DEF TiposInv, TypeOK, SalvarInvalido, salvaImagemSemDados, salvaComImagem, PodeSalvar
  <1>2. PICK b \in BOOLEAN : form' = [form EXCEPT ![m] = [form[m] EXCEPT !.feedback = b]]
    BY DEF SalvarInvalido, salvaImagemSemDados, salvaComImagem, TiposInv, TypeOK
  <1> DEFINE g == [form[m] EXCEPT !.feedback = b]
  <1>3. /\ form[m] \in Form /\ g \in Form
        /\ g.ong = form[m].ong /\ g.selecionada = form[m].selecionada
        /\ g.baixada = form[m].baixada
    BY <1>1, FeedbackForm
  <1>4. form' = [form EXCEPT ![m] = g]
    BY <1>2
  <1> HIDE DEF g
  <1> QED
    BY <1>3, <1>4, FormMuda

LEMMA CancelarForm ==
    ASSUME TiposInv, Cancelar
    PROVE  /\ form' \in [Modos -> Form \cup {Ausente}]
           /\ form["perfil"] \in Form /\ form'["perfil"] \in Form
           /\ form'["perfil"] # Ausente
           /\ form'["perfil"].ong = form["perfil"].ong
           /\ form'["perfil"].baixada = form["perfil"].baixada
           /\ form'["perfil"].selecionada = SemFoto
           /\ form'["cadastro"] = form["cadastro"]
  <1>1. form["perfil"] \in Form
    BY DEF TiposInv, TypeOK, Cancelar, Modos
  <1> DEFINE g == [form["perfil"] EXCEPT !.feedback = FALSE, !.selecionada = SemFoto]
  <1>2. g \in Form
    BY <1>1 DEF Form, Fotos
  <1>3. form' = [form EXCEPT !["perfil"] = g]
    BY <1>1 DEF Cancelar, Form, TiposInv, TypeOK
  <1>4. /\ g.ong = form["perfil"].ong /\ g.baixada = form["perfil"].baixada
        /\ g.selecionada = SemFoto
    BY <1>1 DEF Form
  <1> HIDE DEF g
  <1> QED
    BY <1>1, <1>2, <1>3, <1>4, FormMuda DEF Modos

LEMMA salvaSemImagemForm ==
    ASSUME TiposInv, NEW m \in Modos, salvaSemImagem(m)
    PROVE  /\ form' \in [Modos -> Form \cup {Ausente}]
           /\ form[m] \in Form /\ form'[m] \in Form /\ form'[m] # Ausente
           /\ form'[m].ong = form[m].ong
           /\ form'[m].selecionada = form[m].selecionada
           /\ form'[m].baixada = form[m].baixada
           /\ m = "perfil" => form'["cadastro"] = form["cadastro"]
           /\ m = "cadastro" =>
                 form'["perfil"] = FormPerfil(PerfilBranco, form["cadastro"].baixada)
  <1>1. form[m] # Ausente
    BY DEF TiposInv, TypeOK, salvaSemImagem, PodeSalvar
  <1> DEFINE g == [form[m] EXCEPT !.feedback = FALSE]
             f == [form EXCEPT ![m] = g]
  <1>2. /\ form[m] \in Form /\ g \in Form
        /\ g.ong = form[m].ong /\ g.selecionada = form[m].selecionada
        /\ g.baixada = form[m].baixada
    BY <1>1, FeedbackForm
  <1>3. form' = ComHome(f, m, form[m].baixada)
    BY DEF salvaSemImagem, TiposInv, TypeOK
  <1>4. FormPerfil(PerfilBranco, form[m].baixada) \in Form
    BY <1>2, BrancoTipo, FormNovo DEF Form, TiposInv, TypeOK
  <1> HIDE DEF g
  <1>5. f \in [Modos -> Form \cup {Ausente}] /\ f[m] = g
        /\ (m = "perfil" => f["cadastro"] = form["cadastro"])
    BY <1>2 DEF TiposInv, TypeOK, Modos
  <1> HIDE DEF f
  <1>6. g # Ausente
    BY <1>2, OngFormAssumption
  <1>7. CASE m = "perfil"
    BY <1>2, <1>3, <1>5, <1>6, <1>7 DEF ComHome
  <1>8. CASE m = "cadastro"
    BY <1>2, <1>3, <1>4, <1>5, <1>6, <1>8 DEF ComHome, Modos
  <1> QED
    BY <1>7, <1>8 DEF Modos

LEMMA ConcluirForm ==
    ASSUME TiposInv, NEW e \in envios, NEW url \in Fotos, e.vivo, ConcluirEnvio(e, url)
    PROVE  /\ e.modo \in Modos /\ form[e.modo] # Ausente /\ form[e.modo] \in Form
           /\ form' \in [Modos -> Form \cup {Ausente}]
           /\ [form[e.modo].ong EXCEPT !.foto = url] \in Perfil
           /\ Criar(e.modo, [form[e.modo].ong EXCEPT !.foto = url], TRUE,
                    form[e.modo].selecionada)
           /\ form'["perfil"] = IF e.modo = "perfil" THEN FormPerfil(home, imagemHome)
                                ELSE FormPerfil(PerfilBranco, form["cadastro"].selecionada)
           /\ form'["perfil"] \in Form
           /\ e.modo = "perfil" => form'["cadastro"] = form["cadastro"]
           /\ e.modo = "cadastro" =>
                 /\ form'["cadastro"] \in Form
                 /\ form'["cadastro"].ong = [form["cadastro"].ong EXCEPT !.foto = url]
                 /\ form'["cadastro"].baixada = form["cadastro"].selecionada
                 /\ form'["cadastro"].selecionada = SemFoto
           /\ envios' = Orfaos(envios \ {e}, "perfil")
  <1> DEFINE m == e.modo
             ong == [form[m].ong EXCEPT !.foto = url]
             f == [form EXCEPT ![m].ong = ong, ![m].baixada = form[m].selecionada,
                               ![m].selecionada = SemFoto,
                               ![m].feedback = @ \/ url = SemFoto]
             g == [ong |-> ong, inicial |-> form[m].inicial, selecionada |-> SemFoto,
                   baixada |-> form[m].selecionada,
                   feedback |-> form[m].feedback \/ url = SemFoto]
  <1>1. m \in Modos /\ form[m] # Ausente /\ form[m] \in Form
    BY DEF TiposInv, TypeOK, Envio
  <1>2. ong \in Perfil
    BY <1>1 DEF Form, Perfil
  <1>3. g \in Form
    BY <1>1, <1>2 DEF Form, Fotos
  <1>4. f[m] = g /\ f \in [Modos -> Form \cup {Ausente}]
        /\ \A k \in Modos : k # m => f[k] = form[k]
    BY <1>1, <1>2, <1>3 DEF TiposInv, TypeOK, Form
  <1>5. /\ Criar(m, ong, TRUE, form[m].selecionada)
        /\ form' = IF m = "perfil" THEN [f EXCEPT ![m] = FormPerfil(home, imagemHome)]
                   ELSE ComHome(f, m, form[m].selecionada)
        /\ envios' = Orfaos(envios \ {e}, "perfil")
    BY DEF ConcluirEnvio
  <1>6. /\ g.ong = ong /\ g.baixada = form[m].selecionada /\ g.selecionada = SemFoto
    OBVIOUS
  <1> HIDE DEF g, f
  <1>7. CASE m = "perfil"
    <2>1. FormPerfil(home, imagemHome) \in Form
      BY <1>1, <1>7, FormNovo DEF TiposInv, TypeOK
    <2> QED
      BY <1>1, <1>2, <1>4, <1>5, <1>7, <2>1 DEF Modos
  <1>8. CASE m = "cadastro"
    <2>1. FormPerfil(PerfilBranco, form[m].selecionada) \in Form
      BY <1>1, BrancoTipo, FormNovo DEF Form, TiposInv, TypeOK
    <2> QED
      BY <1>1, <1>2, <1>3, <1>4, <1>5, <1>6, <1>8, <2>1 DEF Modos, ComHome
  <1> QED
    BY <1>1, <1>7, <1>8 DEF Modos

LEMMA TiposUpload ==
    ASSUME TiposInv, NEW e \in envios, Upload(e)
    PROVE  TiposInv'
  <1> USE DEF TiposInv, TypeOK
  <1>1. CASE GravarArquivo(e)
    <2>1. [e EXCEPT !.fase = "url"] \in Envio /\ [e EXCEPT !.fase = "url"].modo = e.modo
          /\ [e EXCEPT !.fase = "url"].vivo = e.vivo
      BY DEF Envio
    <2>2. e.imagem \in Imagens
      BY DEF Envio
    <2>3. \A d \in envios' : d.vivo => form[d.modo] # Ausente
      BY <1>1, <2>1 DEF GravarArquivo
    <2> QED
      BY <1>1, <2>1, <2>2, <2>3 DEF GravarArquivo, casa, Fotos
  <1>2. ASSUME NEW url \in Fotos, ConcluirEnvio(e, url), falhas' \in Nat,
               UNCHANGED <<arquivo, hora, enviados, mexeu, gravadas>>
        PROVE  TiposInv'
    <2>1. CASE ~e.vivo
      BY <1>2, <2>1 DEF ConcluirEnvio, casa
    <2>2. CASE e.vivo
      <3>1. form[e.modo].selecionada \in Fotos
        BY <1>2, <2>2, ConcluirForm DEF Form
      <3>2. /\ doc' \in Perfil
            /\ home' \in Perfil /\ home' # Ausente
            /\ imagemHome' \in Fotos
            /\ isLoading' \in BOOLEAN
            /\ buscas' \in [Buscas -> Nat]
            /\ baixando' \subseteq Imagens
            /\ tela' \in {"home", "perfil"}
        <4> DEFINE p == [form[e.modo].ong EXCEPT !.foto = url]
                   i == form[e.modo].selecionada
        <4>1. /\ e.modo \in Modos /\ form[e.modo] # Ausente
              /\ p \in Perfil /\ Criar(e.modo, p, TRUE, i)
          BY <1>2, <2>2, ConcluirForm
        <4>2. i \in Fotos /\ TRUE \in BOOLEAN
          BY <3>1
        <4> HIDE DEF p, i
        <4> QED
          BY <4>1, <4>2, CriarTipo
      <3>3. /\ form' \in [Modos -> Form \cup {Ausente}]
            /\ form'["perfil"] # Ausente
            /\ form["cadastro"] # Ausente => form'["cadastro"] # Ausente
        BY <1>2, <2>2, ConcluirForm, OngFormAssumption DEF Modos
      <3>4. envios' \subseteq Envio /\ \A d \in envios' : d.vivo => d \in envios
        <4>1. envios \ {e} \in SUBSET Envio /\ "perfil" \in Modos
          BY DEF Modos
        <4>2. envios' = Orfaos(envios \ {e}, "perfil")
          BY <1>2, <2>2 DEF ConcluirEnvio
        <4> QED
          BY <4>1, <4>2, OrfaosTipo
      <3>5. \A d \in envios' : d.vivo => form'[d.modo] # Ausente
        BY <3>3, <3>4 DEF Envio, Modos
      <3> QED
        BY <1>2, <3>2, <3>3, <3>4, <3>5 DEF Modos
    <2> QED
      BY <2>1, <2>2
  <1>3. CASE ReceberUrl(e)
    BY <1>2, <1>3 DEF ReceberUrl
  <1>4. CASE FalharEnvio(e)
    <2>1. falhas' \in Nat /\ SemFoto \in Fotos
      BY <1>4 DEF FalharEnvio, Falhar, Fotos
    <2> QED
      BY <1>2, <1>4, <2>1 DEF FalharEnvio
  <1> QED
    BY <1>1, <1>3, <1>4 DEF Upload

\* The body of the home screen runs again.
LEMMA TiposReconstruir ==
    ASSUME TiposInv, home # Ausente,
           \/ Redesenhar
           \/ \E b \in Buscas : BuscarOng(b) \/ FalharOng(b)
           \/ \E i \in Imagens : ReceberImagem(i)
    PROVE  TiposInv'
  <1> USE DEF TiposInv, TypeOK
  <1>1. ASSUME NEW p \in Perfil, NEW i \in Fotos, Reconstruir(p, i),
               home' \in Perfil, imagemHome' \in Fotos, baixando' \subseteq Imagens,
               isLoading' \in BOOLEAN, buscas' \in [Buscas -> Nat], falhas' \in Nat,
               UNCHANGED <<doc, arquivo, hora, tela, enviados, mexeu, gravadas>>
        PROVE  TiposInv'
    <2>1. home' # Ausente
      BY <1>1, OngFormAssumption
    <2>2. /\ form' \in [Modos -> Form \cup {Ausente}] /\ envios' \subseteq Envio
          /\ form'["perfil"] # Ausente /\ form'["cadastro"] = form["cadastro"]
          /\ \A e \in envios' : e.vivo => e \in envios /\ e.modo = "cadastro"
      BY <1>1, ReconstruirTipo
    <2>3. \A e \in envios' : e.vivo => form'[e.modo] # Ausente
      BY <2>2
    <2>4. tela' \in Modos => form'[tela'] # Ausente
      BY <1>1, <2>2 DEF Modos
    <2> QED
      BY <1>1, <2>1, <2>2, <2>3, <2>4
  <1>2. CASE Redesenhar
    BY <1>1, <1>2 DEF Redesenhar, casa
  <1>3. ASSUME NEW b \in Buscas, BuscarOng(b) \/ FalharOng(b) PROVE TiposInv'
    <2>1. buscas' \in [Buscas -> Nat]
      BY <1>3 DEF BuscarOng, FalharOng, Resposta
    <2>2. CASE BuscarOng(b) /\ doc = Ausente
      BY <2>1, <2>2 DEF BuscarOng, Resposta
    <2>3. CASE BuscarOng(b) /\ doc # Ausente
      <3>1. {doc.foto} \ {SemFoto} \subseteq Imagens
        BY <2>3 DEF Perfil, Fotos
      <3>2. home' \in Perfil /\ baixando' \subseteq Imagens /\ isLoading' \in BOOLEAN
        BY <2>3, <3>1 DEF BuscarOng, Resposta
      <3> QED
        BY <1>1, <2>1, <2>3, <3>2 DEF BuscarOng, Resposta
    <2>4. CASE FalharOng(b)
      <3>1. falhas' \in Nat
        BY <2>4 DEF FalharOng, Falhar
      <3>2. isLoading' \in BOOLEAN
        BY <2>4 DEF FalharOng
      <3> QED
        BY <1>1, <2>1, <2>4, <3>1, <3>2 DEF FalharOng, Resposta
    <2> QED
      BY <1>3, <2>2, <2>3, <2>4
  <1>4. ASSUME NEW i \in Imagens, ReceberImagem(i) PROVE TiposInv'
    BY <1>1, <1>4 DEF ReceberImagem, Fotos
  <1> QED
    BY <1>2, <1>3, <1>4

LEMMA TiposPasso == TiposInv /\ [Next]_vars => TiposInv'
  <1> SUFFICES ASSUME TiposInv, [Next]_vars PROVE TiposInv'
    OBVIOUS
  <1> USE DEF TiposInv, TypeOK
  <1>1. ASSUME \/ Redesenhar
               \/ \E b \in Buscas : BuscarOng(b) \/ FalharOng(b)
               \/ \E i \in Imagens : ReceberImagem(i)
        PROVE  TiposInv'
    <2>1. home # Ausente
      BY <1>1 DEF Redesenhar, BuscarOng, FalharOng, Resposta, ReceberImagem
    <2> QED
      BY <1>1, <2>1, TiposReconstruir
  <1>2. CASE AbrirPerfil
    BY <1>2 DEF AbrirPerfil, casa, Modos
  <1>3. CASE updateDate
    <2>1. [doc EXCEPT !.data = hora + 1] \in Perfil
      BY <1>3 DEF updateDate, Perfil
    <2> QED
      BY <1>3, <2>1 DEF updateDate, casa
  <1>4. ASSUME NEW i \in Imagens, FalharDownload(i) PROVE TiposInv'
    BY <1>4 DEF FalharDownload, Falhar
  <1>5. ASSUME NEW m \in Modos, NEW t \in Textos, Editar(m, t) PROVE TiposInv'
    <2>1. mexeu' \in BOOLEAN
      BY <1>5 DEF Editar
    <2>2. \A e \in envios : e.vivo => form'[e.modo] # Ausente
      BY <1>5, EditarForm DEF Envio
    <2> QED
      BY <1>5, <2>1, <2>2, EditarForm DEF Editar, casa, Modos
  <1>6. ASSUME NEW m \in Modos, NEW i \in Imagens, EscolherImagem(m, i) PROVE TiposInv'
    <2>1. mexeu' \in BOOLEAN
      BY <1>6 DEF EscolherImagem
    <2>2. \A e \in envios : e.vivo => form'[e.modo] # Ausente
      BY <1>6, EscolherForm DEF Envio
    <2> QED
      BY <1>6, <2>1, <2>2, EscolherForm DEF EscolherImagem, casa, Modos
  <1>7. ASSUME NEW m \in Modos, SalvarInvalido(m) \/ salvaImagemSemDados(m) PROVE TiposInv'
    <2>1. \A e \in envios : e.vivo => form'[e.modo] # Ausente
      BY <1>7, SalvarForm DEF Envio
    <2> QED
      BY <1>7, <2>1, SalvarForm DEF SalvarInvalido, salvaImagemSemDados, PodeSalvar, casa, Modos
  <1>8. ASSUME NEW m \in Modos, salvaSemImagem(m) PROVE TiposInv'
    <2>1. form[m] \in Form /\ form[m] # Ausente
      BY <1>8, salvaSemImagemForm, OngFormAssumption
    <2>2. form[m].ong \in Perfil /\ form[m].baixada \in Fotos
      BY <2>1 DEF Form
    <2>3. /\ doc' = form[m].ong
          /\ home' \in Perfil /\ home' # Ausente
          /\ imagemHome' \in Fotos
          /\ isLoading' \in BOOLEAN
          /\ buscas' \in [Buscas -> Nat]
          /\ baixando' \subseteq Imagens
          /\ tela' \in {"home", "perfil"}
      BY <1>8, <2>1, <2>2, CriarTipo DEF salvaSemImagem
    <2>4. /\ form' \in [Modos -> Form \cup {Ausente}]
          /\ form'["perfil"] # Ausente
          /\ form["cadastro"] # Ausente => form'["cadastro"] # Ausente
      BY <1>8, <2>2, salvaSemImagemForm, BrancoTipo, FormNovo DEF Modos
    <2>5. envios' \subseteq Envio /\ \A e \in envios' : e.vivo => e \in envios
      <3>1. envios \in SUBSET Envio /\ "perfil" \in Modos
        BY DEF Modos
      <3> QED
        BY <1>8, <3>1, OrfaosTipo DEF salvaSemImagem
    <2>6. \A e \in envios' : e.vivo => form'[e.modo] # Ausente
      BY <2>4, <2>5 DEF Envio, Modos
    <2> QED
      BY <1>8, <2>2, <2>3, <2>4, <2>5, <2>6 DEF salvaSemImagem, Modos
  <1>9. ASSUME NEW m \in Modos, salvaComImagem(m) PROVE TiposInv'
    <2>1. form[m].selecionada \in Imagens
      BY <1>9, SalvarForm DEF salvaComImagem, ComImagem, Form, Fotos
    <2> DEFINE d == [n |-> enviados + 1, modo |-> m, imagem |-> form[m].selecionada,
                     fase |-> "put", vivo |-> TRUE]
    <2>2. enviados + 1 \in Nat
      OBVIOUS
    <2>3. d \in Envio /\ d.modo = m
      BY <2>1, <2>2 DEF Envio
    <2>4. envios' = envios \cup {d} /\ enviados' = enviados + 1
      BY <1>9 DEF salvaComImagem
    <2> HIDE DEF d
    <2>5. \A e \in envios' : e.vivo => form'[e.modo] # Ausente
      BY <1>9, <2>3, <2>4, SalvarForm DEF Envio
    <2> QED
      BY <1>9, <2>2, <2>3, <2>4, <2>5, SalvarForm DEF salvaComImagem, PodeSalvar, casa, Modos
  <1>10. CASE Cancelar
    <2>1. \A e \in envios : e.vivo => form'[e.modo] # Ausente
      BY <1>10, CancelarForm DEF Envio, Modos
    <2> QED
      BY <1>10, <2>1, CancelarForm DEF Cancelar, casa, Modos
  <1>11. ASSUME NEW e \in envios, Upload(e) PROVE TiposInv'
    BY <1>11, TiposUpload
  <1>12. CASE UNCHANGED vars
    BY <1>12 DEF vars, casa
  <1> QED
    BY <1>1, <1>2, <1>3, <1>4, <1>5, <1>6, <1>7, <1>8, <1>9, <1>10, <1>11, <1>12
       DEF Next

\* Every state of the two forms, the home screen and the uploads is one the
\* code can hold: a form on screen, a living upload and a home screen have the
\* view models they use, and the sign-up form is on screen exactly while there
\* is no home screen.
THEOREM TiposForm == Spec => []TypeOK
  <1>1. TiposInv => TypeOK
    BY DEF TiposInv
  <1> QED
    BY <1>1, TiposInicio, TiposPasso, PTL DEF Spec

----------------------------------------------------------------------------
(* The uploads and the draft they will save *)

\* The steps after which the form behind "Ver perfil" is a new one, made from
\* the home screen: its uploads are orphans.
LEMMA FormNovoDoPerfil ==
    ASSUME TiposInv,
           \/ Redesenhar
           \/ \E b \in Buscas : BuscarOng(b) \/ FalharOng(b)
           \/ \E i \in Imagens : ReceberImagem(i)
    PROVE  /\ doc' = doc /\ arquivo' = arquivo /\ hora' = hora
           /\ mexeu' = mexeu /\ gravadas' = gravadas
           /\ form'["cadastro"] = form["cadastro"]
           /\ \/ form'["perfil"] = form["perfil"] /\ home' = home /\ envios' = envios
                 /\ baixando' = baixando /\ imagemHome' = imagemHome
              \/ /\ home' \in Perfil \cap {home, doc}
                 /\ imagemHome' \in {imagemHome} \cup baixando
                 /\ form'["perfil"] = FormPerfil(home', imagemHome')
                 /\ baixando' \subseteq baixando \cup
                                 (IF doc = Ausente THEN {} ELSE {doc.foto} \ {SemFoto})
                 /\ \A e \in envios' : e.vivo => e \in envios /\ e.modo = "cadastro"
                 /\ \A e \in envios' :
                       \E d \in envios : e.imagem = d.imagem /\ e.fase = d.fase
           /\ falhas' \in {falhas, falhas + 1}
  <1> USE DEF TiposInv, TypeOK
  <1>1. home \in Perfil
    BY DEF Redesenhar, BuscarOng, FalharOng, Resposta, ReceberImagem
  <1>2. CASE Redesenhar
    BY <1>1, <1>2, ReconstruirTipo DEF Redesenhar, casa
  <1>3. ASSUME NEW b \in Buscas, FalharOng(b)
        PROVE  Reconstruir(home, imagemHome) /\ falhas' = falhas + 1
               /\ UNCHANGED <<doc, arquivo, hora, mexeu, gravadas, home, imagemHome, baixando>>
    BY <1>3 DEF FalharOng, Falhar, Resposta
  <1>4. ASSUME NEW b \in Buscas, BuscarOng(b), doc # Ausente
        PROVE  /\ Reconstruir(doc, imagemHome) /\ home' = doc /\ doc \in Perfil
               /\ baixando' \subseteq baixando \cup ({doc.foto} \ {SemFoto})
               /\ UNCHANGED <<doc, arquivo, hora, mexeu, gravadas, imagemHome, falhas>>
    BY <1>4 DEF BuscarOng, Resposta
  <1>5. ASSUME NEW b \in Buscas, BuscarOng(b), doc = Ausente
        PROVE  UNCHANGED <<form, home, envios, baixando, imagemHome, doc, arquivo, hora, mexeu,
                           gravadas, falhas>>
    BY <1>5 DEF BuscarOng, Resposta
  <1>6. ASSUME NEW i \in Imagens, ReceberImagem(i)
        PROVE  /\ Reconstruir(home, i) /\ i \in baixando /\ i \in Fotos /\ imagemHome' = i
               /\ baixando' \subseteq baixando
               /\ UNCHANGED <<doc, arquivo, hora, mexeu, gravadas, home, falhas>>
    BY <1>6 DEF ReceberImagem, Fotos
  <1> QED
    BY <1>1, <1>2, <1>3, <1>4, <1>5, <1>6, ReconstruirTipo

\* The living uploads a completed one leaves.
LEMMA ConcluirEnvios ==
    ASSUME TiposInv, NEW e \in envios, NEW url \in Fotos, ConcluirEnvio(e, url)
    PROVE  /\ \A d \in envios' : d.vivo => d \in envios
           /\ e.vivo => \A d \in envios' : d.vivo => d.modo = "cadastro"
           /\ \A d \in envios' : \E c \in envios : d.imagem = c.imagem /\ d.fase = c.fase
  <1>1. envios \ {e} \in SUBSET Envio /\ "perfil" \in Modos
    BY DEF TiposInv, TypeOK, Modos
  <1>2. CASE ~e.vivo
    BY <1>2 DEF ConcluirEnvio
  <1>3. CASE e.vivo
    <2>1. envios' = Orfaos(envios \ {e}, "perfil")
      BY <1>3 DEF ConcluirEnvio
    <2> QED
      BY <1>1, <1>3, <2>1, OrfaosTipo DEF Envio, Modos
  <1> QED
    BY <1>2, <1>3

LEMMA SalvarEnvios ==
    ASSUME TiposInv, NEW m \in Modos, salvaSemImagem(m)
    PROVE  /\ \A d \in envios' : d.vivo => d \in envios
           /\ m = "cadastro" => \A d \in envios' : d.vivo => d.modo = "cadastro"
           /\ \A d \in envios' : \E c \in envios : d.imagem = c.imagem /\ d.fase = c.fase
  <1>1. envios \in SUBSET Envio /\ "perfil" \in Modos
    BY DEF TiposInv, TypeOK, Modos
  <1> QED
    BY <1>1, OrfaosTipo DEF salvaSemImagem, Envio, Modos

----------------------------------------------------------------------------
(* What verificaCampos refuses *)

\* Inductive: the draft that a living upload will save is one verificaCampos
\* accepted, or was changed since.
TextoInv ==
    /\ InvalidoSoPorUpload
    /\ \A e \in envios : e.vivo => mexeu \/ form[e.modo].ong.texto \in Validos

LEMMA TextoConcluir ==
    ASSUME TiposInv, TextoInv, NEW e \in envios, NEW url \in Fotos, ConcluirEnvio(e, url),
           mexeu' = mexeu
    PROVE  TextoInv'
  <1>1. CASE ~e.vivo
    BY <1>1 DEF ConcluirEnvio, TextoInv, InvalidoSoPorUpload
  <1>2. CASE e.vivo
    <2>1. [form[e.modo].ong EXCEPT !.foto = url].texto = form[e.modo].ong.texto
      BY <1>2, ConcluirForm DEF Form, Perfil
    <2>2. doc' = [form[e.modo].ong EXCEPT !.foto = url]
      BY <1>2, ConcluirForm DEF Criar
    <2>3. InvalidoSoPorUpload'
      BY <1>2, <2>1, <2>2 DEF TextoInv, InvalidoSoPorUpload
    <2>4. \A d \in envios' : d.vivo => d \in envios /\ d.modo = "cadastro"
      BY <1>2, ConcluirEnvios
    <2>5. form'["cadastro"].ong.texto = form["cadastro"].ong.texto
      BY <1>2, <2>1, ConcluirForm DEF Modos
    <2> QED
      BY <2>3, <2>4, <2>5 DEF TextoInv
  <1> QED
    BY <1>1, <1>2

LEMMA TextoPasso == TiposInv /\ TextoInv /\ [Next]_vars => TextoInv'
  <1> SUFFICES ASSUME TiposInv, TextoInv, [Next]_vars PROVE TextoInv'
    OBVIOUS
  <1> USE DEF TextoInv, InvalidoSoPorUpload
  <1>1. ASSUME \/ Redesenhar
               \/ \E b \in Buscas : BuscarOng(b) \/ FalharOng(b)
               \/ \E i \in Imagens : ReceberImagem(i)
        PROVE  TextoInv'
    <2>1. doc' = doc /\ mexeu' = mexeu /\ form'["cadastro"] = form["cadastro"]
      BY <1>1, FormNovoDoPerfil
    <2>2. \/ envios' = envios /\ form'["perfil"] = form["perfil"]
          \/ \A e \in envios' : e.vivo => e \in envios /\ e.modo = "cadastro"
      BY <1>1, FormNovoDoPerfil
    <2>3. \A e \in envios : e.modo \in {"cadastro", "perfil"}
      BY DEF TiposInv, TypeOK, Envio, Modos
    <2> QED
      BY <2>1, <2>2, <2>3
  <1>2. CASE AbrirPerfil
    BY <1>2 DEF AbrirPerfil
  <1>3. CASE updateDate
    <2>1. doc \in Perfil /\ doc # Ausente
      BY <1>3 DEF updateDate, TiposInv, TypeOK
    <2>2. doc'.texto = doc.texto
      BY <1>3, <2>1 DEF updateDate, Perfil
    <2> QED
      BY <1>3, <2>1, <2>2 DEF updateDate
  <1>4. ASSUME NEW i \in Imagens, FalharDownload(i) PROVE TextoInv'
    BY <1>4 DEF FalharDownload
  <1>5. ASSUME NEW m \in Modos, NEW t \in Textos, Editar(m, t) PROVE TextoInv'
    <2>1. ASSUME NEW e \in envios, e.vivo, ~mexeu' PROVE form'[e.modo] = form[e.modo]
      BY <1>5, <2>1, EditarForm DEF Editar, EmEnvio, TiposInv, TypeOK, Envio
    <2> QED
      BY <1>5, <2>1 DEF Editar
  <1>6. ASSUME NEW m \in Modos, NEW i \in Imagens, EscolherImagem(m, i) PROVE TextoInv'
    <2>1. ASSUME NEW e \in envios PROVE form'[e.modo].ong = form[e.modo].ong
      BY <1>6, EscolherForm DEF TiposInv, TypeOK, Envio
    <2> QED
      BY <1>6, <2>1 DEF EscolherImagem
  <1>7. ASSUME NEW m \in Modos, SalvarInvalido(m) \/ salvaImagemSemDados(m) PROVE TextoInv'
    <2>1. ASSUME NEW e \in envios PROVE form'[e.modo].ong = form[e.modo].ong
      BY <1>7, SalvarForm DEF TiposInv, TypeOK, Envio
    <2> QED
      BY <1>7, <2>1 DEF SalvarInvalido, salvaImagemSemDados
  <1>8. ASSUME NEW m \in Modos, salvaSemImagem(m) PROVE TextoInv'
    <2>1. doc' = form[m].ong /\ form[m].ong.texto \in Validos /\ mexeu' = mexeu
      BY <1>8 DEF salvaSemImagem, Criar, verificaCampos
    <2>2. ASSUME NEW e \in envios', e.vivo
          PROVE  e \in envios /\ form'[e.modo].ong = form[e.modo].ong
      <3>1. e \in envios /\ e.modo \in Modos /\ (m = "cadastro" => e.modo = "cadastro")
        BY <1>8, <2>2, SalvarEnvios DEF TiposInv, TypeOK, Envio
      <3> QED
        BY <1>8, <3>1, salvaSemImagemForm DEF Modos
    <2> QED
      BY <2>1, <2>2
  <1>9. ASSUME NEW m \in Modos, salvaComImagem(m) PROVE TextoInv'
    <2>1. ASSUME NEW e \in envios', e.vivo
          PROVE  mexeu \/ form'[e.modo].ong.texto \in Validos
      <3>1. CASE e \in envios
        <4>1. form'[e.modo].ong = form[e.modo].ong
          BY <1>9, <3>1, SalvarForm DEF TiposInv, TypeOK, Envio
        <4> QED
          BY <2>1, <3>1, <4>1
      <3>2. CASE e \notin envios
        <4>1. e.modo = m
          BY <1>9, <3>2 DEF salvaComImagem
        <4> QED
          BY <1>9, <4>1, SalvarForm DEF salvaComImagem, verificaCampos
      <3> QED
        BY <3>1, <3>2
    <2> QED
      BY <1>9, <2>1 DEF salvaComImagem
  <1>10. CASE Cancelar
    <2>1. ASSUME NEW e \in envios PROVE form'[e.modo].ong = form[e.modo].ong
      BY <1>10, CancelarForm DEF TiposInv, TypeOK, Envio, Modos
    <2> QED
      BY <1>10, <2>1 DEF Cancelar
  <1>11. ASSUME NEW e \in envios, GravarArquivo(e) PROVE TextoInv'
    <2>1. [e EXCEPT !.fase = "url"].vivo = e.vivo /\ [e EXCEPT !.fase = "url"].modo = e.modo
      BY DEF TiposInv, TypeOK, Envio
    <2> QED
      BY <1>11, <2>1 DEF GravarArquivo
  <1>12. ASSUME NEW e \in envios, ReceberUrl(e) \/ FalharEnvio(e) PROVE TextoInv'
    BY <1>12, TextoConcluir DEF ReceberUrl, FalharEnvio, TiposInv, TypeOK, Fotos
  <1>13. CASE UNCHANGED vars
    BY <1>13 DEF vars
  <1> QED
    BY <1>1, <1>2, <1>3, <1>4, <1>5, <1>6, <1>7, <1>8, <1>9, <1>10, <1>11, <1>12, <1>13
       DEF Next, Upload

LEMMA TextoInicio == Init => TextoInv
  <1> SUFFICES ASSUME Init PROVE InvalidoSoPorUpload
    BY DEF Init, TextoInv
  <1> QED
    BY DEF Init, InvalidoSoPorUpload

\* verificaCampos guards every profile that is stored, except for what the user
\* changes while the photo of a profile it accepted is being uploaded.
THEOREM TextoSempreConferido == Spec => []InvalidoSoPorUpload
  <1>1. TextoInv => InvalidoSoPorUpload
    BY DEF TextoInv
  <1> QED
    BY <1>1, TiposInicio, TiposPasso, TextoInicio, TextoPasso, PTL DEF Spec

----------------------------------------------------------------------------
(* The photos that have been stored *)

Guardadas == gravadas \cup {SemFoto}

\* Inductive: every copy of the profile, the file at the NGO's path, the
\* downloads and the uploads past putData only name photos that were stored.
FotoInv ==
    /\ FotoJaGravada
    /\ arquivo \in Guardadas
    /\ home # Ausente => home.foto \in Guardadas
    /\ \A m \in Modos : form[m] # Ausente => form[m].ong.foto \in Guardadas
    /\ baixando \subseteq gravadas
    /\ \A e \in envios : e.fase = "url" => e.imagem \in gravadas

LEMMA FotoInicio == Init => FotoInv
  <1> SUFFICES ASSUME Init PROVE FotoInv
    OBVIOUS
  <1>1. arquivo \in Guardadas /\ baixando = {} /\ envios = {}
    BY DEF Init, Guardadas
  <1>2. doc # Ausente => doc.foto = arquivo
    BY DEF Init
  <1>3. home # Ausente => home.foto = SemFoto
    BY DEF Init, PerfilBranco
  <1>4. ASSUME NEW m \in Modos, form[m] # Ausente PROVE form[m].ong.foto = SemFoto
    BY <1>4 DEF Init, FormCadastro, FormPerfil, PerfilBranco
  <1> QED
    BY <1>1, <1>2, <1>3, <1>4 DEF FotoInv, FotoJaGravada, Guardadas

LEMMA FotoCriar ==
    ASSUME TiposInv, FotoInv, NEW m \in Modos, NEW p \in Perfil, NEW c, NEW i,
           Criar(m, p, c, i), p.foto \in Guardadas, gravadas' = gravadas
    PROVE  /\ FotoJaGravada'
           /\ (home # Ausente => home.foto \in Guardadas)'
           /\ (baixando \subseteq gravadas)'
  <1>1. PerfilBranco.foto \in Guardadas
    BY DEF PerfilBranco, Guardadas
  <1> QED
    BY <1>1 DEF Criar, FotoInv, FotoJaGravada, Guardadas

LEMMA FotoConcluir ==
    ASSUME TiposInv, FotoInv, NEW e \in envios, NEW url \in Guardadas, url \in Fotos,
           ConcluirEnvio(e, url), UNCHANGED <<arquivo, gravadas>>
    PROVE  FotoInv'
  <1>1. CASE ~e.vivo
    BY <1>1 DEF ConcluirEnvio, FotoInv, FotoJaGravada, Guardadas, casa
  <1>2. CASE e.vivo
    <2> DEFINE p == [form[e.modo].ong EXCEPT !.foto = url]
               i == form[e.modo].selecionada
    <2>1. p \in Perfil /\ e.modo \in Modos /\ Criar(e.modo, p, TRUE, i)
          /\ (e.modo = "perfil" => form["perfil"] # Ausente)
      BY <1>2, ConcluirForm
    <2>2. p.foto = url
      BY <1>2, ConcluirForm DEF Form, Perfil
    <2>3. e.modo = "cadastro" => form'["cadastro"].ong = p
      BY <1>2, ConcluirForm
    <2> HIDE DEF p, i
    <2>4. ASSUME NEW m \in Modos, form'[m] # Ausente PROVE form'[m].ong.foto \in Guardadas
      <3>1. CASE m = "cadastro"
        <4>1. CASE e.modo = "cadastro"
          BY <2>2, <2>3, <3>1, <4>1
        <4>2. CASE e.modo # "cadastro"
          BY <1>2, <2>1, <2>4, <3>1, <4>2, ConcluirForm DEF FotoInv, Modos
        <4> QED
          BY <4>1, <4>2
      <3>2. CASE m = "perfil"
        <4>1. CASE e.modo = "perfil"
          <5>1. form'["perfil"] = FormPerfil(home, imagemHome)
            BY <1>2, <4>1, ConcluirForm
          <5>2. home # Ausente
            BY <2>1, <4>1 DEF TiposInv
          <5> QED
            BY <3>2, <5>1, <5>2 DEF FotoInv, FormPerfil
        <4>2. CASE e.modo # "perfil"
          <5>1. form'["perfil"] = FormPerfil(PerfilBranco, form["cadastro"].selecionada)
            BY <1>2, <4>2, ConcluirForm
          <5> QED
            BY <3>2, <5>1 DEF FormPerfil, PerfilBranco, Guardadas
        <4> QED
          BY <4>1, <4>2
      <3> QED
        BY <3>1, <3>2 DEF Modos
    <2>5. \A d \in envios' : d.fase = "url" => d.imagem \in gravadas
      BY ConcluirEnvios DEF FotoInv
    <2> QED
      BY <2>1, <2>2, <2>4, <2>5, FotoCriar DEF FotoInv, Guardadas
  <1> QED
    BY <1>1, <1>2

LEMMA FotoPasso == TiposInv /\ FotoInv /\ [Next]_vars => FotoInv'
  <1> SUFFICES ASSUME TiposInv, FotoInv, [Next]_vars PROVE FotoInv'
    OBVIOUS
  <1> USE DEF FotoInv, FotoJaGravada, Guardadas
  <1>1. ASSUME \/ Redesenhar
               \/ \E b \in Buscas : BuscarOng(b) \/ FalharOng(b)
               \/ \E i \in Imagens : ReceberImagem(i)
        PROVE  FotoInv'
    <2>1. /\ UNCHANGED <<doc, arquivo, gravadas>>
          /\ form'["cadastro"] = form["cadastro"]
      BY <1>1, FormNovoDoPerfil
    <2>2. ASSUME home' \in Perfil \cap {home, doc},
                 form'["perfil"] = FormPerfil(home', imagemHome'),
                 baixando' \subseteq baixando \cup
                                 (IF doc = Ausente THEN {} ELSE {doc.foto} \ {SemFoto}),
                 \A e \in envios' :
                       \E d \in envios : e.imagem = d.imagem /\ e.fase = d.fase
          PROVE  FotoInv'
      <3>1. home'.foto \in Guardadas
        BY <2>2, OngFormAssumption
      <3>2. form'["perfil"].ong = home'
        BY <2>2 DEF FormPerfil
      <3>3. baixando' \subseteq gravadas
        BY <2>2
      <3>4. \A m \in Modos : form'[m] # Ausente => form'[m].ong.foto \in Guardadas
        BY <2>1, <3>1, <3>2 DEF Modos
      <3> QED
        BY <2>1, <2>2, <3>1, <3>3, <3>4
    <2>3. ASSUME form'["perfil"] = form["perfil"], UNCHANGED <<home, envios, baixando>>
          PROVE  FotoInv'
      BY <2>1, <2>3 DEF Modos
    <2> QED
      BY <1>1, <2>2, <2>3, FormNovoDoPerfil
  <1>2. CASE AbrirPerfil
    BY <1>2 DEF AbrirPerfil, casa
  <1>3. CASE updateDate
    <2>1. doc \in Perfil /\ doc # Ausente
      BY <1>3 DEF updateDate, TiposInv, TypeOK
    <2>2. doc'.foto = doc.foto
      BY <1>3, <2>1 DEF updateDate, Perfil
    <2> QED
      BY <1>3, <2>1, <2>2 DEF updateDate, casa
  <1>4. ASSUME NEW i \in Imagens, FalharDownload(i) PROVE FotoInv'
    BY <1>4 DEF FalharDownload
  <1>5. ASSUME NEW m \in Modos, NEW t \in Textos, Editar(m, t) PROVE FotoInv'
    <2>1. \A k \in Modos : form'[k] # Ausente => form'[k].ong.foto \in Guardadas
      BY <1>5, EditarForm, OngFormAssumption
    <2> QED
      BY <1>5, <2>1 DEF Editar, casa
  <1>6. ASSUME NEW m \in Modos, NEW i \in Imagens, EscolherImagem(m, i) PROVE FotoInv'
    <2>1. \A k \in Modos : form'[k] # Ausente => form'[k].ong.foto \in Guardadas
      BY <1>6, EscolherForm, OngFormAssumption
    <2> QED
      BY <1>6, <2>1 DEF EscolherImagem, casa
  <1>7. ASSUME NEW m \in Modos, SalvarInvalido(m) \/ salvaImagemSemDados(m) PROVE FotoInv'
    <2>1. \A k \in Modos : form'[k] # Ausente => form'[k].ong.foto \in Guardadas
      BY <1>7, SalvarForm, OngFormAssumption
    <2> QED
      BY <1>7, <2>1 DEF SalvarInvalido, salvaImagemSemDados, casa
  <1>8. ASSUME NEW m \in Modos, salvaSemImagem(m) PROVE FotoInv'
    <2>1. form[m] \in Form /\ form[m] # Ausente
      BY <1>8, salvaSemImagemForm, OngFormAssumption
    <2>2. form[m].ong \in Perfil /\ form[m].ong.foto \in Guardadas
      BY <2>1 DEF Form
    <2>3. Criar(m, form[m].ong, FALSE, form[m].baixada)
      BY <1>8 DEF salvaSemImagem
    <2>4. \A d \in envios' : d.fase = "url" => d.imagem \in gravadas
      BY <1>8, SalvarEnvios
    <2>5. ASSUME NEW k \in Modos, form'[k] # Ausente PROVE form'[k].ong.foto \in Guardadas
      <3>1. CASE k = m
        BY <1>8, <2>2, <3>1, salvaSemImagemForm
      <3>2. CASE k # m /\ m = "perfil"
        BY <1>8, <2>5, <3>2, salvaSemImagemForm DEF Modos
      <3>3. CASE k # m /\ m = "cadastro"
        BY <1>8, <3>3, salvaSemImagemForm DEF Modos, FormPerfil, PerfilBranco
      <3> QED
        BY <3>1, <3>2, <3>3 DEF Modos
    <2> QED
      BY <1>8, <2>2, <2>3, <2>4, <2>5, FotoCriar DEF salvaSemImagem
  <1>9. ASSUME NEW m \in Modos, salvaComImagem(m) PROVE FotoInv'
    <2>1. \A k \in Modos : form'[k] # Ausente => form'[k].ong.foto \in Guardadas
      BY <1>9, SalvarForm, OngFormAssumption
    <2>2. \A e \in envios' : e.fase = "url" => e.imagem \in gravadas
      BY <1>9 DEF salvaComImagem
    <2> QED
      BY <1>9, <2>1, <2>2 DEF salvaComImagem, casa
  <1>10. CASE Cancelar
    <2>1. \A k \in Modos : form'[k] # Ausente => form'[k].ong.foto \in Guardadas
      BY <1>10, CancelarForm, OngFormAssumption DEF Modos
    <2> QED
      BY <1>10, <2>1 DEF Cancelar, casa
  <1>11. ASSUME NEW e \in envios, GravarArquivo(e) PROVE FotoInv'
    <2>1. [e EXCEPT !.fase = "url"].imagem = e.imagem
      BY DEF TiposInv, TypeOK, Envio
    <2>2. \A d \in envios' : d.fase = "url" => d.imagem \in gravadas'
      BY <1>11, <2>1 DEF GravarArquivo
    <2> QED
      BY <1>11, <2>2 DEF GravarArquivo, casa
  <1>12. ASSUME NEW e \in envios, ReceberUrl(e) PROVE FotoInv'
    BY <1>12, FotoConcluir DEF ReceberUrl, TiposInv, TypeOK
  <1>13. ASSUME NEW e \in envios, FalharEnvio(e) PROVE FotoInv'
    BY <1>13, FotoConcluir DEF FalharEnvio, Fotos
  <1>14. CASE UNCHANGED vars
    BY <1>14 DEF vars, casa
  <1> QED
    BY <1>1, <1>2, <1>3, <1>4, <1>5, <1>6, <1>7, <1>8, <1>9, <1>10, <1>11, <1>12, <1>13,
       <1>14 DEF Next, Upload

\* The stored profile never refers to a photo that putData has not stored,
\* through failures, forms rebuilt during an upload and uploads that end out of
\* order.
THEOREM FotoSempreGravada == Spec => []FotoJaGravada
  <1>1. FotoInv => FotoJaGravada
    BY DEF FotoInv
  <1> QED
    BY <1>1, TiposInicio, TiposPasso, FotoInicio, FotoPasso, PTL DEF Spec

----------------------------------------------------------------------------
(* The photo on screen *)

\* Inductive: a living upload is of the photo its form still has chosen, unless
\* the form dropped it or the user chose another one.
ImagemInv ==
    /\ ImagemMostradaGravada
    /\ \A e \in envios :
          e.vivo => mexeu \/ form[e.modo].selecionada \in {e.imagem, SemFoto}

LEMMA ImagemInicio == Init => ImagemInv
  <1> SUFFICES ASSUME Init PROVE ImagemInv
    OBVIOUS
  <1>1. ASSUME NEW m \in Modos, form[m] # Ausente PROVE form[m].baixada = SemFoto
    BY <1>1 DEF Init, FormCadastro, FormPerfil
  <1> QED
    BY <1>1 DEF Init, ImagemInv, ImagemMostradaGravada

LEMMA ImagemConcluir ==
    ASSUME TiposInv, FotoInv, ImagemInv, NEW e \in envios, ReceberUrl(e)
    PROVE  ImagemInv'
  <1>1. /\ ConcluirEnvio(e, arquivo) /\ arquivo \in Fotos
        /\ UNCHANGED <<falhas, mexeu, gravadas>> /\ e.fase = "url"
    BY DEF ReceberUrl, TiposInv, TypeOK
  <1>2. CASE ~e.vivo
    BY <1>1, <1>2 DEF ConcluirEnvio, ImagemInv, ImagemMostradaGravada, casa
  <1>3. CASE e.vivo
    <2> DEFINE p == [form[e.modo].ong EXCEPT !.foto = arquivo]
               i == form[e.modo].selecionada
    <2>1. /\ Criar(e.modo, p, TRUE, i) /\ e.modo \in Modos /\ form[e.modo] # Ausente
          /\ form'["perfil"] = IF e.modo = "perfil" THEN FormPerfil(home, imagemHome)
                               ELSE FormPerfil(PerfilBranco, form["cadastro"].selecionada)
          /\ e.modo = "perfil" => form'["cadastro"] = form["cadastro"]
          /\ e.modo = "cadastro" => /\ form'["cadastro"].baixada = i
                                    /\ form'["cadastro"].selecionada = SemFoto
      BY <1>1, <1>3, ConcluirForm
    <2>2. ~mexeu => i \in Guardadas
      BY <1>1, <1>3 DEF ImagemInv, FotoInv, Guardadas
    <2>3. e.modo = "cadastro" => form["cadastro"].selecionada = i
      OBVIOUS
    <2> HIDE DEF p, i
    <2>4. ~mexeu /\ falhas = 0 => imagemHome' \in Guardadas
      BY <2>1, <2>2 DEF Criar, ImagemInv, ImagemMostradaGravada, Guardadas, Modos
    <2>5. ASSUME ~mexeu, falhas = 0, NEW m \in Modos, form'[m] # Ausente
          PROVE  form'[m].baixada \in Guardadas
      BY <2>1, <2>2, <2>3, <2>5
         DEF ImagemInv, ImagemMostradaGravada, Guardadas, FormPerfil, Modos
    <2>6. \A d \in envios' : d.vivo => d \in envios /\ d.modo = "cadastro"
      BY <1>1, <1>3, ConcluirEnvios
    <2>7. \A d \in envios' :
             d.vivo => mexeu \/ form'[d.modo].selecionada \in {d.imagem, SemFoto}
      BY <2>1, <2>6 DEF ImagemInv, Modos
    <2> QED
      BY <1>1, <2>4, <2>5, <2>7 DEF ImagemInv, ImagemMostradaGravada, Guardadas
  <1> QED
    BY <1>2, <1>3

\* A failed upload leaves nothing to show of the photo on screen.
LEMMA ImagemFalhar ==
    ASSUME TiposInv, ImagemInv, NEW e \in envios, FalharEnvio(e)
    PROVE  ImagemInv'
  <1>1. ConcluirEnvio(e, SemFoto) /\ SemFoto \in Fotos /\ mexeu' = mexeu
    BY DEF FalharEnvio, Fotos
  <1>2. falhas' # 0
    BY DEF FalharEnvio, Falhar, TiposInv, TypeOK
  <1>3. CASE ~e.vivo
    BY <1>1, <1>2, <1>3 DEF ConcluirEnvio, ImagemInv, ImagemMostradaGravada
  <1>4. CASE e.vivo
    <2>1. \A d \in envios' : d.vivo => d \in envios /\ d.modo = "cadastro"
      BY <1>1, <1>4, ConcluirEnvios
    <2>2. /\ e.modo \in Modos
          /\ e.modo = "perfil" => form'["cadastro"] = form["cadastro"]
          /\ e.modo = "cadastro" => form'["cadastro"].selecionada = SemFoto
      BY <1>1, <1>4, ConcluirForm
    <2> QED
      BY <1>1, <1>2, <2>1, <2>2 DEF ImagemInv, ImagemMostradaGravada, Modos
  <1> QED
    BY <1>3, <1>4

LEMMA ImagemPasso == TiposInv /\ FotoInv /\ ImagemInv /\ [Next]_vars => ImagemInv'
  <1> SUFFICES ASSUME TiposInv, FotoInv, ImagemInv, [Next]_vars PROVE ImagemInv'
    OBVIOUS
  <1> USE DEF ImagemInv, ImagemMostradaGravada
  <1>0. \A e \in envios : e.modo \in Modos
    BY DEF TiposInv, TypeOK, Envio
  <1>1. ASSUME \/ Redesenhar
               \/ \E b \in Buscas : BuscarOng(b) \/ FalharOng(b)
               \/ \E i \in Imagens : ReceberImagem(i)
        PROVE  ImagemInv'
    <2>1. /\ UNCHANGED <<mexeu, gravadas>>
          /\ form'["cadastro"] = form["cadastro"]
      BY <1>1, FormNovoDoPerfil
    <2>2. falhas' = 0 => falhas = 0
      BY <1>1, FormNovoDoPerfil DEF TiposInv, TypeOK
    <2>3. ASSUME imagemHome' \in {imagemHome} \cup baixando,
                 form'["perfil"] = FormPerfil(home', imagemHome'),
                 \A e \in envios' : e.vivo => e \in envios /\ e.modo = "cadastro"
          PROVE  ImagemInv'
      <3>1. ~mexeu /\ falhas = 0 => imagemHome' \in Guardadas
        BY <2>3 DEF FotoInv, Guardadas
      <3>2. form'["perfil"].baixada = imagemHome'
        BY <2>3 DEF FormPerfil
      <3> QED
        BY <2>1, <2>2, <2>3, <3>1, <3>2 DEF Modos, Guardadas
    <2>4. ASSUME form'["perfil"] = form["perfil"], UNCHANGED <<envios, imagemHome>>
          PROVE  ImagemInv'
      BY <1>0, <2>1, <2>2, <2>4 DEF Modos
    <2> QED
      BY <1>1, <2>3, <2>4, FormNovoDoPerfil
  <1>2. CASE AbrirPerfil \/ updateDate
    BY <1>2 DEF AbrirPerfil, updateDate, casa
  <1>3. ASSUME NEW i \in Imagens, FalharDownload(i) PROVE ImagemInv'
    <2>1. falhas' # 0
      BY <1>3 DEF FalharDownload, Falhar, TiposInv, TypeOK
    <2> QED
      BY <1>3, <2>1 DEF FalharDownload
  <1>4. ASSUME NEW m \in Modos, NEW t \in Textos, Editar(m, t) PROVE ImagemInv'
    <2>1. \A k \in Modos : form'[k].baixada = form[k].baixada
                          /\ form'[k].selecionada = form[k].selecionada
      BY <1>4, EditarForm
    <2>2. \A k \in Modos : form'[k] # Ausente => form[k] # Ausente
      BY <1>4, EditarForm, OngFormAssumption
    <2>3. mexeu => mexeu'
      BY <1>4 DEF Editar
    <2>4. UNCHANGED <<envios, imagemHome, falhas, gravadas>>
      BY <1>4 DEF Editar, casa
    <2> QED
      BY <1>0, <2>1, <2>2, <2>3, <2>4
  <1>5. ASSUME NEW m \in Modos, NEW i \in Imagens, EscolherImagem(m, i) PROVE ImagemInv'
    <2>1. \A k \in Modos : form'[k].baixada = form[k].baixada
                          /\ (form'[k] # Ausente => form[k] # Ausente)
      BY <1>5, EscolherForm, OngFormAssumption
    <2>2. mexeu => mexeu'
      BY <1>5 DEF EscolherImagem
    <2>3. UNCHANGED <<envios, imagemHome, falhas, gravadas>>
      BY <1>5 DEF EscolherImagem, casa
    <2>4. ASSUME NEW e \in envios, e.vivo, ~mexeu' PROVE form'[e.modo] = form[e.modo]
      BY <1>0, <1>5, <2>4, EscolherForm DEF EscolherImagem, EmEnvio
    <2> QED
      BY <2>1, <2>2, <2>3, <2>4
  <1>6. ASSUME NEW m \in Modos, SalvarInvalido(m) \/ salvaImagemSemDados(m) PROVE ImagemInv'
    <2>1. \A k \in Modos : form'[k].baixada = form[k].baixada
                          /\ form'[k].selecionada = form[k].selecionada
                          /\ (form'[k] # Ausente => form[k] # Ausente)
      BY <1>6, SalvarForm, OngFormAssumption
    <2> QED
      BY <1>0, <1>6, <2>1 DEF SalvarInvalido, salvaImagemSemDados, casa
  <1>7. ASSUME NEW m \in Modos, salvaSemImagem(m) PROVE ImagemInv'
    <2>1. UNCHANGED <<mexeu, falhas, gravadas>> /\ Criar(m, form[m].ong, FALSE, form[m].baixada)
      BY <1>7 DEF salvaSemImagem
    <2>2. form[m] # Ausente
      BY <1>7, salvaSemImagemForm, OngFormAssumption
    <2>3. ~mexeu /\ falhas = 0 => imagemHome' \in Guardadas
      BY <2>1, <2>2 DEF Criar, Guardadas
    <2>4. ASSUME ~mexeu, falhas = 0, NEW k \in Modos, form'[k] # Ausente
          PROVE  form'[k].baixada \in Guardadas
      <3>1. CASE k = m
        BY <1>7, <2>2, <2>4, <3>1, salvaSemImagemForm DEF Guardadas
      <3>2. CASE k # m /\ m = "perfil"
        BY <1>7, <2>4, <3>2, salvaSemImagemForm DEF Modos, Guardadas
      <3>3. CASE k # m /\ m = "cadastro"
        BY <1>7, <2>2, <2>4, <3>3, salvaSemImagemForm DEF Modos, FormPerfil, Guardadas
      <3> QED
        BY <3>1, <3>2, <3>3 DEF Modos
    <2>5. ASSUME NEW e \in envios', e.vivo
          PROVE  mexeu \/ form'[e.modo].selecionada \in {e.imagem, SemFoto}
      <3>1. e \in envios /\ e.modo \in Modos /\ (m = "cadastro" => e.modo = "cadastro")
        BY <1>0, <1>7, <2>5, SalvarEnvios
      <3>2. form'[e.modo].selecionada = form[e.modo].selecionada
        BY <1>7, <3>1, salvaSemImagemForm DEF Modos
      <3> QED
        BY <2>5, <3>1, <3>2
    <2> QED
      BY <2>1, <2>3, <2>4, <2>5 DEF Guardadas
  <1>8. ASSUME NEW m \in Modos, salvaComImagem(m) PROVE ImagemInv'
    <2>1. \A k \in Modos : form'[k].baixada = form[k].baixada
                          /\ form'[k].selecionada = form[k].selecionada
                          /\ (form'[k] # Ausente => form[k] # Ausente)
      BY <1>8, SalvarForm, OngFormAssumption
    <2>2. ASSUME NEW e \in envios', e \notin envios
          PROVE  e.modo = m /\ e.imagem = form[m].selecionada
      BY <1>8, <2>2 DEF salvaComImagem
    <2>3. UNCHANGED <<mexeu, falhas, gravadas, imagemHome>>
      BY <1>8 DEF salvaComImagem, casa
    <2> QED
      BY <1>0, <2>1, <2>2, <2>3
  <1>9. CASE Cancelar
    <2>1. \A k \in Modos : form'[k].baixada = form[k].baixada
                          /\ form'[k].selecionada \in {form[k].selecionada, SemFoto}
                          /\ (form'[k] # Ausente => form[k] # Ausente)
      BY <1>9, CancelarForm, OngFormAssumption DEF Modos
    <2> QED
      BY <1>0, <1>9, <2>1 DEF Cancelar, casa
  <1>10. ASSUME NEW e \in envios, GravarArquivo(e) PROVE ImagemInv'
    <2>1. /\ [e EXCEPT !.fase = "url"].vivo = e.vivo /\ [e EXCEPT !.fase = "url"].modo = e.modo
          /\ [e EXCEPT !.fase = "url"].imagem = e.imagem
      BY DEF TiposInv, TypeOK, Envio
    <2> QED
      BY <1>10, <2>1 DEF GravarArquivo, casa
  <1>11. ASSUME NEW e \in envios, ReceberUrl(e) \/ FalharEnvio(e) PROVE ImagemInv'
    BY <1>11, ImagemConcluir, ImagemFalhar
  <1>12. CASE UNCHANGED vars
    BY <1>12 DEF vars, casa
  <1> QED
    BY <1>1, <1>2, <1>3, <1>4, <1>5, <1>6, <1>7, <1>8, <1>9, <1>10, <1>11, <1>12
       DEF Next, Upload

\* The photo on the home screen, and the one a form compares a new choice with,
\* has been stored, unless an upload or a read failed or the user chose another
\* photo during an upload.
THEOREM ImagemSempreGravada == Spec => []ImagemMostradaGravada
  <1>1. ImagemInv => ImagemMostradaGravada
    BY DEF ImagemInv
  <1> QED
    BY <1>1, TiposInicio, TiposPasso, FotoInicio, FotoPasso, ImagemInicio, ImagemPasso, PTL
       DEF Spec

----------------------------------------------------------------------------
(* The date of the last update *)

\* Inductive: no copy of the profile is ahead of the clock, and the form behind
\* "Ver perfil" has the date of the copy the home screen holds.
DataInv ==
    /\ doc # Ausente => doc.data <= hora
    /\ home # Ausente => home.data <= hora /\ form["perfil"].ong.data = home.data
    /\ form["cadastro"] # Ausente => form["cadastro"].ong.data <= hora

LEMMA DataInicio == Init => DataInv
  <1> SUFFICES ASSUME Init PROVE DataInv
    OBVIOUS
  <1>1. hora = 1 /\ PerfilBranco.data <= hora
    BY DEF Init, PerfilBranco
  <1>2. doc # Ausente => doc.data = 0
    BY DEF Init
  <1>3. home # Ausente => home = PerfilBranco /\ form["perfil"].ong = home
    BY DEF Init, FormPerfil, Modos
  <1>4. form["cadastro"] # Ausente => form["cadastro"].ong = PerfilBranco
    BY DEF Init, FormCadastro, Modos
  <1> QED
    BY <1>1, <1>2, <1>3, <1>4 DEF DataInv

\* A save by the form m of a profile with the date of its draft.
LEMMA DataCriar ==
    ASSUME TiposInv, DataInv, NEW m \in Modos, form[m] # Ausente, NEW p \in Perfil,
           p.data = form[m].ong.data, NEW c, NEW i, Criar(m, p, c, i), hora' = hora,
           form["cadastro"] # Ausente =>
               form'["cadastro"].ong.data = form["cadastro"].ong.data,
           form'["cadastro"] # Ausente => form["cadastro"] # Ausente,
           form'["perfil"].ong.data = home'.data
    PROVE  DataInv'
  <1>1. PerfilBranco.data = hora /\ hora \in Nat
    BY DEF PerfilBranco, TiposInv, TypeOK
  <1>2. doc' = p /\ p.data <= hora
    BY DEF Criar, DataInv, Modos, TiposInv
  <1>3. home' # Ausente => home'.data <= hora
    BY <1>1 DEF Criar, DataInv
  <1> QED
    BY <1>2, <1>3 DEF DataInv

LEMMA DataConcluir ==
    ASSUME TiposInv, DataInv, NEW e \in envios, NEW url \in Fotos, ConcluirEnvio(e, url),
           hora' = hora
    PROVE  DataInv'
  <1>1. CASE ~e.vivo
    BY <1>1 DEF ConcluirEnvio, DataInv, casa
  <1>2. CASE e.vivo
    <2> DEFINE p == [form[e.modo].ong EXCEPT !.foto = url]
               i == form[e.modo].selecionada
    <2>1. /\ e.modo \in Modos /\ form[e.modo] # Ausente /\ form[e.modo] \in Form
          /\ p \in Perfil /\ Criar(e.modo, p, TRUE, i)
          /\ form'["perfil"] = IF e.modo = "perfil" THEN FormPerfil(home, imagemHome)
                               ELSE FormPerfil(PerfilBranco, form["cadastro"].selecionada)
          /\ e.modo = "perfil" => form'["cadastro"] = form["cadastro"]
          /\ e.modo = "cadastro" => form'["cadastro"].ong = p
      BY <1>2, ConcluirForm
    <2>2. p.data = form[e.modo].ong.data
      BY <2>1 DEF Form, Perfil
    <2>3. e.modo = "cadastro" => p.data = form["cadastro"].ong.data
      BY <2>2
    <2> HIDE DEF p, i
    <2>4. form'["perfil"].ong = home'
      BY <2>1 DEF Criar, FormPerfil, Modos
    <2>5. /\ form'["cadastro"] # Ausente => form["cadastro"] # Ausente
          /\ form["cadastro"] # Ausente =>
                form'["cadastro"].ong.data = form["cadastro"].ong.data
      BY <2>1, <2>3 DEF Modos
    <2> QED
      BY <2>1, <2>2, <2>4, <2>5, DataCriar
  <1> QED
    BY <1>1, <1>2

\* A step that changes no date.
LEMMA DataQuieta ==
    ASSUME DataInv, UNCHANGED <<doc, hora, home>>,
           \A k \in Modos : /\ form'[k].ong.data = form[k].ong.data
                            /\ form'[k] # Ausente => form[k] # Ausente
    PROVE  DataInv'
  <1>1. /\ form'["perfil"].ong.data = form["perfil"].ong.data
        /\ form'["cadastro"].ong.data = form["cadastro"].ong.data
        /\ form'["cadastro"] # Ausente => form["cadastro"] # Ausente
    <2>1. "perfil" \in Modos /\ "cadastro" \in Modos
      BY DEF Modos
    <2> QED
      BY <2>1
  <1> QED
    BY <1>1 DEF DataInv

LEMMA DataPasso == TiposInv /\ DataInv /\ [Next]_vars => DataInv'
  <1> SUFFICES ASSUME TiposInv, DataInv, [Next]_vars PROVE DataInv'
    OBVIOUS
  <1>0. hora \in Nat /\ (home # Ausente => home \in Perfil) /\ (doc # Ausente => doc \in Perfil)
    BY DEF TiposInv, TypeOK
  <1>1. ASSUME \/ Redesenhar
               \/ \E b \in Buscas : BuscarOng(b) \/ FalharOng(b)
               \/ \E i \in Imagens : ReceberImagem(i)
        PROVE  DataInv'
    <2>1. UNCHANGED <<doc, hora>> /\ form'["cadastro"] = form["cadastro"]
      BY <1>1, FormNovoDoPerfil
    <2>2. \/ form'["perfil"] = form["perfil"] /\ home' = home
          \/ /\ home' \in Perfil \cap {home, doc}
             /\ form'["perfil"] = FormPerfil(home', imagemHome')
      BY <1>1, FormNovoDoPerfil
    <2> QED
      BY <2>1, <2>2, OngFormAssumption DEF DataInv, FormPerfil
  <1>2. CASE AbrirPerfil
    BY <1>2 DEF AbrirPerfil, casa, DataInv
  <1>3. CASE updateDate
    <2>1. doc'.data = hora + 1 /\ hora' = hora + 1 /\ UNCHANGED <<home, form>>
      BY <1>0, <1>3 DEF updateDate, casa, Perfil
    <2>2. ASSUME form["cadastro"] # Ausente PROVE form["cadastro"].ong.data \in Nat
      BY <2>2 DEF TiposInv, TypeOK, Form, Perfil, Modos
    <2>3. home # Ausente => home.data \in Nat
      BY <1>0 DEF Perfil
    <2> QED
      BY <1>0, <2>1, <2>2, <2>3 DEF DataInv
  <1>4. ASSUME NEW i \in Imagens, FalharDownload(i) PROVE DataInv'
    BY <1>4 DEF FalharDownload, DataInv
  <1>6. ASSUME NEW m \in Modos, NEW t \in Textos, Editar(m, t) PROVE DataInv'
    <2>1. \A k \in Modos : /\ form'[k].ong.data = form[k].ong.data
                           /\ form'[k] # Ausente => form[k] # Ausente
      BY <1>6, EditarForm, OngFormAssumption
    <2> QED
      BY <1>6, <2>1, DataQuieta DEF Editar, casa
  <1>7. ASSUME NEW m \in Modos, NEW i \in Imagens, EscolherImagem(m, i) PROVE DataInv'
    <2>1. \A k \in Modos : /\ form'[k].ong.data = form[k].ong.data
                           /\ form'[k] # Ausente => form[k] # Ausente
      BY <1>7, EscolherForm, OngFormAssumption
    <2> QED
      BY <1>7, <2>1, DataQuieta DEF EscolherImagem, casa
  <1>8. ASSUME NEW m \in Modos,
               SalvarInvalido(m) \/ salvaComImagem(m) \/ salvaImagemSemDados(m)
        PROVE  DataInv'
    <2>1. \A k \in Modos : /\ form'[k].ong.data = form[k].ong.data
                           /\ form'[k] # Ausente => form[k] # Ausente
      BY <1>8, SalvarForm, OngFormAssumption
    <2> QED
      BY <1>8, <2>1, DataQuieta DEF SalvarInvalido, salvaImagemSemDados, salvaComImagem, casa
  <1>9. ASSUME NEW m \in Modos, salvaSemImagem(m) PROVE DataInv'
    <2>1. /\ form[m] # Ausente /\ form[m].ong \in Perfil
          /\ Criar(m, form[m].ong, FALSE, form[m].baixada) /\ hora' = hora
      BY <1>9, salvaSemImagemForm, OngFormAssumption DEF salvaSemImagem, Form
    <2>2. CASE m = "cadastro"
      <3>1. form'["perfil"].ong = home' /\ form'["cadastro"].ong = form["cadastro"].ong
        BY <1>9, <2>1, <2>2, salvaSemImagemForm DEF Criar, FormPerfil
      <3> QED
        BY <2>1, <2>2, <3>1, DataCriar
    <2>3. CASE m = "perfil"
      <3>1. home' = home /\ home # Ausente
        BY <2>1, <2>3 DEF Criar, TiposInv
      <3>2. form'["perfil"].ong = form["perfil"].ong /\ form'["cadastro"] = form["cadastro"]
        BY <1>9, <2>3, salvaSemImagemForm
      <3>3. form'["perfil"].ong.data = home'.data
        BY <3>1, <3>2 DEF DataInv
      <3> QED
        BY <2>1, <3>2, <3>3, DataCriar
    <2> QED
      BY <2>2, <2>3 DEF Modos
  <1>10. CASE Cancelar
    <2>1. \A k \in Modos : /\ form'[k].ong.data = form[k].ong.data
                           /\ form'[k] # Ausente => form[k] # Ausente
      BY <1>10, CancelarForm, OngFormAssumption DEF Modos
    <2> QED
      BY <1>10, <2>1, DataQuieta DEF Cancelar, casa
  <1>11. ASSUME NEW e \in envios, GravarArquivo(e) PROVE DataInv'
    BY <1>11 DEF GravarArquivo, casa, DataInv
  <1>12. ASSUME NEW e \in envios, ReceberUrl(e) \/ FalharEnvio(e) PROVE DataInv'
    <2>1. arquivo \in Fotos /\ SemFoto \in Fotos
      BY DEF TiposInv, TypeOK, Fotos
    <2> QED
      BY <1>12, <2>1, DataConcluir DEF ReceberUrl, FalharEnvio
  <1>13. CASE UNCHANGED vars
    BY <1>13 DEF vars, casa, DataInv
  <1> QED
    BY <1>1, <1>2, <1>3, <1>4, <1>6, <1>7, <1>8, <1>9, <1>10, <1>11, <1>12, <1>13
       DEF Next, Upload

\* Only a save whose copy is not home's present one can take the date back.
LEMMA DataVolta ==
    ASSUME TiposInv, DataInv, Next, doc # Ausente, doc'.data < doc.data,
           home.data = doc.data
    PROVE  EmEnvio("cadastro")
  <1>0. doc \in Perfil /\ doc.data \in Nat /\ hora \in Nat /\ home # Ausente
    BY DEF TiposInv, TypeOK, Perfil
  <1>1. doc'.data # doc.data /\ doc' # doc
    BY <1>0
  <1>2. ASSUME updateDate PROVE FALSE
    <2>1. doc'.data = hora + 1
      BY <1>0, <1>2 DEF updateDate, Perfil
    <2> QED
      BY <1>0, <2>1 DEF DataInv
  <1>3. ASSUME NEW m \in Modos, salvaSemImagem(m) PROVE FALSE
    <2>1. m = "perfil"
      BY <1>0, <1>3 DEF salvaSemImagem, PodeSalvar, TiposInv, TypeOK, Modos
    <2>2. doc' = form["perfil"].ong
      BY <1>3, <2>1 DEF salvaSemImagem, Criar
    <2> QED
      BY <1>0, <1>1, <2>2 DEF DataInv
  <1>4. ASSUME NEW e \in envios, NEW url \in Fotos, ConcluirEnvio(e, url)
        PROVE  EmEnvio("cadastro")
    <2>1. e.vivo
      BY <1>1, <1>4 DEF ConcluirEnvio
    <2>2. doc' = [form[e.modo].ong EXCEPT !.foto = url]
      BY <1>4, <2>1 DEF ConcluirEnvio, Criar
    <2>3. e.modo \in Modos /\ form[e.modo] \in Form
      BY <1>4, <2>1, ConcluirForm
    <2>4. doc'.data = form[e.modo].ong.data
      BY <2>2, <2>3 DEF Form, Perfil
    <2>5. e.modo # "perfil"
      BY <1>0, <1>1, <2>4 DEF DataInv
    <2> QED
      BY <2>1, <2>3, <2>5 DEF EmEnvio, Modos
  <1>5. ASSUME NEW e \in envios, ReceberUrl(e) \/ FalharEnvio(e)
        PROVE  EmEnvio("cadastro")
    BY <1>4, <1>5 DEF ReceberUrl, FalharEnvio, TiposInv, TypeOK, Fotos
  <1>6. ASSUME \/ Redesenhar
               \/ \E b \in Buscas : BuscarOng(b) \/ FalharOng(b)
               \/ \E i \in Imagens : ReceberImagem(i)
        PROVE  FALSE
    BY <1>1, <1>6, FormNovoDoPerfil
  <1> QED
    BY <1>1, <1>2, <1>3, <1>5, <1>6
       DEF Next, Upload, AbrirPerfil, FalharDownload, Editar, EscolherImagem, SalvarInvalido,
           salvaImagemSemDados, salvaComImagem, Cancelar, GravarArquivo

\* The date of the last update goes back only when the home screen's copy is
\* not the document's, or by an upload of the sign-up form: whatever is drawn,
\* read or uploaded meanwhile, a form of the home screen never keeps an older
\* copy than home's.
THEOREM DataSempreDaHome == Spec => DataSoVoltaSeHomeVelha
  <1>1. TiposInv /\ DataInv /\ [Next]_vars
           => [doc # Ausente /\ doc'.data < doc.data
                 => home.data # doc.data \/ EmEnvio("cadastro")]_vars
    <2>1. ASSUME TiposInv, DataInv, Next, doc # Ausente, doc'.data < doc.data
          PROVE  home.data # doc.data \/ EmEnvio("cadastro")
      BY <2>1, DataVolta
    <2> QED
      BY <2>1
  <1> QED
    BY <1>1, TiposInicio, TiposPasso, DataInicio, DataPasso, PTL
       DEF Spec, DataSoVoltaSeHomeVelha
=============================================================================
