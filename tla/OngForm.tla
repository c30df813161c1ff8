------------------------------ MODULE OngForm ------------------------------
(***************************************************************************)
(* The profile form of an NGO (OngFormView, OngFormViewModel), the upload  *)
(* of its photo (ImageStorageService) and the document it overwrites       *)
(* (OngService.create), beside the other writer of that document: the      *)
(* stock, which stamps its date.                                           *)
(*                                                                         *)
(* There are two forms: the one of the sign-up, which stays under the home *)
(* screen once it has opened it, and the one behind "Ver perfil", whose    *)
(* view model the body of the home screen builds: each time the home       *)
(* screen publishes a change the body runs again and the form, on screen   *)
(* or not, gets a new view model made from the profile home holds.         *)
(*                                                                         *)
(* A form writes the whole profile back and, when a photo was chosen, only *)
(* does so from the completion of the upload, as the form is by then.      *)
(***************************************************************************)
EXTENDS Integers

CONSTANTS
    Validos,      \* contents of the text fields that verificaCampos accepts
    Invalidos,    \* contents it refuses
    Branco,       \* the contents of an empty form
    Imagens,      \* photos the user may choose
    SemFoto,      \* no photo: foto nil or "", selectedImage nil
    ComCadastro,  \* the sign-up form can be reached (LoginCadastroView hides its link)
    Ausente,      \* there is no document ong/<id>, no home screen, no form
    MaxHora,      \* bound on the clock
    MaxBuscas,    \* bound on reads of the profile under way for another save
    MaxEnvios,    \* bound on uploads
    MaxFalhas     \* bound on failed uploads and reads

VARIABLES
    doc,        \* the document ong/<id> as this device sees it
    arquivo,    \* Storage: the photo at the path <id>
    hora,       \* the clock Date() reads
    tela,       \* the screen the user is at
    home,       \* SobreOngGeralViewModel.ong
    imagemHome, \* SobreOngGeralViewModel.selectedImage
    isLoading,  \* the loading view covers the home screen
    buscas,     \* calls of getOng by the home screen under way, by caller
    baixando,   \* photos the home screen is downloading
    form,       \* the view model of each form
    envios,     \* uploads under way; `vivo` while their view model exists
    enviados,   \* uploads so far
    falhas,     \* failures so far
    mexeu,      \* history: a draft was changed during its upload
    gravadas    \* history: photos that have been stored

casa == <<home, imagemHome, isLoading, buscas, baixando>>
vars == <<doc, arquivo, hora, tela, casa, form, envios, enviados, falhas, mexeu,
          gravadas>>

Modos == {"cadastro", "perfil"}
Buscas == {"fetchOng", "fetchOngSemImagem"}
Textos == Validos \cup Invalidos
Fotos == Imagens \cup {SemFoto}
Perfil == [texto : Textos, foto : Fotos, data : Nat]
Form == [ong : Perfil, inicial : Perfil \cup {Ausente}, selecionada : Fotos,
         baixada : Fotos, feedback : BOOLEAN]
Envio == [n : Nat, modo : Modos, imagem : Imagens, fase : {"put", "url"}, vivo : BOOLEAN]

ASSUME OngFormAssumption ==
    /\ Validos \cap Invalidos = {}
    /\ Branco \in Invalidos
    /\ SemFoto \notin Imagens
    /\ ComCadastro \in BOOLEAN
    /\ Ausente \notin Perfil /\ Ausente \notin Form
    /\ MaxHora \in Nat /\ MaxBuscas \in Nat /\ MaxEnvios \in Nat /\ MaxFalhas \in Nat

PerfilBranco == [texto |-> Branco, foto |-> SemFoto, data |-> hora]

\* init(modo:), and init(ong:sobreOngViewModel:image:) for the profile p and
\* the photo i that the home screen holds.
FormCadastro == [ong |-> PerfilBranco, inicial |-> Ausente, selecionada |-> SemFoto,
                 baixada |-> SemFoto, feedback |-> FALSE]
FormPerfil(p, i) == [ong |-> p, inicial |-> p, selecionada |-> SemFoto, baixada |-> i,
                     feedback |-> FALSE]

SoFetchOng == [b \in Buscas |-> IF b = "fetchOng" THEN 1 ELSE 0]

\* A fresh account at its sign-up form, or an NGO at its home screen.
Init ==
    /\ hora = 1
    /\ \/ /\ ComCadastro
          /\ doc = Ausente
          /\ arquivo = SemFoto
          /\ tela = "cadastro"
          /\ home = Ausente
          /\ isLoading = FALSE
          /\ buscas = [b \in Buscas |-> 0]
          /\ form = [m \in Modos |-> IF m = "cadastro" THEN FormCadastro ELSE Ausente]
       \/ \E t \in Validos, f \in Fotos :
             /\ doc = [texto |-> t, foto |-> f, data |-> 0]
             /\ arquivo = f
             /\ tela = "home"
             /\ home = PerfilBranco
             /\ isLoading = TRUE
             /\ buscas = SoFetchOng
             /\ form = [m \in Modos |-> IF m = "perfil"
                                        THEN FormPerfil(PerfilBranco, SemFoto)
                                        ELSE Ausente]
    /\ imagemHome = SemFoto
    /\ baixando = {}
    /\ envios = {}
    /\ enviados = 0
    /\ falhas = 0
    /\ mexeu = FALSE
    /\ gravadas = {arquivo} \ {SemFoto}

----------------------------------------------------------------------------
(* The home screen *)

Orfaos(S, m) == {IF e.modo = m THEN [e EXCEPT !.vivo = FALSE] ELSE e : e \in S}

\* Mutant: a form that is on screen keeps its view model and its draft.
ReconstruirFechada(p, i) ==
    IF tela = "perfil" THEN UNCHANGED <<form, envios>>
    ELSE /\ form' = [form EXCEPT !["perfil"] = FormPerfil(p, i)]
         /\ envios' = Orfaos(envios, "perfil")

\* The body of SobreOngViewGeral runs again with the profile p and photo i.
Reconstruir(p, i) ==
    /\ form' = [form EXCEPT !["perfil"] = FormPerfil(p, i)]
    /\ envios' = Orfaos(envios, "perfil")

\* Something else home publishes changed: the stock, the search, isLoading.
Redesenhar ==
    /\ home # Ausente
    /\ Reconstruir(home, imagemHome)
    /\ UNCHANGED <<doc, arquivo, hora, tela, casa, enviados, falhas, mexeu, gravadas>>

\* "Ver perfil"
AbrirPerfil ==
    /\ tela = "home" /\ ~isLoading
    /\ tela' = "perfil"
    /\ UNCHANGED <<doc, arquivo, hora, casa, form, envios, enviados, falhas, mexeu,
                   gravadas>>

Resposta(b) ==
    /\ buscas[b] > 0
    /\ buscas' = [buscas EXCEPT ![b] = @ - 1]
    /\ UNCHANGED <<doc, arquivo, hora, tela, imagemHome, enviados, mexeu, gravadas>>

\* getOng answers; without a document it never completes.  fetchOng, not
\* fetchOngSemImagem, downloads the photo.
BuscarOng(b) ==
    /\ Resposta(b)
    /\ IF doc = Ausente
       THEN UNCHANGED <<home, isLoading, baixando, form, envios>>
       ELSE /\ home' = doc
            /\ isLoading' = FALSE
            /\ baixando' = baixando \cup
                  (IF b = "fetchOng" THEN {doc.foto} \ {SemFoto} ELSE {})
            /\ Reconstruir(doc, imagemHome)
    /\ UNCHANGED falhas

Falhar == falhas < MaxFalhas /\ falhas' = falhas + 1

FalharOng(b) ==
    /\ Resposta(b)
    /\ isLoading' = FALSE
    /\ Reconstruir(home, imagemHome)
    /\ Falhar
    /\ UNCHANGED <<home, baixando>>

\* selectedImage = image
ReceberImagem(i) ==
    /\ i \in baixando
    /\ baixando' = baixando \ {i}
    /\ imagemHome' = i
    /\ Reconstruir(home, i)
    /\ UNCHANGED <<doc, arquivo, hora, tela, home, isLoading, buscas, enviados, falhas,
                   mexeu, gravadas>>

FalharDownload(i) ==
    /\ i \in baixando
    /\ baixando' = baixando \ {i}
    /\ Falhar
    /\ UNCHANGED <<doc, arquivo, hora, tela, home, imagemHome, isLoading, buscas, form,
                   envios, enviados, mexeu, gravadas>>

\* EstoqueService.updateDate, after a write of the stock.
updateDate ==
    /\ doc # Ausente /\ hora < MaxHora
    /\ hora' = hora + 1
    /\ doc' = [doc EXCEPT !.data = hora + 1]
    /\ UNCHANGED <<arquivo, tela, casa, form, envios, enviados,
                   falhas, mexeu, gravadas>>

----------------------------------------------------------------------------
(* The form on screen *)

EmEnvio(m) == \E e \in envios : e.vivo /\ e.modo = m

Editar(m, t) ==
    /\ tela = m
    /\ form' = [form EXCEPT ![m].ong.texto = t]
    /\ mexeu' = (mexeu \/ EmEnvio(m))
    /\ UNCHANGED <<doc, arquivo, hora, tela, casa, envios, enviados, falhas, gravadas>>

\* Mutant: the chosen photo is taken for the saved one.
EscolherImagemComoSalva(m, i) ==
    /\ tela = m
    /\ form' = [form EXCEPT ![m].selecionada = i, ![m].baixada = i]
    /\ mexeu' = (mexeu \/ EmEnvio(m))
    /\ UNCHANGED <<doc, arquivo, hora, tela, casa, envios, enviados, falhas, gravadas>>

\* "Alterar foto"
EscolherImagem(m, i) ==
    /\ tela = m
    /\ form' = [form EXCEPT ![m].selecionada = i]
    /\ mexeu' = (mexeu \/ EmEnvio(m))
    /\ UNCHANGED <<doc, arquivo, hora, tela, casa, envios, enviados, falhas, gravadas>>

ImagemNova(m) ==
    form[m].selecionada # SemFoto /\ form[m].selecionada # form[m].baixada

\* The button "Salvar" is on screen.
PodeSalvar(m) == tela = m /\ (form[m].ong # form[m].inicial \/ ImagemNova(m))

verificaCampos(m) == form[m].ong.texto \in Validos

\* verificaCampos finds something: only the message changes.
SalvarInvalido(m) ==
    /\ PodeSalvar(m) /\ ~verificaCampos(m)
    /\ form' = [form EXCEPT ![m].feedback = TRUE]
    /\ UNCHANGED <<doc, arquivo, hora, tela, casa, envios, enviados, falhas, mexeu, gravadas>>

ComImagem(m) == form[m].selecionada # SemFoto /\ (m = "cadastro" \/ ImagemNova(m))

\* OngService.create overwrites the document and succeeds at once.  Then
\* the profile form asks the home screen to read the profile again; the
\* sign-up goes to the home screen, with the photo i the form holds.  The
\* view model of that home screen is built by the body of the form, and so
\* built anew if the form saves again behind it.
Criar(m, p, comImagem, i) ==
    /\ doc' = p
    /\ IF m = "cadastro"
       THEN /\ tela' = IF home = Ausente THEN "home" ELSE tela
            /\ home' = PerfilBranco
            /\ imagemHome' = i
            /\ isLoading' = TRUE
            /\ buscas' = SoFetchOng
            /\ baixando' = {}
       ELSE /\ buscas' = [buscas EXCEPT ![IF comImagem THEN "fetchOng"
                                         ELSE "fetchOngSemImagem"] = @ + 1]
            /\ isLoading' = (isLoading \/ comImagem)
            /\ UNCHANGED <<tela, home, imagemHome, baixando>>

\* Mutant: the home screen comes without its form.
ComHomeSemForm(f, m, i) == f

\* The view model of "Ver perfil" exists as soon as the home screen does.
ComHome(f, m, i) ==
    IF m = "cadastro" THEN [f EXCEPT !["perfil"] = FormPerfil(PerfilBranco, i)] ELSE f

MuitasBuscas == buscas["fetchOng"] + buscas["fetchOngSemImagem"] >= MaxBuscas

\* Mutant: what verificaCampos found is ignored.
salvaSemImagemSemVerificar(m) ==
    /\ PodeSalvar(m) /\ ~ComImagem(m)
    /\ ~MuitasBuscas
    /\ Criar(m, form[m].ong, FALSE, form[m].baixada)
    /\ form' = ComHome([form EXCEPT ![m].feedback = FALSE], m, form[m].baixada)
    /\ envios' = IF m = "cadastro" THEN Orfaos(envios, "perfil") ELSE envios
    /\ UNCHANGED <<arquivo, hora, enviados, falhas, mexeu, gravadas>>

salvaSemImagem(m) ==
    /\ PodeSalvar(m) /\ verificaCampos(m) /\ ~ComImagem(m)
    /\ ~MuitasBuscas
    /\ Criar(m, form[m].ong, FALSE, form[m].baixada)
    /\ form' = ComHome([form EXCEPT ![m].feedback = FALSE], m, form[m].baixada)
    /\ envios' = IF m = "cadastro" THEN Orfaos(envios, "perfil") ELSE envios
    /\ UNCHANGED <<arquivo, hora, enviados, falhas, mexeu, gravadas>>

\* Mutant: the profile is saved with the new photo before the upload ends.
salvaComImagemAntes(m) ==
    /\ PodeSalvar(m) /\ verificaCampos(m) /\ ComImagem(m)
    /\ enviados < MaxEnvios
    /\ enviados' = enviados + 1
    /\ envios' = envios \cup {[n |-> enviados + 1, modo |-> m,
                               imagem |-> form[m].selecionada, fase |-> "put",
                               vivo |-> TRUE]}
    /\ doc' = [form[m].ong EXCEPT !.foto = form[m].selecionada]
    /\ UNCHANGED <<arquivo, hora, tela, casa, form, falhas, mexeu,
                   gravadas>>

\* The upload starts; the form stays on screen and can be edited.
salvaComImagem(m) ==
    /\ PodeSalvar(m) /\ verificaCampos(m) /\ ComImagem(m)
    /\ enviados < MaxEnvios
    /\ enviados' = enviados + 1
    /\ envios' = envios \cup {[n |-> enviados + 1, modo |-> m,
                               imagem |-> form[m].selecionada, fase |-> "put",
                               vivo |-> TRUE]}
    /\ form' = [form EXCEPT ![m].feedback = FALSE]
    /\ UNCHANGED <<doc, arquivo, hora, tela, casa, falhas, mexeu,
                   gravadas>>

\* uploadImage cannot encode the photo and returns without a completion: the
\* form is left as it is, with nothing under way.
salvaImagemSemDados(m) ==
    /\ PodeSalvar(m) /\ verificaCampos(m) /\ ComImagem(m)
    /\ form' = [form EXCEPT ![m].feedback = FALSE]
    /\ UNCHANGED <<doc, arquivo, hora, tela, casa, envios, enviados, falhas, mexeu,
                   gravadas>>

\* "Cancelar": the draft and its uploads stay with the view model.
Cancelar ==
    /\ tela = "perfil"
    /\ tela' = "home"
    /\ form' = [form EXCEPT !["perfil"].feedback = FALSE,
                            !["perfil"].selecionada = SemFoto]
    /\ UNCHANGED <<doc, arquivo, hora, casa, envios, enviados,
                   falhas, mexeu, gravadas>>

----------------------------------------------------------------------------
(* ImageStorageService.uploadImage *)

\* putData succeeds: the photo replaces the one at the NGO's path.
GravarArquivo(e) ==
    /\ e.fase = "put"
    /\ arquivo' = e.imagem
    /\ gravadas' = gravadas \cup {e.imagem}
    /\ envios' = (envios \ {e}) \cup {[e EXCEPT !.fase = "url"]}
    /\ UNCHANGED <<doc, hora, tela, casa, form, enviados, falhas,
                   mexeu>>

\* The completion of the upload in salvaComImagem, if the view model still
\* exists: foto, downloadedImage and selectedImage are set and the form, as
\* it is now, is saved.  atualizarHomeComImagem publishes isLoading.
ConcluirEnvio(e, url) ==
    LET m == e.modo
        ong == [form[m].ong EXCEPT !.foto = url]
        f == [form EXCEPT ![m].ong = ong, ![m].baixada = form[m].selecionada,
                          ![m].selecionada = SemFoto,
                          ![m].feedback = @ \/ url = SemFoto]
    IN  IF ~e.vivo
        THEN /\ envios' = envios \ {e}
             /\ UNCHANGED <<doc, tela, casa, form>>
        ELSE /\ Criar(m, ong, TRUE, form[m].selecionada)
             /\ form' = IF m = "perfil"
                        THEN [f EXCEPT ![m] = FormPerfil(home, imagemHome)]
                        ELSE ComHome(f, m, form[m].selecionada)
             /\ envios' = Orfaos(envios \ {e}, "perfil")

ReceberUrl(e) ==
    /\ e.fase = "url"
    /\ ConcluirEnvio(e, arquivo)
    /\ UNCHANGED <<arquivo, hora, enviados, falhas, mexeu, gravadas>>

\* Mutant: the completion returns after the error.
FalharEnvioSemSalvar(e) ==
    /\ Falhar
    /\ envios' = envios \ {e}
    /\ UNCHANGED <<doc, arquivo, hora, tela, casa, form, enviados,
                   mexeu, gravadas>>

\* putData or downloadURL fails: the completion gets "" and saves it.
FalharEnvio(e) ==
    /\ Falhar
    /\ ConcluirEnvio(e, SemFoto)
    /\ UNCHANGED <<arquivo, hora, enviados, mexeu, gravadas>>

----------------------------------------------------------------------------
Upload(e) == GravarArquivo(e) \/ ReceberUrl(e) \/ FalharEnvio(e)

Next ==
    \/ Redesenhar \/ AbrirPerfil \/ updateDate
    \/ \E b \in Buscas : BuscarOng(b) \/ FalharOng(b)
    \/ \E i \in Imagens : ReceberImagem(i) \/ FalharDownload(i)
    \/ \E m \in Modos :
          \/ \E t \in Textos : Editar(m, t)
          \/ \E i \in Imagens : EscolherImagem(m, i)
          \/ SalvarInvalido(m) \/ salvaSemImagem(m) \/ salvaComImagem(m)
          \/ salvaImagemSemDados(m)
    \/ Cancelar
    \/ \E e \in envios : Upload(e)

Spec == Init /\ [][Next]_vars

\* An upload that was started ends, if only with an error.
FairSpec ==
    /\ Spec
    /\ \A n \in 1..MaxEnvios : WF_vars(\E e \in envios : e.n = n /\ Upload(e))

----------------------------------------------------------------------------
(* Properties *)

TypeOK ==
    /\ doc \in Perfil \cup {Ausente} /\ home \in Perfil \cup {Ausente}
    /\ arquivo \in Fotos
    /\ imagemHome \in Fotos /\ baixando \subseteq Imagens
    /\ buscas \in [Buscas -> Nat]
    /\ hora \in Nat /\ enviados \in Nat /\ falhas \in Nat
    /\ tela \in Modos \cup {"home"}
    /\ form \in [Modos -> Form \cup {Ausente}]
    /\ tela \in Modos => form[tela] # Ausente
    /\ tela = "cadastro" <=> home = Ausente
    /\ home # Ausente => form["perfil"] # Ausente
    /\ envios \subseteq Envio
    /\ \A e \in envios : e.vivo => form[e.modo] # Ausente
    /\ isLoading \in BOOLEAN /\ mexeu \in BOOLEAN
    /\ gravadas \subseteq Imagens

\* The text fields of the stored profile passed verificaCampos, unless the
\* user changed the form between the start of an upload and its completion,
\* which saves without checking again (salvaComImagem).
InvalidoSoPorUpload == doc # Ausente /\ doc.texto \notin Validos => mexeu

\* The profile never refers to a photo before it is stored, through
\* failures, cancelled forms and uploads that finish out of order.
FotoJaGravada == doc # Ausente => doc.foto \in gravadas \cup {SemFoto}

\* The photo that the home screen shows, and that a form takes for the saved
\* one (downloadedImage), has been stored, unless an upload failed or another
\* photo was chosen meanwhile.
ImagemMostradaGravada ==
    ~mexeu /\ falhas = 0 =>
        /\ imagemHome \in gravadas \cup {SemFoto}
        /\ \A m \in Modos :
              form[m] # Ausente => form[m].baixada \in gravadas \cup {SemFoto}

\* A sign-up whose photo is being uploaded reaches the home screen, even if
\* the upload fails.
CadastroConclui == EmEnvio("cadastro") ~> tela # "cadastro"

\* "var cnpj: String //Validado" (Organizacao.swift:14; telefone, email and
\* banco too): a stored profile passed validation.
PerfilValidado == doc # Ausente => doc.texto \in Validos

\* The date of the last update (TelaListaViewModel.swift:55), which every
\* change of the stock stamps and every save of a form overwrites, goes back
\* only when the home screen's copy of the profile is older than the document,
\* or by an upload of the sign-up form: a form of the home screen never keeps
\* an older copy than home's, whatever is drawn, read or uploaded meanwhile.
DataSoVoltaSeHomeVelha ==
    [][doc # Ausente /\ doc'.data < doc.data
         => home.data # doc.data \/ EmEnvio("cadastro")]_vars
=============================================================================
