------------------------------- MODULE Rotulo -------------------------------
(***************************************************************************)
(* The label "Atualizado em ..." of the needs list.                        *)
(*                                                                         *)
(* The body of the list draws `dataAtualizada`, which formats the date the *)
(* view model holds and asks Firestore for the stored one.  The answer is  *)
(* stored in a variable that publishes nothing, so only a later change of  *)
(* the list puts it on screen.  A view model that the home screen rebuilds *)
(* starts again from the date in home's copy of the profile.               *)
(*                                                                         *)
(* Dates are numbered in the order in which they were stored.              *)
(***************************************************************************)
EXTENDS Filtros

CONSTANTS
    MaxDatas,     \* bound on dates stored
    MaxLeituras,  \* bound on reads of the date under way
    MaxHome       \* bound on changes the home screen publishes

ASSUME RotuloAssumption ==
    MaxDatas \in Nat /\ MaxLeituras \in Nat \ {0} /\ MaxHome \in Nat

VARIABLES
    dataServidor, \* the field `data` of the document ong/<id>
    dataHome,     \* SobreOngGeralViewModel.ong.data
    data,         \* TelaListaViewModel.data
    rotulo,       \* the date on screen
    lendo,        \* calls of getDate that Firestore has not answered
    respostas,    \* main queue: self?.data = dataAtt
    publicacoes,  \* changes the home screen published so far
    desenhada,    \* history: the stored date when the list was last drawn
    falhou        \* history: a read has failed since

firestore == <<dataServidor, publicacoes>>
leituras == <<lendo, respostas>>
varsRotulo == <<vars, firestore, dataHome, data, rotulo, leituras, desenhada, falhou>>

Fora == -1  \* no label on screen

InitRotulo ==
    /\ Init
    /\ dataServidor = 0
    /\ dataHome = 0
    /\ data = 0
    /\ rotulo = Fora
    /\ lendo = 0
    /\ respostas = <<>>
    /\ publicacoes = 0
    /\ desenhada = 0
    /\ falhou = FALSE

----------------------------------------------------------------------------
\* Mutant: the date is only read when the list is opened.
DesenharSemLer(d, n) ==
    /\ rotulo' = d
    /\ lendo' = IF rotulo = Fora THEN n + 1 ELSE n
    /\ desenhada' = dataServidor
    /\ falhou' = FALSE

\* The body of TelaListaView over a view model with the date d and n reads
\* under way: dataAtualizada shows d and starts one more (atualizaData).
Desenhar(d, n) ==
    /\ rotulo' = d
    /\ lendo' = n + 1
    /\ desenhada' = dataServidor
    /\ falhou' = FALSE

Desenhada == UNCHANGED <<rotulo, lendo, desenhada, falhou>>

AbrirRotulo ==
    /\ AbrirLista
    /\ lendo + Len(respostas) < MaxLeituras
    /\ Desenhar(data, lendo)
    /\ UNCHANGED <<firestore, dataHome, data, respostas>>

VoltarHome ==
    /\ Voltar
    /\ rotulo' = Fora
    /\ UNCHANGED <<firestore, dataHome, data, leituras, desenhada, falhou>>

\* The view model of the list publishes a change; behind the home screen
\* nothing is drawn.
MudarLista ==
    /\ PublicarLista
    /\ IF tela = "lista"
       THEN lendo + Len(respostas) < MaxLeituras /\ Desenhar(data, lendo)
       ELSE Desenhada
    /\ UNCHANGED <<firestore, dataHome, data, respostas>>

\* Mutant: a list that is rebuilt on screen does not read the date.
ListaNovaSemLer(d) ==
    /\ data' = d
    /\ respostas' = <<>>
    /\ lendo' = 0
    /\ IF tela = "lista" THEN rotulo' = d /\ desenhada' = dataServidor /\ falhou' = FALSE
                         ELSE UNCHANGED <<rotulo, desenhada, falhou>>

\* The list's view model is replaced by one with the date d: what the old
\* one has asked for no longer matters.
ListaNova(d) ==
    /\ data' = d
    /\ respostas' = <<>>
    /\ IF tela = "lista" THEN Desenhar(d, 0)
                         ELSE lendo' = 0 /\ UNCHANGED <<rotulo, desenhada, falhou>>

Publicacao == publicacoes < MaxHome /\ publicacoes' = publicacoes + 1

MudarHome ==
    /\ PublicarHome
    /\ Publicacao
    /\ ListaNova(dataHome)
    /\ UNCHANGED <<dataServidor, dataHome>>

\* fetchOng, after the profile was saved: the home screen's copy is new.
RelerPerfil ==
    /\ Redesenhar
    /\ Publicacao
    /\ dataHome' = dataServidor
    /\ ListaNova(dataServidor)
    /\ UNCHANGED dataServidor

\* updateDate, on any device.
MudarData ==
    /\ dataServidor < MaxDatas
    /\ dataServidor' = dataServidor + 1
    /\ UNCHANGED <<vars, publicacoes, dataHome, data, rotulo, leituras, desenhada, falhou>>

ResponderData ==
    /\ lendo > 0
    /\ lendo' = lendo - 1
    /\ respostas' = Append(respostas, dataServidor)
    /\ UNCHANGED <<vars, firestore, dataHome, data, rotulo, desenhada, falhou>>

\* An error, or no document: only a log line at most.
FalharData ==
    /\ lendo > 0
    /\ lendo' = lendo - 1
    /\ falhou' = TRUE
    /\ UNCHANGED <<vars, firestore, dataHome, data, rotulo, respostas, desenhada>>

\* Mutant: the newest answer is stored first.
AplicarDataUltima ==
    /\ respostas # <<>>
    /\ data' = respostas[Len(respostas)]
    /\ respostas' = SubSeq(respostas, 1, Len(respostas) - 1)
    /\ UNCHANGED <<vars, firestore, dataHome, rotulo, lendo, desenhada, falhou>>

\* self?.data = dataAtt: nothing is published.
AplicarData ==
    /\ respostas # <<>>
    /\ data' = Head(respostas)
    /\ respostas' = Tail(respostas)
    /\ UNCHANGED <<vars, firestore, dataHome, rotulo, lendo, desenhada, falhou>>

TerminarData == ResponderData \/ FalharData

NextRotulo ==
    \/ AbrirRotulo \/ VoltarHome
    \/ MudarLista
    \/ MudarHome \/ RelerPerfil
    \/ MudarData
    \/ TerminarData \/ AplicarData

SpecRotulo == InitRotulo /\ [][NextRotulo]_varsRotulo

\* Firestore answers every read, if only with an error; the main queue runs.
FairSpecRotulo ==
    SpecRotulo /\ WF_varsRotulo(TerminarData) /\ WF_varsRotulo(AplicarData)

----------------------------------------------------------------------------
(* Properties *)

\* The date on screen goes back only when a change of the home screen rebuilds
\* the list under the reader, and then to home's copy of the date, over an
\* empty list; never because two reads of one list finish.
RotuloSoVoltaRefeito ==
    [][tela = "lista" /\ tela' = "lista" /\ rotulo' < rotulo
         => rotulo' = dataHome' /\ items' = <<>>]_varsRotulo

\* With no read under way, the list holds a date at least as new as the one
\* that was stored when it was last drawn, although what it shows is older
\* (dataAtualizada formats the date before the read it starts is answered),
\* unless a read failed.
DataConferida ==
    tela = "lista" /\ lendo = 0 /\ respostas = <<>> /\ ~falhou => data >= desenhada

\* The reads that drawing the list starts end by bringing the date stored by
\* then, unless one fails, the donor leaves, or home keeps rebuilding the list.
DataChega ==
    \A v \in 1..MaxDatas :
        (tela = "lista" /\ desenhada >= v) ~> (data >= v \/ falhou \/ tela = "home")
=============================================================================
