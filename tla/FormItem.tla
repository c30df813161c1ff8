------------------------------ MODULE FormItem ------------------------------
(***************************************************************************)
(* The item form (FormItem, FormItemViewModel) on each device, on top of   *)
(* EstoqueService: the only caller of its three writes.                    *)
(***************************************************************************)
EXTENDS EstoqueService

CONSTANTS
    Invalidos,   \* drafts verificaCampos refuses (no name, no category, zero)
    Fechado,     \* no form on screen
    Novo         \* the form in mode novoItem

ASSUME FormItemAssumption ==
    /\ Invalidos \cap Conteudo = {}
    /\ {Fechado, Novo} \cap Ids = {} /\ Fechado # Novo

VARIABLE
    form   \* per device: Fechado, Novo, or the id of the item being edited

vars == <<estado, form>>

Init == InitServico /\ form = [d \in Aparelhos |-> Fechado]

\* init(idOng:) or init(idOng:item:) with an item of the list on screen.
Abrir(d) ==
    /\ hora + Cardinality({e \in Aparelhos : form[e] # Fechado}) < MaxHora
          \* bound: an operation is left for every open form
    /\ form[d] = Fechado
    /\ \E f \in {Novo} \cup {k \in Ids : Vista(d)[k] # Ausente} :
          form' = [form EXCEPT ![d] = f]
    /\ UNCHANGED estado

Fechar(d) == form' = [form EXCEPT ![d] = Fechado]

\* The fields on screen.  itemInicial is never set, so "Salvar" is always
\* offered, whatever they hold.
Rascunho == Conteudo \cup Invalidos

verificaCampos(c) == c \in Conteudo

\* Mutant: the result of verificaCampos is not looked at.
SalvarSemVerificar(d) ==
    /\ form[d] # Fechado
    /\ \E c \in Rascunho :
         \/ form[d] = Novo /\ \E k \in Ids : addItem(d, k, c)
         \/ form[d] \in Ids /\ updateItem(d, form[d], c)
    /\ Fechar(d)

\* Button "Salvar" with a draft that passes verificaCampos.
Salvar(d) ==
    /\ form[d] # Fechado
    /\ \E c \in Rascunho :
         /\ verificaCampos(c)
         /\ \/ form[d] = Novo /\ \E k \in Ids : addItem(d, k, c)
            \/ form[d] \in Ids /\ updateItem(d, form[d], c)
    /\ Fechar(d)

\* Button "Salvar" with a draft that does not: nothing is written, the view
\* is dismissed all the same, and the message with it.
SalvarInvalido(d) ==
    /\ form[d] # Fechado
    /\ \E c \in Rascunho : ~verificaCampos(c)
    /\ Fechar(d)
    /\ UNCHANGED estado

\* Button "Excluir": the form stays open on the deleted item.
Excluir(d) ==
    /\ form[d] \in Ids
    /\ deleteItem(d, form[d])
    /\ UNCHANGED form

\* Button "Cancelar", or back.
Voltar(d) ==
    /\ form[d] # Fechado
    /\ Fechar(d)
    /\ UNCHANGED estado

\* A restart also loses the form.
ReiniciarApp(d) == Reiniciar(d) /\ Fechar(d)

Next ==
    \E d \in Aparelhos :
        \/ Abrir(d) \/ Salvar(d) \/ SalvarInvalido(d) \/ Excluir(d) \/ Voltar(d)
        \/ Rede(d) /\ UNCHANGED form
        \/ ReiniciarApp(d)

Spec == Init /\ [][Next]_vars

\* Each device is on line often enough: what is persisted is sent, answers
\* and watch events arrive.  The user and the failures owe nothing.
Fairness ==
    \A d \in Aparelhos :
        /\ WF_vars(Persistir(d) /\ UNCHANGED form)
        /\ WF_vars((Confirmar(d) \/ Negar(d)) /\ UNCHANGED form)
        /\ WF_vars((OnWriteStreamMutationResult(d) \/ HandleWriteError(d))
                      /\ UNCHANGED form)
        /\ WF_vars(Observar(d) /\ UNCHANGED form)

FairSpec == Spec /\ Fairness

TypeOK ==
    /\ TypeOKServico
    /\ form \in [Aparelhos -> {Fechado, Novo} \cup {k \in Ids : original[k] # Ausente}]
=============================================================================
