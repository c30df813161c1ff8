------------------------------ MODULE Filtros ------------------------------
(***************************************************************************)
(* What the screens show of a list of items: the needs list under its      *)
(* search, filters and grouping (TelaListaView, ListaVerticalItem,         *)
(* ListaGridItem, temItemNaCategoria), the sheet that sets the filters     *)
(* (FiltroModal) and the preview of the home screen (SobreOngViewGeral).   *)
(*                                                                         *)
(* The code repeats one condition in six places, three for each app; the   *)
(* copies of one app are the same and are `Passa` here.                    *)
(*                                                                         *)
(* The body of the home screen builds the view model of the needs list, so *)
(* whatever home publishes (its own listener's changes, a typed search)    *)
(* replaces it: search, filters and sheet are gone and the list is empty   *)
(* until the new listener's first snapshot.                                *)
(***************************************************************************)
EXTENDS Integers, Sequences, FiniteSets

CONSTANTS
    Ids,          \* document ids
    Nomes,        \* names of items
    Estoques,     \* arrays of items the screens may hold
    Pesquisas,    \* texts of the search bars
    SemPesquisa,  \* itemPesquisado is empty
    Contem,       \* pairs <<nome, pesquisa>> with nome.contains(pesquisa)
    Admin,        \* the target is RelpiAdmin
    TelaGrande    \* UIScreen.main.bounds.size.height > 1000

\* "Utensílio", with its accent; all that matters is that it is not "Utensilio".
Acentuado == "Utens_ilio"

\* The empty string: Categorias.vazio, and a list of every category.
vazio == "vazio"

\* The categories the item form offers: no other is ever stored.
CategoriasForm == {"Higiene", "Alimento", "Limpeza", "Medicamento", Acentuado}

Item ==
    [id : Ids, nome : Nomes, categoria : CategoriasForm, urgente : BOOLEAN,
     visivel : BOOLEAN]

ASSUME FiltrosAssumption ==
    /\ Estoques \subseteq Seq(Item)
    /\ SemPesquisa \in Pesquisas
    /\ Admin \in BOOLEAN /\ TelaGrande \in BOOLEAN

VARIABLES
    tela,               \* the screen in front
    estoque,            \* the stock on the home screen
    pesquisaHome,       \* SobreOngGeralViewModel.itemPesquisado
    items,              \* TelaListaViewModel.items
    itemPesquisado,     \* TelaListaViewModel: search bar
    apenasUrgente,      \* TelaListaViewModel: only urgent items
    listaCategorizada,  \* TelaListaViewModel: grouped by category
    mostrarFiltros      \* TelaListaViewModel: the sheet is open

home == <<estoque, pesquisaHome>>
filtros == <<itemPesquisado, apenasUrgente, listaCategorizada>>
vars == <<tela, home, items, filtros, mostrarFiltros>>

----------------------------------------------------------------------------
(* What is on screen *)

\* Mutant: a category is left out of the grouped list.
categoriasQuatro == <<"Limpeza", "Medicamento", "Higiene", "Utensilio">>

\* TelaListaViewModel.categorias, and the raw values of the enum Categorias.
categorias == <<"Limpeza", "Medicamento", "Higiene", "Utensilio", "Alimento">>
Categorias == {"Higiene", "Alimento", "Limpeza", "Medicamento", Acentuado, vazio}

CategoriaDe(texto) == IF texto \in Categorias THEN texto ELSE vazio

Acha(item, pesquisa) == pesquisa = SemPesquisa \/ <<item.nome, pesquisa>> \in Contem

Passa(item) ==
    /\ Acha(item, itemPesquisado)
    /\ Admin \/ item.visivel
    /\ item.urgente \/ ~apenasUrgente

\* Array.filter: the elements of s at the positions P, in their order.
Filtra(s, P) ==
    LET Ate[i \in 0..Len(s)] ==
            IF i = 0 THEN <<>>
            ELSE IF i \in P THEN Append(Ate[i - 1], s[i]) ELSE Ate[i - 1]
    IN  Ate[Len(s)]

\* ListaVerticalItem and ListaGridItem, for one category or for all (vazio).
Lista(categoria) ==
    Filtra(items, {i \in 1..Len(items) :
                     Passa(items[i]) /\ (categoria = vazio \/ items[i].categoria = categoria)})

\* Mutant: the title does not look at the filters.
temItemNaCategoriaSemFiltro(categoria) ==
    \E i \in 1..Len(items) :
        Acha(items[i], itemPesquisado) /\ items[i].categoria = categoria

temItemNaCategoria(categoria) ==
    \E i \in 1..Len(items) : Passa(items[i]) /\ items[i].categoria = categoria

\* TituloListaView of a group.
TemTitulo(categoria) == temItemNaCategoria(CategoriaDe(categoria))

\* The lists of TelaListaView; "list" and "grid" only differ in layout.
NaTela ==
    IF listaCategorizada THEN [g \in 1..Len(categorias) |-> Lista(categorias[g])]
                         ELSE <<Lista(vazio)>>

Mostra(s, item) == \E i \in 1..Len(s) : s[i] = item

ongItens == Filtra(estoque, {i \in 1..Len(estoque) : Acha(estoque[i], pesquisaHome)})

\* Mutant: a card for each of the first items, however many were found.
PreviaSemContar == 1..(IF TelaGrande THEN 3 ELSE 2)

\* The positions of the stock that the home screen shows as cards.
Previa ==
    LET n == Len(ongItens)
        qtdItens == IF TelaGrande /\ n >= 3 THEN 3 ELSE 2
    IN  {i \in 1..(IF n >= qtdItens THEN qtdItens ELSE 1) : n >= i}

----------------------------------------------------------------------------
Init ==
    /\ tela = "home"
    /\ estoque \in Estoques
    /\ pesquisaHome = SemPesquisa
    /\ items = <<>>
    /\ itemPesquisado = SemPesquisa
    /\ apenasUrgente = FALSE
    /\ listaCategorizada = FALSE
    /\ mostrarFiltros = FALSE

(* The home screen *)

\* The body of the home screen runs: TelaListaViewModel.init.
NovaLista ==
    /\ items' = <<>>
    /\ itemPesquisado' = SemPesquisa
    /\ apenasUrgente' = FALSE
    /\ listaCategorizada' = FALSE
    /\ mostrarFiltros' = FALSE

\* The home screen's own listener or read.
MudarEstoque(s) ==
    /\ s # estoque
    /\ estoque' = s
    /\ NovaLista
    /\ UNCHANGED <<tela, pesquisaHome>>

PesquisarHome(p) ==
    /\ tela = "home" /\ p # pesquisaHome
    /\ pesquisaHome' = p
    /\ NovaLista
    /\ UNCHANGED <<tela, estoque>>

\* It publishes something else: profile, photo, isLoading.
Redesenhar == NovaLista /\ UNCHANGED <<tela, home>>

AbrirLista ==
    /\ tela = "home"
    /\ tela' = "lista"
    /\ UNCHANGED <<home, items, filtros, mostrarFiltros>>

Voltar ==
    /\ tela = "lista" /\ ~mostrarFiltros
    /\ tela' = "home"
    /\ UNCHANGED <<home, items, filtros, mostrarFiltros>>

----------------------------------------------------------------------------
(* The needs list *)

\* Its listener's snapshots; TelaLista has them in detail.
ReceberItems ==
    /\ items # estoque
    /\ items' = estoque
    /\ UNCHANGED <<tela, home, filtros, mostrarFiltros>>

Pesquisar(p) ==
    /\ tela = "lista" /\ ~mostrarFiltros /\ p # itemPesquisado
    /\ itemPesquisado' = p
    /\ UNCHANGED <<tela, home, items, apenasUrgente, listaCategorizada, mostrarFiltros>>

AbrirFiltros ==
    /\ tela = "lista" /\ ~mostrarFiltros
    /\ mostrarFiltros' = TRUE
    /\ UNCHANGED <<tela, home, items, filtros>>

AlternarCategorias ==
    /\ mostrarFiltros
    /\ listaCategorizada' = ~listaCategorizada
    /\ UNCHANGED <<tela, home, items, itemPesquisado, apenasUrgente, mostrarFiltros>>

AlternarUrgentes ==
    /\ mostrarFiltros
    /\ apenasUrgente' = ~apenasUrgente
    /\ UNCHANGED <<tela, home, items, itemPesquisado, listaCategorizada, mostrarFiltros>>

\* "Aplicar filtros".  "Cancelar" does the same: `estadoTela` is computed
\* from the bindings as they are when the button is pressed, so it assigns
\* to each filter its own value, and dismiss() closes the sheet.
AplicarFiltros ==
    /\ mostrarFiltros
    /\ mostrarFiltros' = FALSE
    /\ UNCHANGED <<tela, home, items, filtros>>

\* "Limpar filtros"
LimparFiltros ==
    /\ mostrarFiltros
    /\ listaCategorizada' = FALSE
    /\ apenasUrgente' = FALSE
    /\ mostrarFiltros' = FALSE
    /\ UNCHANGED <<tela, home, items, itemPesquisado>>

\* What the home screen publishes, and what the needs list publishes.
PublicarHome ==
    \/ \E s \in Estoques : MudarEstoque(s)
    \/ \E p \in Pesquisas : PesquisarHome(p)

PublicarLista ==
    \/ ReceberItems
    \/ \E p \in Pesquisas : Pesquisar(p)
    \/ AbrirFiltros \/ AlternarCategorias \/ AlternarUrgentes
    \/ AplicarFiltros \/ LimparFiltros

----------------------------------------------------------------------------
(* Properties *)

Vezes(item) == Cardinality({g \in 1..Len(NaTela) : Mostra(NaTela[g], item)})

\* Under any search and filter, grouped or not, the screen neither repeats nor
\* loses an item, and grouping drops none of the plain list, except for those
\* of category "Utensílio", which the form writes with an accent and the list
\* of groups without (TelaListaViewModel, FormItem); an item the NGO hid
\* ("Ocultar") is on no needs list of a donor.
SoUtensilioSome ==
    \A i \in 1..Len(items) :
        /\ Vezes(items[i]) =
              IF /\ Mostra(Lista(vazio), items[i])
                 /\ listaCategorizada => items[i].categoria # Acentuado
              THEN 1 ELSE 0
        /\ ~Admin /\ ~items[i].visivel => Vezes(items[i]) = 0

\* A group has a title exactly when it has items: temItemNaCategoria repeats
\* the condition of the lists, once per app, and must agree with them.
TituloComItens ==
    listaCategorizada =>
        \A g \in 1..Len(categorias) : TemTitulo(categorias[g]) <=> NaTela[g] # <<>>

\* The preview indexes the whole stock with positions of the items found by
\* the search (item(at:)): it never leaves the stock, and it shows a card
\* exactly when something was found.
PreviaNoEstoque ==
    /\ Previa \subseteq 1..Len(estoque)
    /\ Previa # {} <=> \E i \in 1..Len(estoque) : Acha(estoque[i], pesquisaHome)
=============================================================================
