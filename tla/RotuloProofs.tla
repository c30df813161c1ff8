---------------------------- MODULE RotuloProofs ----------------------------
(***************************************************************************)
(* Proofs about Filtros and Rotulo, for any stocks, searches and bounds    *)
(* and for both apps.                                                      *)
(***************************************************************************)
EXTENDS Rotulo, Inducao, SequenceTheorems, TLAPS

----------------------------------------------------------------------------
(* Array.filter *)

\* g is the table Filtra computes, as far as position n.
Tabela(g, s, P, n) ==
    g = [i \in 0..n |->
            IF i = 0 THEN <<>>
            ELSE IF i \in P THEN Append(g[i - 1], s[i]) ELSE g[i - 1]]

LEMMA TabelaExiste ==
    ASSUME NEW s \in Seq(Item), NEW P
    PROVE  \E g : Tabela(g, s, P, Len(s))
  <1> DEFINE N == {n \in Nat : \E g : Tabela(g, s, P, n)}
  <1>1. Len(s) \in Nat
    OBVIOUS
  <1>2. 0 \in N
    <2>1. Tabela([i \in 0..0 |-> <<>>], s, P, 0)
      BY DEF Tabela
    <2> QED
      BY <2>1
  <1>3. ASSUME NEW n \in 1..Len(s), n - 1 \in N PROVE n \in N
    <2>1. n \in Nat /\ n >= 1
      BY <1>1
    <2>2. PICK g : Tabela(g, s, P, n - 1)
      BY <1>3
    <2> DEFINE x == IF n \in P THEN Append(g[n - 1], s[n]) ELSE g[n - 1]
               h == [i \in 0..n |-> IF i = n THEN x ELSE g[i]]
    <2> HIDE DEF x
    <2>3. \A i \in 0..(n - 1) : h[i] = g[i] /\ i \in 0..n /\ i # n
      BY <2>1
    <2>4. ASSUME NEW i \in 0..n
          PROVE  h[i] = IF i = 0 THEN <<>>
                        ELSE IF i \in P THEN Append(h[i - 1], s[i]) ELSE h[i - 1]
      <3>1. CASE i = n
        <4>1. h[i] = x /\ h[i - 1] = g[n - 1] /\ i # 0
          BY <2>1, <3>1
        <4> QED
          BY <3>1, <4>1 DEF x
      <3>2. CASE i # n
        <4>1. i \in 0..(n - 1) /\ h[i] = g[i]
          BY <2>1, <3>2
        <4>2. i # 0 => i - 1 \in 0..(n - 1) /\ h[i - 1] = g[i - 1]
          BY <2>1, <3>2
        <4>3. g[i] = IF i = 0 THEN <<>>
                     ELSE IF i \in P THEN Append(g[i - 1], s[i]) ELSE g[i - 1]
          BY <2>2, <4>1 DEF Tabela
        <4> QED
          BY <4>1, <4>2, <4>3
      <3> QED
        BY <3>1, <3>2
    <2>5. Tabela(h, s, P, n)
      <3> DEFINE k == [i \in 0..n |-> IF i = 0 THEN <<>>
                        ELSE IF i \in P THEN Append(h[i - 1], s[i]) ELSE h[i - 1]]
      <3>1. \A i \in 0..n : h[i] = k[i]
        BY <2>4
      <3>2. h = [i \in 0..n |-> h[i]] /\ k = [i \in 0..n |-> k[i]]
        OBVIOUS
      <3> HIDE DEF h, k
      <3>3. h = k
        BY <3>1, <3>2
      <3> QED
        BY <3>3 DEF Tabela, k
    <2> QED
      BY <2>1, <2>5
  <1> HIDE DEF N
  <1>4. \A i \in 1..Len(s) : i - 1 \in N => i \in N
    BY <1>3
  <1>5. \A i \in 0..Len(s) : i \in N
    BY <1>1, <1>2, <1>4, InducaoAte
  <1>6. Len(s) \in N
    BY <1>1, <1>5
  <1> QED
    BY <1>6 DEF N

LEMMA JuntaUm ==
    ASSUME NEW u \in Seq(Item), NEW e \in Item
    PROVE  /\ Append(u, e) \in Seq(Item)
           /\ Len(u) \in Nat /\ Len(Append(u, e)) = Len(u) + 1
           /\ Append(u, e)[Len(u) + 1] = e
           /\ \A j \in 1..Len(u) : Append(u, e)[j] = u[j]
  OBVIOUS

\* What a filtered array holds: the elements at the positions P and nothing
\* else, and no more elements than the array it came from.
LEMMA FiltraMostra ==
    ASSUME NEW s \in Seq(Item), NEW P
    PROVE  /\ Filtra(s, P) \in Seq(Item)
           /\ Len(Filtra(s, P)) <= Len(s)
           /\ \A x : Mostra(Filtra(s, P), x) <=> \E i \in 1..Len(s) : i \in P /\ s[i] = x
  <1> DEFINE g == CHOOSE h : Tabela(h, s, P, Len(s))
             n == Len(s)
             Bom(i) ==
               /\ g[i] \in Seq(Item)
               /\ Len(g[i]) <= i
               /\ \A x : Mostra(g[i], x) <=> \E j \in 1..i : j \in P /\ s[j] = x
             N == {i \in 0..n : Bom(i)}
  <1>1. Filtra(s, P) = g[n]
    BY DEF Filtra, Tabela
  <1>2. Tabela(g, s, P, n)
    BY TabelaExiste
  <1>3. n \in Nat /\ \A i \in 1..n : s[i] \in Item
    BY ElementOfSeq
  <1> HIDE DEF g, n
  <1>4. /\ g[0] = <<>>
        /\ \A i \in 1..n : g[i] = IF i \in P THEN Append(g[i - 1], s[i]) ELSE g[i - 1]
    <2>1. \A i \in 0..n : g[i] = IF i = 0 THEN <<>>
                                 ELSE IF i \in P THEN Append(g[i - 1], s[i]) ELSE g[i - 1]
      BY <1>2 DEF Tabela
    <2>2. 0 \in 0..n /\ \A i \in 1..n : i \in 0..n /\ i # 0
      BY <1>3
    <2> HIDE DEF Bom, N
    <2> QED
      BY <2>1, <2>2
  <1>5. 0 \in N
    <2>1. g[0] \in Seq(Item) /\ Len(g[0]) = 0
      BY <1>4
    <2>2. \A x : ~Mostra(g[0], x)
      BY <2>1 DEF Mostra
    <2>3. 0 \in 0..n /\ ~\E j \in 1..0 : TRUE
      BY <1>3
    <2> QED
      BY <2>1, <2>2, <2>3
  <1>6. ASSUME NEW i \in 1..n, i - 1 \in N PROVE i \in N
    <2> DEFINE u == g[i - 1]
    <2>1. /\ i \in Nat /\ i >= 1 /\ s[i] \in Item /\ i \in 0..n
          /\ \A j \in 1..i : j = i \/ j \in 1..(i - 1)
          /\ \A j \in 1..(i - 1) : j \in 1..i
          /\ i \in 1..i
      BY <1>3
    <2>2. /\ u \in Seq(Item) /\ Len(u) <= i - 1
          /\ \A x : Mostra(u, x) <=> \E j \in 1..(i - 1) : j \in P /\ s[j] = x
      BY <1>6
    <2> HIDE DEF u
    <2>3. CASE i \in P
      <3>1. g[i] = Append(u, s[i])
        BY <1>4, <2>3 DEF u
      <3>2. /\ g[i] \in Seq(Item) /\ Len(u) \in Nat /\ Len(g[i]) = Len(u) + 1
            /\ g[i][Len(u) + 1] = s[i]
            /\ \A j \in 1..Len(u) : g[i][j] = u[j]
        BY <2>1, <2>2, <3>1, JuntaUm
      <3>3. ASSUME NEW x PROVE Mostra(g[i], x) <=> Mostra(u, x) \/ x = s[i]
        <4>1. ASSUME Mostra(g[i], x) PROVE Mostra(u, x) \/ x = s[i]
          <5>1. PICK j \in 1..(Len(u) + 1) : g[i][j] = x
            BY <3>2, <4>1 DEF Mostra
          <5>2. j = Len(u) + 1 \/ j \in 1..Len(u)
            BY <3>2, <5>1
          <5> QED
            BY <3>2, <5>1, <5>2 DEF Mostra
        <4>2. ASSUME Mostra(u, x) PROVE Mostra(g[i], x)
          <5>1. PICK j \in 1..Len(u) : u[j] = x
            BY <4>2 DEF Mostra
          <5>2. j \in 1..Len(g[i]) /\ g[i][j] = x
            BY <3>2, <5>1
          <5> QED
            BY <5>2 DEF Mostra
        <4>3. Mostra(g[i], s[i])
          <5>1. Len(u) + 1 \in 1..Len(g[i])
            BY <3>2
          <5> QED
            BY <3>2, <5>1 DEF Mostra
        <4> QED
          BY <4>1, <4>2, <4>3
      <3>4. \A x : Mostra(g[i], x) <=> \E j \in 1..i : j \in P /\ s[j] = x
        BY <2>1, <2>2, <2>3, <3>3
      <3>5. Len(g[i]) <= i
        BY <2>1, <2>2, <3>2
      <3> QED
        BY <2>1, <3>2, <3>4, <3>5
    <2>4. CASE i \notin P
      <3>1. g[i] = u
        BY <1>4, <2>4 DEF u
      <3>2. Len(u) \in Nat
        BY <2>2
      <3>3. Len(g[i]) <= i
        BY <2>1, <2>2, <3>1, <3>2
      <3>4. \A x : Mostra(g[i], x) <=> \E j \in 1..i : j \in P /\ s[j] = x
        BY <2>1, <2>2, <2>4, <3>1
      <3> QED
        BY <2>1, <2>2, <3>1, <3>3, <3>4
    <2> QED
      BY <2>3, <2>4
  <1> HIDE DEF N
  <1>7. n \in N
    <2>1. \A i \in 1..n : i - 1 \in N => i \in N
      BY <1>6
    <2>2. \A i \in 0..n : i \in N
      BY <1>3, <1>5, <2>1, InducaoAte
    <2> QED
      BY <1>3, <2>2
  <1> QED
    BY <1>1, <1>7 DEF N, n

----------------------------------------------------------------------------
(* What is on screen *)

\* The lists, the stock and the screen in front.
TiposTela ==
    /\ tela \in {"home", "lista"}
    /\ estoque \in Seq(Item)
    /\ items \in Seq(Item)

LEMMA ListaMostra ==
    ASSUME items \in Seq(Item), NEW c, NEW i \in 1..Len(items)
    PROVE  Mostra(Lista(c), items[i])
             <=> Passa(items[i]) /\ (c = vazio \/ items[i].categoria = c)
  <1> DEFINE P == {j \in 1..Len(items) :
                     Passa(items[j]) /\ (c = vazio \/ items[j].categoria = c)}
  <1>1. Lista(c) = Filtra(items, P)
    BY DEF Lista
  <1>2. Mostra(Lista(c), items[i]) <=> \E j \in 1..Len(items) : j \in P /\ items[j] = items[i]
    <2> HIDE DEF P
    <2> QED
      BY <1>1, FiltraMostra
  <1>3. ASSUME NEW j \in P, items[j] = items[i]
        PROVE  Passa(items[i]) /\ (c = vazio \/ items[i].categoria = c)
    BY <1>3 DEF Passa
  <1> QED
    BY <1>2, <1>3

\* A list is empty when nothing passes.
LEMMA ListaVazia ==
    ASSUME items \in Seq(Item), NEW c
    PROVE  Lista(c) # <<>> <=> \E i \in 1..Len(items) : Mostra(Lista(c), items[i])
  <1> DEFINE P == {j \in 1..Len(items) :
                     Passa(items[j]) /\ (c = vazio \/ items[j].categoria = c)}
             u == Filtra(items, P)
  <1>1. Lista(c) = u
    BY DEF Lista
  <1> HIDE DEF P
  <1>2. /\ u \in Seq(Item)
        /\ \A x : Mostra(u, x) <=> \E i \in 1..Len(items) : i \in P /\ items[i] = x
    BY FiltraMostra
  <1> HIDE DEF u
  <1>3. ASSUME u # <<>> PROVE \E i \in 1..Len(items) : Mostra(u, items[i])
    <2>1. 1 \in 1..Len(u)
      BY <1>2, <1>3
    <2>2. Mostra(u, u[1])
      BY <2>1 DEF Mostra
    <2> QED
      BY <1>2, <2>2
  <1>4. ASSUME NEW x, Mostra(u, x) PROVE u # <<>>
    BY <1>4 DEF Mostra
  <1> QED
    BY <1>1, <1>3, <1>4

\* The number of lists of the screen that hold an item.
LEMMA VezesNaTela ==
    ASSUME items \in Seq(Item), NEW i \in 1..Len(items)
    PROVE  Vezes(items[i]) = IF /\ Passa(items[i])
                                /\ listaCategorizada => items[i].categoria # Acentuado
                             THEN 1 ELSE 0
  <1> DEFINE x == items[i]
             G == {g \in 1..Len(NaTela) : Mostra(NaTela[g], x)}
  <1>1. Vezes(x) = Cardinality(G)
    BY DEF Vezes
  <1>2. x.categoria \in CategoriasForm
    <2>1. x \in Item
      BY ElementOfSeq
    <2> QED
      BY <2>1 DEF Item
  <1>3. \A c : Mostra(Lista(c), x) <=> Passa(x) /\ (c = vazio \/ x.categoria = c)
    BY ListaMostra
  <1>4. CASE ~listaCategorizada
    <2>1. Len(NaTela) = 1 /\ NaTela[1] = Lista(vazio)
      BY <1>4 DEF NaTela
    <2>2. G = IF Passa(x) THEN {1} ELSE {}
      BY <1>3, <2>1
    <2> QED
      BY <1>1, <1>4, <2>2, FS_Singleton, FS_EmptySet
  <1>5. CASE listaCategorizada
    <2>1. Len(categorias) = 5
      BY DEF categorias
    <2>2. NaTela = [g \in 1..5 |-> Lista(categorias[g])]
      BY <1>5, <2>1 DEF NaTela
    <2>3. Len(NaTela) = 5 /\ \A g \in 1..5 : NaTela[g] = Lista(categorias[g])
      BY <2>2
    <2>4. G = {g \in 1..5 : Passa(x) /\ x.categoria = categorias[g]}
      <3>1. \A g \in 1..5 : categorias[g] # vazio
        BY DEF categorias, vazio
      <3> QED
        BY <1>3, <2>3, <3>1
    <2>5. \A g \in 1..5 :
             /\ categorias[g] = "Limpeza" <=> g = 1
             /\ categorias[g] = "Medicamento" <=> g = 2
             /\ categorias[g] = "Higiene" <=> g = 3
             /\ categorias[g] = "Alimento" <=> g = 5
             /\ categorias[g] # Acentuado
      BY DEF categorias, Acentuado
    <2> HIDE DEF x, G
    <2>6. CASE ~Passa(x) \/ x.categoria = Acentuado
      <3>1. G = {}
        BY <2>4, <2>5, <2>6
      <3> QED
        BY <1>1, <1>5, <2>6, <3>1, FS_EmptySet DEF x
    <2>7. CASE Passa(x) /\ x.categoria # Acentuado
      <3>1. \E k \in 1..5 : \A g \in 1..5 : x.categoria = categorias[g] <=> g = k
        BY <1>2, <2>5, <2>7 DEF CategoriasForm
      <3>2. PICK k \in 1..5 : G = {k}
        BY <2>4, <2>7, <3>1
      <3> QED
        BY <1>1, <1>5, <2>7, <3>2, FS_Singleton DEF x
    <2> QED
      BY <2>6, <2>7
  <1> QED
    BY <1>4, <1>5

LEMMA TelaMostra == TiposTela => SoUtensilioSome
  <1> SUFFICES ASSUME TiposTela, NEW i \in 1..Len(items)
               PROVE  /\ Vezes(items[i]) =
                            IF /\ Mostra(Lista(vazio), items[i])
                               /\ listaCategorizada => items[i].categoria # Acentuado
                            THEN 1 ELSE 0
                      /\ ~Admin /\ ~items[i].visivel => Vezes(items[i]) = 0
    BY DEF SoUtensilioSome
  <1>1. Mostra(Lista(vazio), items[i]) <=> Passa(items[i])
    BY ListaMostra DEF TiposTela
  <1>2. ~Admin /\ ~items[i].visivel => ~Passa(items[i])
    BY DEF Passa
  <1> QED
    BY <1>1, <1>2, VezesNaTela DEF TiposTela

LEMMA TelaTitulos == TiposTela => TituloComItens
  <1> SUFFICES ASSUME TiposTela, listaCategorizada, NEW g \in 1..Len(categorias)
               PROVE  TemTitulo(categorias[g]) <=> NaTela[g] # <<>>
    BY DEF TituloComItens
  <1> DEFINE c == categorias[g]
  <1>1. NaTela[g] = Lista(c)
    BY DEF NaTela
  <1>2. c # vazio /\ c \in {"Limpeza", "Medicamento", "Higiene", "Utensilio", "Alimento"}
    BY DEF categorias, vazio
  <1>3. \A i \in 1..Len(items) : items[i].categoria \in CategoriasForm
    <2>1. \A i \in 1..Len(items) : items[i] \in Item
      BY ElementOfSeq DEF TiposTela
    <2> QED
      BY <2>1 DEF Item
  <1> HIDE DEF c
  <1>4. Lista(c) # <<>> <=> \E i \in 1..Len(items) : Passa(items[i]) /\ items[i].categoria = c
    BY <1>2, ListaVazia, ListaMostra DEF TiposTela
  \* "Utensilio" is the raw value of no Categorias and the category of no item.
  <1>5. \A i \in 1..Len(items) : items[i].categoria = CategoriaDe(c) <=> items[i].categoria = c
    BY <1>2, <1>3 DEF CategoriaDe, Categorias, CategoriasForm, Acentuado, vazio
  <1> QED
    BY <1>1, <1>4, <1>5 DEF TemTitulo, temItemNaCategoria, c

LEMMA PreviaDentro == TiposTela => PreviaNoEstoque
  <1> SUFFICES ASSUME TiposTela PROVE PreviaNoEstoque
    OBVIOUS
  <1> DEFINE n == Len(ongItens)
             P == {i \in 1..Len(estoque) : Acha(estoque[i], pesquisaHome)}
             q == IF TelaGrande /\ n >= 3 THEN 3 ELSE 2
  <1>1. ongItens = Filtra(estoque, P)
    BY DEF ongItens
  <1>2. Len(estoque) \in Nat /\ estoque \in Seq(Item)
    BY DEF TiposTela
  <1>3. /\ ongItens \in Seq(Item) /\ n <= Len(estoque)
        /\ \A x : Mostra(ongItens, x) <=> \E i \in 1..Len(estoque) : i \in P /\ estoque[i] = x
    <2> HIDE DEF P
    <2> QED
      BY <1>1, <1>2, FiltraMostra
  <1>4. n \in Nat
    BY <1>3
  <1>5. n >= 1 <=> P # {}
    <2>1. ASSUME n >= 1 PROVE P # {}
      <3>1. 1 \in 1..n
        BY <1>4, <2>1
      <3>2. Mostra(ongItens, ongItens[1])
        BY <3>1 DEF Mostra
      <3> QED
        BY <1>3, <3>2
    <2>2. ASSUME NEW i \in P PROVE n >= 1
      <3>1. Mostra(ongItens, estoque[i])
        BY <1>3
      <3>2. PICK j \in 1..n : ongItens[j] = estoque[i]
        BY <3>1 DEF Mostra
      <3> QED
        BY <1>4, <3>2
    <2> QED
      BY <2>1, <2>2
  <1>6. Previa = {i \in 1..(IF n >= q THEN q ELSE 1) : n >= i}
    BY DEF Previa
  <1> HIDE DEF n, P
  <1>7. Previa \subseteq 1..n
    BY <1>4, <1>6
  <1>8. Previa # {} <=> n >= 1
    <2>1. n >= 1 => 1 \in Previa
      BY <1>4, <1>6
    <2>2. \A i \in Previa : n >= 1
      BY <1>4, <1>7
    <2> QED
      BY <2>1, <2>2
  <1>9. Previa \subseteq 1..Len(estoque)
    BY <1>2, <1>3, <1>4, <1>7 DEF n
  <1> QED
    BY <1>5, <1>8, <1>9 DEF PreviaNoEstoque, P

\* What the actions of Filtros leave alone.
LEMMA MudarTela ==
    /\ PublicarLista => tela' = tela
    /\ PublicarHome \/ Redesenhar => tela' = tela /\ items' = <<>>
    /\ AbrirLista => tela = "home" /\ tela' = "lista"
    /\ Voltar => tela' = "home"
  <1>1. PublicarLista => tela' = tela
    BY DEF PublicarLista, ReceberItems, Pesquisar, AbrirFiltros, AlternarCategorias,
           AlternarUrgentes, AplicarFiltros, LimparFiltros
  <1>2. PublicarHome \/ Redesenhar => tela' = tela /\ items' = <<>>
    BY DEF PublicarHome, MudarEstoque, PesquisarHome, Redesenhar, NovaLista
  <1> QED
    BY <1>1, <1>2 DEF AbrirLista, Voltar

LEMMA TelaPasso == TiposTela /\ [NextRotulo]_varsRotulo => TiposTela'
  <1> SUFFICES ASSUME TiposTela, [NextRotulo]_varsRotulo PROVE TiposTela'
    OBVIOUS
  <1>1. CASE UNCHANGED vars
    BY <1>1 DEF vars, home, TiposTela
  <1>2. CASE PublicarLista
    <2>1. estoque' = estoque /\ (items' = items \/ items' = estoque)
      BY <1>2 DEF PublicarLista, ReceberItems, Pesquisar, AbrirFiltros, AlternarCategorias,
                  AlternarUrgentes, AplicarFiltros, LimparFiltros, home
    <2> QED
      BY <1>2, <2>1, MudarTela DEF TiposTela
  <1>3. CASE PublicarHome \/ Redesenhar
    <2>1. estoque' = estoque \/ estoque' \in Estoques
      BY <1>3 DEF PublicarHome, MudarEstoque, PesquisarHome, Redesenhar, home
    <2>2. estoque' \in Seq(Item)
      BY <2>1, FiltrosAssumption DEF TiposTela
    <2>3. <<>> \in Seq(Item)
      OBVIOUS
    <2> QED
      BY <1>3, <2>2, <2>3, MudarTela DEF TiposTela
  <1>4. CASE AbrirLista \/ Voltar
    BY <1>4 DEF AbrirLista, Voltar, home, TiposTela
  <1> QED
    BY <1>1, <1>2, <1>3, <1>4
       DEF NextRotulo, AbrirRotulo, VoltarHome, MudarLista, MudarHome, RelerPerfil, MudarData,
           TerminarData, ResponderData, FalharData, AplicarData, varsRotulo

LEMMA TelaInicio == InitRotulo => TiposTela
  <1>1. <<>> \in Seq(Item)
    OBVIOUS
  <1> QED
    BY <1>1, FiltrosAssumption DEF InitRotulo, Init, TiposTela

LEMMA TelaSempre == SpecRotulo => []TiposTela
  BY TelaInicio, TelaPasso, PTL DEF SpecRotulo

\* Under any search and filter, grouped or not, and however often the home
\* screen rebuilds it, the needs list neither repeats nor loses an item but
\* those of the category whose name is written in two ways, and shows donors
\* nothing that was hidden.
THEOREM SoUtensilioSempreSome == SpecRotulo => []SoUtensilioSome
  BY TelaSempre, TelaMostra, PTL

\* A group has a title exactly when it has items.
THEOREM TituloSempreComItens == SpecRotulo => []TituloComItens
  BY TelaSempre, TelaTitulos, PTL

\* The preview never indexes past the stock, although it counts the items the
\* search found, and it is empty exactly when nothing was found.
THEOREM PreviaSempreNoEstoque == SpecRotulo => []PreviaNoEstoque
  BY TelaSempre, PreviaDentro, PTL

----------------------------------------------------------------------------
(* The date label *)

TiposData ==
    /\ dataServidor \in Nat /\ dataHome \in Nat /\ data \in Nat /\ desenhada \in Nat
    /\ lendo \in Nat
    /\ respostas \in Seq(Nat)
    /\ dataHome <= dataServidor /\ data <= dataServidor /\ desenhada <= dataServidor

\* Dates only grow on the server and answers keep their order, so each answer
\* still waiting is at least as new as what the list holds.
EmOrdemDeData ==
    /\ \A i \in 1..Len(respostas) : data <= respostas[i] /\ respostas[i] <= dataServidor
    /\ \A i, j \in 1..Len(respostas) : i <= j => respostas[i] <= respostas[j]

\* A list on screen shows a date no newer than the one it holds.
RotuloAtras == tela = "lista" => rotulo \in Nat /\ rotulo <= data

\* Each drawing starts a read; the last answer decides.
UltimaConfere ==
    tela = "lista" /\ ~falhou =>
        \/ lendo > 0
        \/ respostas = <<>> /\ data >= desenhada
        \/ respostas # <<>> /\ respostas[Len(respostas)] >= desenhada

DataInv == TiposData /\ EmOrdemDeData /\ RotuloAtras /\ UltimaConfere

LEMMA RespostaMais ==
    ASSUME NEW r \in Seq(Nat), NEW v \in Nat
    PROVE  /\ Append(r, v) \in Seq(Nat) /\ Append(r, v) # <<>>
           /\ Len(r) \in Nat /\ Len(Append(r, v)) = Len(r) + 1
           /\ Append(r, v)[Len(r) + 1] = v
           /\ \A i \in 1..Len(r) : Append(r, v)[i] = r[i] /\ r[i] \in Nat
  OBVIOUS

LEMMA RespostaResto ==
    ASSUME NEW r \in Seq(Nat), r # <<>>
    PROVE  /\ Tail(r) \in Seq(Nat) /\ Head(r) = r[1]
           /\ Len(r) \in Nat /\ Len(r) >= 1 /\ Len(Tail(r)) = Len(r) - 1
           /\ \A i \in 1..(Len(r) - 1) : Tail(r)[i] = r[i + 1]
           /\ \A i \in 1..Len(r) : r[i] \in Nat
           /\ Tail(r) = <<>> <=> Len(r) = 1
  <1>1. \A i \in 1..Len(r) : r[i] \in Nat
    BY ElementOfSeq
  <1>2. /\ Tail(r) \in Seq(Nat) /\ Head(r) = r[1]
        /\ Len(r) \in Nat /\ Len(r) >= 1 /\ Len(Tail(r)) = Len(r) - 1
        /\ \A i \in 1..(Len(r) - 1) : Tail(r)[i] = r[i + 1]
    BY HeadTailProperties
  <1>3. Tail(r) = <<>> <=> Len(Tail(r)) = 0
    BY <1>2, EmptySeq
  <1> QED
    BY <1>1, <1>2, <1>3

LEMMA DataInicio == InitRotulo => DataInv
  <1> SUFFICES ASSUME InitRotulo PROVE DataInv
    OBVIOUS
  <1>1. respostas = <<>> /\ Len(respostas) = 0
    BY DEF InitRotulo
  <1>2. TiposData
    BY DEF InitRotulo, TiposData
  <1>3. EmOrdemDeData
    BY <1>1 DEF EmOrdemDeData
  <1>4. RotuloAtras /\ UltimaConfere
    BY DEF InitRotulo, Init, RotuloAtras, UltimaConfere
  <1> QED
    BY <1>2, <1>3, <1>4 DEF DataInv

\* The list is drawn with the date it holds and with one read more.
LEMMA DataDesenhar ==
    ASSUME DataInv, Desenhar(data, lendo),
           UNCHANGED <<dataServidor, dataHome, data, respostas>>
    PROVE  DataInv'
  <1>1. /\ rotulo' = data /\ lendo' = lendo + 1
        /\ desenhada' = dataServidor
    BY DEF Desenhar
  <1>2. TiposData'
    BY <1>1 DEF DataInv, TiposData
  <1>3. EmOrdemDeData'
    BY DEF DataInv, EmOrdemDeData
  <1>4. lendo' > 0 /\ data \in Nat /\ data <= data
    BY <1>1 DEF DataInv, TiposData
  <1>5. RotuloAtras'
    BY <1>1, <1>4 DEF RotuloAtras
  <1>6. UltimaConfere'
    BY <1>4 DEF UltimaConfere
  <1> QED
    BY <1>2, <1>3, <1>5, <1>6 DEF DataInv

\* The list is built again, from a date that home has.
LEMMA DataNova ==
    ASSUME DataInv, NEW d \in Nat, d <= dataServidor, ListaNova(d), tela' = tela,
           dataServidor' = dataServidor, dataHome' = dataHome \/ dataHome' = d,
           tela \in {"home", "lista"}
    PROVE  DataInv'
  <1>1. data' = d /\ respostas' = <<>> /\ Len(respostas') = 0
    BY DEF ListaNova
  <1>2. lendo' \in Nat /\ (desenhada' = dataServidor \/ desenhada' = desenhada)
    BY DEF ListaNova, Desenhar
  <1>3. TiposData'
    <2>1. respostas' \in Seq(Nat)
      BY <1>1
    <2> QED
      BY <1>1, <1>2, <2>1 DEF DataInv, TiposData
  <1>4. EmOrdemDeData'
    BY <1>1 DEF EmOrdemDeData
  <1>5. CASE tela = "lista"
    <2>1. rotulo' = d /\ lendo' > 0
      BY <1>5 DEF ListaNova, Desenhar
    <2> QED
      BY <1>1, <1>3, <1>4, <2>1 DEF DataInv, RotuloAtras, UltimaConfere
  <1>6. CASE tela = "home"
    BY <1>3, <1>4, <1>6 DEF DataInv, RotuloAtras, UltimaConfere
  <1> QED
    BY <1>5, <1>6

LEMMA DataResponder ==
    ASSUME DataInv, ResponderData
    PROVE  DataInv'
  <1>1. /\ lendo' = lendo - 1 /\ lendo > 0 /\ respostas' = Append(respostas, dataServidor)
        /\ UNCHANGED <<tela, dataServidor, dataHome, data, rotulo, desenhada, falhou>>
    BY DEF ResponderData, vars, firestore
  <1>2. /\ dataServidor \in Nat /\ data \in Nat /\ desenhada \in Nat
        /\ data <= dataServidor /\ desenhada <= dataServidor /\ respostas \in Seq(Nat)
    BY DEF DataInv, TiposData
  <1>3. /\ respostas' \in Seq(Nat) /\ respostas' # <<>>
        /\ Len(respostas) \in Nat /\ Len(respostas') = Len(respostas) + 1
        /\ respostas'[Len(respostas) + 1] = dataServidor
        /\ \A i \in 1..Len(respostas) : respostas'[i] = respostas[i] /\ respostas[i] \in Nat
    BY <1>1, <1>2, RespostaMais
  <1>4. TiposData'
    BY <1>1, <1>3 DEF DataInv, TiposData
  <1>5. \A i \in 1..Len(respostas') : i \in 1..Len(respostas) \/ i = Len(respostas) + 1
    BY <1>3
  <1>6. EmOrdemDeData'
    <2>1. \A i \in 1..Len(respostas') : data <= respostas'[i] /\ respostas'[i] <= dataServidor
      BY <1>2, <1>3, <1>5 DEF DataInv, EmOrdemDeData
    <2>2. ASSUME NEW i \in 1..Len(respostas'), NEW j \in 1..Len(respostas'), i <= j
          PROVE  respostas'[i] <= respostas'[j]
      <3>1. CASE j = Len(respostas) + 1
        BY <1>3, <2>1, <3>1
      <3>2. CASE j \in 1..Len(respostas)
        <4>1. i \in 1..Len(respostas)
          BY <1>3, <2>2, <3>2
        <4> QED
          BY <1>3, <2>2, <3>2, <4>1 DEF DataInv, EmOrdemDeData
      <3> QED
        BY <1>5, <3>1, <3>2
    <2> QED
      BY <1>1, <2>1, <2>2 DEF EmOrdemDeData
  <1>7. RotuloAtras' /\ UltimaConfere'
    BY <1>1, <1>2, <1>3 DEF DataInv, RotuloAtras, UltimaConfere
  <1> QED
    BY <1>4, <1>6, <1>7 DEF DataInv

LEMMA DataAplicar ==
    ASSUME DataInv, AplicarData
    PROVE  DataInv'
  <1>1. /\ respostas # <<>> /\ data' = Head(respostas) /\ respostas' = Tail(respostas)
        /\ UNCHANGED <<tela, dataServidor, dataHome, rotulo, lendo, desenhada, falhou>>
    BY DEF AplicarData, vars, firestore
  <1>2. respostas \in Seq(Nat)
    BY DEF DataInv, TiposData
  <1>3. /\ respostas' \in Seq(Nat) /\ data' = respostas[1]
        /\ Len(respostas) \in Nat /\ Len(respostas) >= 1 /\ Len(respostas') = Len(respostas) - 1
        /\ \A i \in 1..(Len(respostas) - 1) : respostas'[i] = respostas[i + 1]
        /\ \A i \in 1..Len(respostas) : respostas[i] \in Nat
        /\ respostas' = <<>> <=> Len(respostas) = 1
    BY <1>1, <1>2, RespostaResto
  <1>4. 1 \in 1..Len(respostas) /\ data' \in Nat /\ data <= data' /\ data' <= dataServidor
    BY <1>3 DEF DataInv, EmOrdemDeData
  <1>5. \A i \in 1..Len(respostas') : i + 1 \in 1..Len(respostas) /\ respostas'[i] = respostas[i + 1]
    BY <1>3
  <1>6. TiposData'
    BY <1>1, <1>3, <1>4 DEF DataInv, TiposData
  <1>7. EmOrdemDeData'
    <2>1. \A i \in 1..Len(respostas') : data' <= respostas'[i] /\ respostas'[i] <= dataServidor
      BY <1>3, <1>4, <1>5 DEF DataInv, EmOrdemDeData
    <2>2. ASSUME NEW i \in 1..Len(respostas'), NEW j \in 1..Len(respostas'), i <= j
          PROVE  respostas'[i] <= respostas'[j]
      <3>1. /\ i + 1 \in 1..Len(respostas) /\ respostas'[i] = respostas[i + 1]
            /\ j + 1 \in 1..Len(respostas) /\ respostas'[j] = respostas[j + 1]
        BY <1>5
      <3>2. i + 1 <= j + 1
        BY <2>2
      <3>3. respostas[i + 1] <= respostas[j + 1]
        BY <3>1, <3>2 DEF DataInv, EmOrdemDeData
      <3> QED
        BY <3>1, <3>3
    <2> QED
      BY <1>1, <2>1, <2>2 DEF EmOrdemDeData
  <1>8. RotuloAtras'
    BY <1>1, <1>4 DEF DataInv, RotuloAtras, TiposData
  \* The last answer stays the last, or is now the date the list holds.
  <1>9. UltimaConfere'
    <2>1. CASE Len(respostas) = 1
      BY <1>1, <1>3, <2>1 DEF DataInv, UltimaConfere
    <2>2. CASE Len(respostas) # 1
      <3>1. Len(respostas') \in 1..(Len(respostas) - 1) /\ Len(respostas') + 1 = Len(respostas)
        BY <1>3, <2>2
      <3>2. respostas'[Len(respostas')] = respostas[Len(respostas)]
        BY <1>3, <3>1
      <3> QED
        BY <1>1, <1>3, <2>2, <3>2 DEF DataInv, UltimaConfere
    <2> QED
      BY <2>1, <2>2
  <1> QED
    BY <1>6, <1>7, <1>8, <1>9 DEF DataInv

LEMMA DataPasso == TiposTela /\ DataInv /\ [NextRotulo]_varsRotulo => DataInv'
  <1> SUFFICES ASSUME TiposTela, DataInv, [NextRotulo]_varsRotulo PROVE DataInv'
    OBVIOUS
  <1>0. tela \in {"home", "lista"}
    BY DEF TiposTela
  <1>1. ASSUME UNCHANGED <<dataServidor, dataHome, data, rotulo, lendo, respostas, desenhada>>,
               tela' = "home" \/ (tela' = tela /\ (falhou' = falhou \/ falhou'))
        PROVE  DataInv'
    <2>1. TiposData' /\ EmOrdemDeData'
      BY <1>1 DEF DataInv, TiposData, EmOrdemDeData
    <2>2. RotuloAtras' /\ UltimaConfere'
      BY <1>1 DEF DataInv, RotuloAtras, UltimaConfere
    <2> QED
      BY <2>1, <2>2 DEF DataInv
  <1>2. CASE UNCHANGED varsRotulo
    BY <1>1, <1>2 DEF varsRotulo, vars, firestore, leituras
  <1>3. CASE AbrirRotulo
    BY <1>3, DataDesenhar DEF AbrirRotulo, firestore
  <1>4. CASE VoltarHome
    <2>1. tela' = "home" /\ UNCHANGED <<dataServidor, dataHome, data, lendo, respostas, desenhada>>
      BY <1>4, MudarTela DEF VoltarHome, firestore, leituras
    <2>2. TiposData' /\ EmOrdemDeData'
      BY <2>1 DEF DataInv, TiposData, EmOrdemDeData
    <2> QED
      BY <2>1, <2>2 DEF DataInv, RotuloAtras, UltimaConfere
  <1>5. CASE MudarLista
    <2>1. tela' = tela /\ UNCHANGED <<dataServidor, dataHome, data, respostas>>
      BY <1>5, MudarTela DEF MudarLista, firestore
    <2>2. CASE tela = "lista"
      BY <1>5, <2>1, <2>2, DataDesenhar DEF MudarLista
    <2>3. CASE tela # "lista"
      BY <1>1, <1>5, <2>1, <2>3 DEF MudarLista, Desenhada
    <2> QED
      BY <2>2, <2>3
  <1>6. CASE MudarHome
    <2>1. tela' = tela /\ ListaNova(dataHome) /\ UNCHANGED <<dataServidor, dataHome>>
      BY <1>6, MudarTela DEF MudarHome
    <2>2. dataHome \in Nat /\ dataHome <= dataServidor
      BY DEF DataInv, TiposData
    <2> QED
      BY <1>0, <2>1, <2>2, DataNova
  <1>7. CASE RelerPerfil
    <2>1. /\ tela' = tela /\ ListaNova(dataServidor)
          /\ dataServidor' = dataServidor /\ dataHome' = dataServidor
      BY <1>7, MudarTela DEF RelerPerfil
    <2>2. dataServidor \in Nat /\ dataServidor <= dataServidor
      BY DEF DataInv, TiposData
    <2> QED
      BY <1>0, <2>1, <2>2, DataNova
  <1>8. CASE MudarData
    <2>1. /\ dataServidor' = dataServidor + 1
          /\ UNCHANGED <<tela, dataHome, data, rotulo, lendo, respostas, desenhada, falhou>>
      BY <1>8 DEF MudarData, vars, leituras
    <2>2. TiposData'
      BY <2>1 DEF DataInv, TiposData
    <2>3. \A i \in 1..Len(respostas) : respostas[i] \in Nat
      BY ElementOfSeq DEF DataInv, TiposData
    <2>4. EmOrdemDeData'
      BY <2>1, <2>3 DEF DataInv, TiposData, EmOrdemDeData
    <2> QED
      BY <2>1, <2>2, <2>4 DEF DataInv, RotuloAtras, UltimaConfere
  <1>9. CASE ResponderData
    BY <1>9, DataResponder
  <1>10. CASE FalharData
    <2>1. /\ lendo' = lendo - 1 /\ lendo > 0 /\ falhou'
          /\ UNCHANGED <<tela, dataServidor, dataHome, data, rotulo, respostas, desenhada>>
      BY <1>10 DEF FalharData, vars, firestore
    <2>2. TiposData' /\ EmOrdemDeData'
      BY <2>1 DEF DataInv, TiposData, EmOrdemDeData
    <2> QED
      BY <2>1, <2>2 DEF DataInv, RotuloAtras, UltimaConfere
  <1>11. CASE AplicarData
    BY <1>11, DataAplicar
  <1> QED
    BY <1>2, <1>3, <1>4, <1>5, <1>6, <1>7, <1>8, <1>9, <1>10, <1>11
       DEF NextRotulo, TerminarData

LEMMA DataSempre == SpecRotulo => []DataInv
  BY TelaInicio, TelaPasso, DataInicio, DataPasso, PTL DEF SpecRotulo

\* With no read under way the list holds a date at least as new as the one
\* stored when it was last drawn, unless a read failed.
THEOREM DataSempreConferida == SpecRotulo => []DataConferida
  <1>1. DataInv => DataConferida
    BY DEF DataInv, UltimaConfere, DataConferida, TiposData
  <1> QED
    BY <1>1, DataSempre, PTL

\* The date on screen goes back only when the home screen rebuilds the list,
\* to home's copy of the date and over an empty list.
THEOREM RotuloNuncaVoltaSozinho == SpecRotulo => RotuloSoVoltaRefeito
  <1> DEFINE Volta == tela = "lista" /\ tela' = "lista" /\ rotulo' < rotulo
                        => rotulo' = dataHome' /\ items' = <<>>
  <1>1. ASSUME DataInv, [NextRotulo]_varsRotulo PROVE [Volta]_varsRotulo
    <2> SUFFICES ASSUME NextRotulo, tela = "lista", tela' = "lista", rotulo' < rotulo
                 PROVE  rotulo' = dataHome' /\ items' = <<>>
      BY <1>1
    <2>1. rotulo \in Nat /\ data \in Nat /\ rotulo <= data
      BY <1>1 DEF DataInv, RotuloAtras, TiposData
    <2>2. rotulo' # rotulo /\ rotulo' # data
      BY <2>1
    <2>3. CASE MudarHome \/ RelerPerfil
      BY <2>3, MudarTela DEF MudarHome, RelerPerfil, ListaNova, Desenhar
    <2>4. CASE AbrirRotulo \/ VoltarHome
      BY <2>4, MudarTela DEF AbrirRotulo, VoltarHome
    <2>5. CASE MudarLista
      BY <2>2, <2>5 DEF MudarLista, Desenhar
    <2>6. CASE MudarData \/ TerminarData \/ AplicarData
      BY <2>2, <2>6 DEF MudarData, TerminarData, ResponderData, FalharData, AplicarData
    <2> QED
      BY <2>3, <2>4, <2>5, <2>6 DEF NextRotulo
  <1> QED
    BY <1>1, DataSempre, PTL DEF SpecRotulo, RotuloSoVoltaRefeito
=============================================================================
