--------------------------- MODULE OngHomeProofs ---------------------------
(***************************************************************************)
(* Proofs about OngHome, for any documents, profiles, photos and bounds.   *)
(***************************************************************************)
EXTENDS OngHome, Inducao, SequenceTheorems, TLAPS

----------------------------------------------------------------------------
(* Lists made in key order *)

LEMMA EmOrdemEnumera ==
    ASSUME NEW S, S \subseteq Nat, IsFiniteSet(S)
    PROVE  /\ Cardinality(S) \in Nat
           /\ EmOrdem(S) \in [1..Cardinality(S) -> S]
           /\ \A i, j \in 1..Cardinality(S) : EmOrdem(S)[i] = EmOrdem(S)[j] => i = j
           /\ \A k \in S : \E i \in 1..Cardinality(S) : EmOrdem(S)[i] = k
  <1> DEFINE n == Cardinality(S)
             f == EmOrdem(S)
  <1>1. n \in Nat
    BY FS_CardinalityType
  <1>2. f \in [1..n -> S] /\ \A i, j \in 1..n : i < j => f[i] < f[j]
    BY OrdemExiste DEF EmOrdem
  <1> HIDE DEF f
  <1>3. ASSUME NEW i \in 1..n, NEW j \in 1..n, f[i] = f[j] PROVE i = j
    <2>1. f[i] \in Nat
      BY <1>2
    <2>2. ~(f[i] < f[j]) /\ ~(f[j] < f[i])
      BY <1>3, <2>1
    <2>3. ~(i < j) /\ ~(j < i)
      BY <1>2, <2>2
    <2> QED
      BY <1>1, <2>3
  <1>4. f \in Injection(1..n, S)
    BY <1>2, <1>3 DEF Injection, IsInjective
  <1>5. Cardinality(1..n) = n
    BY <1>1, FS_Interval
  <1>6. f \in Surjection(1..n, S)
    BY <1>4, <1>5, FS_Injection
  <1>7. \A k \in S : \E i \in 1..n : f[i] = k
    BY <1>6 DEF Surjection
  <1> QED
    BY <1>1, <1>2, <1>3, <1>7 DEF f

LEMMA IdsFinitos ==
    ASSUME NEW S \in SUBSET Ids
    PROVE  S \subseteq Nat /\ IsFiniteSet(S)
  BY OngHomeAssumption, FS_Subset

LEMMA ItensEnumera ==
    ASSUME NEW S \in SUBSET Ids, NEW p \in Docs, \A k \in S : p[k] # Ausente
    PROVE  /\ Itens(S, p) \in Seq(Item)
           /\ \A i \in 1..Len(Itens(S, p)) :
                 Itens(S, p)[i].id \in S /\ Itens(S, p)[i].dados = p[Itens(S, p)[i].id]
           /\ \A i, j \in 1..Len(Itens(S, p)) : Itens(S, p)[i].id = Itens(S, p)[j].id => i = j
           /\ \A k \in S : \E i \in 1..Len(Itens(S, p)) : Itens(S, p)[i].id = k
  <1> DEFINE n == Cardinality(S)
             f == EmOrdem(S)
             s == Itens(S, p)
  <1>1. /\ n \in Nat /\ f \in [1..n -> S]
        /\ \A i, j \in 1..n : f[i] = f[j] => i = j
        /\ \A k \in S : \E i \in 1..n : f[i] = k
    BY IdsFinitos, EmOrdemEnumera
  <1>2. s = [i \in 1..n |-> [id |-> f[i], dados |-> p[f[i]]]]
    BY DEF Itens
  <1> HIDE DEF n, f, s
  <1>3. \A i \in 1..n : f[i] \in Ids /\ p[f[i]] \in Conteudo
    BY <1>1 DEF Docs
  <1>4. \A i \in 1..n : s[i] \in Item /\ s[i].id = f[i] /\ s[i].dados = p[f[i]]
    BY <1>2, <1>3 DEF Item
  <1>5. s \in [1..n -> Item]
    BY <1>2, <1>4
  <1>6. s \in Seq(Item) /\ Len(s) = n
    BY <1>1, <1>5
  <1> QED
    BY <1>1, <1>4, <1>6 DEF s

----------------------------------------------------------------------------
(* What a snapshot does to the list *)

LEMMA PrimeiraPosicao ==
    ASSUME NEW s \in Seq(Item), NEW k, Posicoes(s, k) # {}
    PROVE  Primeira(s, k) \in 1..Len(s) /\ s[Primeira(s, k)].id = k
  <1>1. Posicoes(s, k) \subseteq Nat
    BY DEF Posicoes
  <1>2. \E i \in Posicoes(s, k) : \A j \in Posicoes(s, k) : i <= j
    BY <1>1, MenorNatural
  <1>3. Primeira(s, k) \in Posicoes(s, k)
    BY <1>2 DEF Primeira
  <1> QED
    BY <1>3 DEF Posicoes

\* The elements that stay, and the place g that each had.
LEMMA SemRemovidosFicam ==
    ASSUME NEW s \in Seq(Item), NEW R
    PROVE  LET u == SemRemovidos(s, R)
               F == {Primeira(s, k) : k \in R}
           IN  /\ u \in Seq(Item)
               /\ \E g \in [1..Len(u) -> (1..Len(s)) \ F] :
                     /\ \A i \in 1..Len(u) : u[i] = s[g[i]]
                     /\ \A i, j \in 1..Len(u) : g[i] = g[j] => i = j
                     /\ \A j \in (1..Len(s)) \ F : \E i \in 1..Len(u) : g[i] = j
  <1> DEFINE u == SemRemovidos(s, R)
             F == {Primeira(s, k) : k \in R}
             P == (1..Len(s)) \ F
             n == Cardinality(P)
             g == EmOrdem(P)
  <1>1. Len(s) \in Nat /\ P \subseteq Nat
    OBVIOUS
  <1>2. IsFiniteSet(P)
    <2>1. IsFiniteSet(1..Len(s)) /\ P \in SUBSET (1..Len(s))
      BY <1>1, FS_Interval
    <2> QED
      BY <2>1, FS_Subset
  <1> HIDE DEF P
  <1>3. /\ n \in Nat /\ g \in [1..n -> P]
        /\ \A i, j \in 1..n : g[i] = g[j] => i = j
        /\ \A k \in P : \E i \in 1..n : g[i] = k
    BY <1>1, <1>2, EmOrdemEnumera
  <1>4. u = [i \in 1..Len(g) |-> s[g[i]]]
    BY DEF SemRemovidos, P
  <1> HIDE DEF n, g, u
  <1>5. Len(g) = n
    BY <1>3
  <1>6. P \subseteq 1..Len(s)
    BY DEF P
  <1>7. \A i \in 1..n : s[g[i]] \in Item
    <2>1. \A j \in 1..Len(s) : s[j] \in Item
      BY ElementOfSeq
    <2>2. \A i \in 1..n : g[i] \in 1..Len(s)
      BY <1>3, <1>6
    <2> QED
      BY <2>1, <2>2
  <1>8. u \in [1..n -> Item]
    BY <1>4, <1>5, <1>7
  <1>9. u \in Seq(Item) /\ Len(u) = n
    BY <1>3, <1>8
  <1>10. \A i \in 1..n : u[i] = s[g[i]]
    BY <1>4, <1>5
  <1> QED
    BY <1>3, <1>9, <1>10 DEF P, u

LEMMA ComModificadosItens ==
    ASSUME NEW s \in Seq(Item), NEW de \in Docs, NEW para \in Docs
    PROVE  LET v == ComModificados(s, de, para)
           IN  /\ v \in Seq(Item) /\ Len(v) = Len(s)
               /\ \A i \in 1..Len(s) :
                     /\ v[i].id = s[i].id
                     /\ v[i].dados = IF /\ s[i].id \in Presentes(de) \cap Presentes(para)
                                        /\ de[s[i].id] # para[s[i].id]
                                     THEN para[s[i].id] ELSE s[i].dados
  <1> DEFINE v == ComModificados(s, de, para)
  <1>1. Len(s) \in Nat /\ \A i \in 1..Len(s) : s[i] \in Item
    BY ElementOfSeq
  <1>2. ASSUME NEW i \in 1..Len(s)
        PROVE  /\ v[i] \in Item /\ v[i].id = s[i].id
               /\ v[i].dados = IF /\ s[i].id \in Presentes(de) \cap Presentes(para)
                                  /\ de[s[i].id] # para[s[i].id]
                               THEN para[s[i].id] ELSE s[i].dados
    <2>1. CASE s[i].id \in Presentes(de) \cap Presentes(para) /\ de[s[i].id] # para[s[i].id]
      <3>1. v[i] = [s[i] EXCEPT !.dados = para[s[i].id]]
        BY <2>1 DEF ComModificados
      <3>2. para[s[i].id] \in Conteudo
        BY <2>1 DEF Presentes, Docs
      <3> QED
        BY <1>1, <2>1, <3>1, <3>2 DEF Item
    <2>2. CASE ~(s[i].id \in Presentes(de) \cap Presentes(para)
                 /\ de[s[i].id] # para[s[i].id])
      BY <1>1, <2>2 DEF ComModificados
    <2> QED
      BY <2>1, <2>2
  <1>3. v \in [1..Len(s) -> Item]
    BY <1>2 DEF ComModificados
  <1> HIDE DEF v
  <1>4. v \in Seq(Item) /\ Len(v) = Len(s)
    BY <1>1, <1>3
  <1> QED
    BY <1>2, <1>4 DEF v

LEMMA JuntaItens ==
    ASSUME NEW p \in Seq(Item), NEW q \in Seq(Item)
    PROVE  /\ p \o q \in Seq(Item)
           /\ Len(p) \in Nat /\ Len(q) \in Nat
           /\ Len(p \o q) = Len(p) + Len(q)
           /\ \A i \in 1..Len(p) : (p \o q)[i] = p[i]
           /\ \A i \in 1..Len(q) : (p \o q)[Len(p) + i] = q[i]
  OBVIOUS

LEMMA MudancasTipo ==
    ASSUME NEW s \in Seq(Item), NEW de \in Docs, NEW para \in Docs
    PROVE  Mudancas(s, de, para) \in Seq(Item)
  <1> DEFINE u == SemRemovidos(s, Removidos(de, para))
             v == ComModificados(u, de, para)
             w == Itens(Presentes(para) \ Presentes(de), para)
  <1>1. u \in Seq(Item)
    BY SemRemovidosFicam
  <1> HIDE DEF u
  <1>2. v \in Seq(Item)
    BY <1>1, ComModificadosItens
  <1>3. w \in Seq(Item)
    BY ItensEnumera DEF Presentes
  <1> HIDE DEF v, w
  <1>4. v \o w \in Seq(Item)
    BY <1>2, <1>3, JuntaItens
  <1> QED
    BY <1>4 DEF Mudancas, u, v, w

\* A list that shows the view `de` shows the view `para` once the listener has
\* been through the changes between them.
LEMMA MudancasEnumera ==
    ASSUME NEW s \in Seq(Item), NEW de \in Docs, NEW para \in Docs, Enumera(s, de)
    PROVE  Enumera(Mudancas(s, de, para), para)
  <1> DEFINE R == Removidos(de, para)
             F == {Primeira(s, k) : k \in R}
             u == SemRemovidos(s, R)
             v == ComModificados(u, de, para)
             A == Presentes(para) \ Presentes(de)
             w == Itens(A, para)
  <1>1. /\ \A i \in 1..Len(s) : s[i] \in Item /\ de[s[i].id] = s[i].dados
        /\ \A i, j \in 1..Len(s) : s[i].id = s[j].id => i = j
        /\ \A k \in Ids : de[k] # Ausente => \E i \in 1..Len(s) : s[i].id = k
    BY ElementOfSeq DEF Enumera
  <1>2. u \in Seq(Item)
    BY SemRemovidosFicam
  <1>3. PICK g \in [1..Len(u) -> (1..Len(s)) \ F] :
           /\ \A i \in 1..Len(u) : u[i] = s[g[i]]
           /\ \A i, j \in 1..Len(u) : g[i] = g[j] => i = j
           /\ \A j \in (1..Len(s)) \ F : \E i \in 1..Len(u) : g[i] = j
    BY SemRemovidosFicam
  <1>4. ASSUME NEW k \in R
        PROVE  Primeira(s, k) \in 1..Len(s) /\ s[Primeira(s, k)].id = k
    <2>1. k \in Ids /\ de[k] # Ausente
      BY DEF Removidos, Presentes
    <2>2. Posicoes(s, k) # {}
      BY <1>1, <2>1 DEF Posicoes
    <2> QED
      BY <2>2, PrimeiraPosicao
  \* What stays is in both views.
  <1>5. ASSUME NEW i \in 1..Len(u)
        PROVE  /\ u[i].id \in Presentes(de) \cap Presentes(para)
               /\ u[i].dados = de[u[i].id]
    <2>1. g[i] \in 1..Len(s) /\ g[i] \notin F /\ u[i] = s[g[i]]
      BY <1>3
    <2>2. u[i].id \in Ids /\ u[i].dados \in Conteudo /\ u[i].dados = de[u[i].id]
      BY <1>1, <2>1 DEF Item
    <2>3. u[i].id \in Presentes(de)
      BY <2>2, OngHomeAssumption DEF Presentes
    <2>4. u[i].id \notin R
      BY <1>1, <1>4, <2>1
    <2> QED
      BY <2>2, <2>3, <2>4 DEF Removidos, Presentes
  <1>6. ASSUME NEW k \in Presentes(de) \cap Presentes(para)
        PROVE  \E i \in 1..Len(u) : u[i].id = k
    <2>1. PICK j \in 1..Len(s) : s[j].id = k
      BY <1>1 DEF Presentes
    <2>2. k \notin R
      BY DEF Removidos
    <2>3. j \notin F
      BY <1>4, <2>1, <2>2
    <2> QED
      BY <1>3, <2>1, <2>3
  <1>7. \A i, j \in 1..Len(u) : u[i].id = u[j].id => i = j
    BY <1>1, <1>3
  <1> HIDE DEF u, R, F
  <1>8. /\ v \in Seq(Item) /\ Len(v) = Len(u)
        /\ \A i \in 1..Len(u) :
              /\ v[i].id = u[i].id
              /\ v[i].dados = IF /\ u[i].id \in Presentes(de) \cap Presentes(para)
                                 /\ de[u[i].id] # para[u[i].id]
                              THEN para[u[i].id] ELSE u[i].dados
    BY <1>2, ComModificadosItens
  <1>9. \A i \in 1..Len(u) : v[i].dados = para[v[i].id]
    BY <1>5, <1>8
  <1>10. A \in SUBSET Ids /\ \A k \in A : para[k] # Ausente
    BY DEF Presentes
  <1>11. A \cap Presentes(de) = {} /\ \A k \in Ids : para[k] # Ausente =>
            k \in A \/ k \in Presentes(de) \cap Presentes(para)
    BY DEF Presentes
  <1> HIDE DEF A
  <1>12. /\ w \in Seq(Item)
         /\ \A i \in 1..Len(w) : w[i].id \in A /\ w[i].dados = para[w[i].id]
         /\ \A i, j \in 1..Len(w) : w[i].id = w[j].id => i = j
         /\ \A k \in A : \E i \in 1..Len(w) : w[i].id = k
    BY <1>10, ItensEnumera
  <1> DEFINE z == v \o w
  <1>13. v \in Seq(Item) /\ w \in Seq(Item)
    BY <1>8, <1>12
  <1> HIDE DEF v, w
  <1>14. /\ Len(v) \in Nat /\ Len(w) \in Nat /\ Len(z) = Len(v) + Len(w)
         /\ \A i \in 1..Len(v) : z[i] = v[i]
         /\ \A i \in 1..Len(w) : z[Len(v) + i] = w[i]
    BY <1>13, JuntaItens
  <1> HIDE DEF z
  \* Every place of the new list is one of v or one of w.
  <1>15. ASSUME NEW i \in 1..Len(z)
         PROVE  \/ i \in 1..Len(v) /\ z[i] = v[i] /\ v[i].id \in Presentes(de)
                \/ \E j \in 1..Len(w) : i = Len(v) + j /\ z[i] = w[j] /\ w[j].id \in A
    <2>1. CASE i <= Len(v)
      <3>1. i \in 1..Len(v)
        BY <1>14, <2>1
      <3> QED
        BY <1>5, <1>8, <1>14, <3>1
    <2>2. CASE i > Len(v)
      <3>1. i - Len(v) \in 1..Len(w) /\ i = Len(v) + (i - Len(v))
        BY <1>14, <2>2
      <3> QED
        BY <1>12, <1>14, <3>1
    <2> QED
      BY <1>14, <2>1, <2>2
  <1>16. ASSUME NEW i \in 1..Len(z) PROVE para[z[i].id] = z[i].dados
    <2>1. CASE i \in 1..Len(v) /\ z[i] = v[i]
      BY <1>8, <1>9, <2>1
    <2>2. CASE \E j \in 1..Len(w) : z[i] = w[j]
      BY <1>12, <2>2
    <2> QED
      BY <1>15, <2>1, <2>2
  <1>17. ASSUME NEW i \in 1..Len(z), NEW j \in 1..Len(z), z[i].id = z[j].id
         PROVE  i = j
    <2>1. CASE z[i].id \in Presentes(de)
      <3>1. i \in 1..Len(v) /\ z[i] = v[i] /\ j \in 1..Len(v) /\ z[j] = v[j]
        BY <1>11, <1>15, <1>17, <2>1
      <3> QED
        BY <1>7, <1>8, <1>17, <3>1
    <2>2. CASE z[i].id \notin Presentes(de)
      <3>1. PICK a \in 1..Len(w) : i = Len(v) + a /\ z[i] = w[a]
        BY <1>15, <2>2
      <3>2. PICK b \in 1..Len(w) : j = Len(v) + b /\ z[j] = w[b]
        BY <1>15, <1>17, <2>2
      <3>3. a = b
        BY <1>12, <1>17, <3>1, <3>2
      <3> QED
        BY <3>1, <3>2, <3>3
    <2> QED
      BY <2>1, <2>2
  <1>18. ASSUME NEW k \in Ids, para[k] # Ausente PROVE \E i \in 1..Len(z) : z[i].id = k
    <2>1. CASE k \in Presentes(de) \cap Presentes(para)
      <3>1. PICK i \in 1..Len(u) : u[i].id = k
        BY <1>6, <2>1
      <3>2. i \in 1..Len(z) /\ z[i].id = k
        BY <1>8, <1>14, <3>1
      <3> QED
        BY <3>2
    <2>2. CASE k \in A
      <3>1. PICK j \in 1..Len(w) : w[j].id = k
        BY <1>12, <2>2
      <3>2. Len(v) + j \in 1..Len(z) /\ z[Len(v) + j].id = k
        BY <1>14, <3>1
      <3> QED
        BY <3>2
    <2> QED
      BY <1>11, <1>18, <2>1, <2>2
  <1>19. Enumera(z, para)
    BY <1>16, <1>17, <1>18 DEF Enumera
  <1> QED
    BY <1>19 DEF Mudancas, u, v, w, z, R, A

----------------------------------------------------------------------------
(* Type correctness *)

LEMMA EventoCampos ==
    ASSUME NEW e \in Evento
    PROVE  /\ e.tipo \in {"snapshot", "getItems", "aplicar"} => e.docs \in Docs
           /\ e.tipo = "ong" => e.modo \in Modos /\ e.perfil \in Perfis
           /\ e.tipo = "imagem" => e.foto \in Fotos
  BY DEF Evento

LEMMA FilaCabeca ==
    ASSUME TypeOK, fila # <<>>
    PROVE  /\ Head(fila) \in Evento /\ Head(fila) = fila[1] /\ Tail(fila) \in Seq(Evento)
           /\ Len(fila) \in Nat /\ Len(fila) >= 1 /\ Len(Tail(fila)) = Len(fila) - 1
           /\ \A i \in 1..(Len(fila) - 1) : Tail(fila)[i] = fila[i + 1]
  <1>1. fila \in Seq(Evento)
    BY DEF TypeOK
  <1> QED
    BY <1>1, HeadTailProperties

LEMMA FilaMais ==
    ASSUME NEW q \in Seq(Evento), NEW e \in Evento
    PROVE  /\ Append(q, e) \in Seq(Evento)
           /\ Len(q) \in Nat /\ Len(Append(q, e)) = Len(q) + 1
           /\ Append(q, e)[Len(q) + 1] = e
           /\ \A i \in 1..Len(q) : Append(q, e)[i] = q[i]
  OBVIOUS

LEMMA TipoInicio == Init => TypeOK
  <1> SUFFICES ASSUME Init PROVE TypeOK
    OBVIOUS
  <1>1. Nenhum \in Docs
    BY DEF Nenhum, Docs
  <1>2. /\ pedidosOng \in [Modos -> Nat] /\ pedidosItems \in Nat /\ falhas \in 0..MaxFalhas
        /\ baixando \in [Fotos -> Nat]
    BY OngHomeAssumption DEF Init
  <1>3. /\ isLoading \in BOOLEAN /\ ouvindo \in BOOLEAN /\ caiu \in BOOLEAN /\ divergiu \in BOOLEAN
        /\ vazio \in BOOLEAN /\ atrasada \in BOOLEAN
    BY DEF Init
  <1>4. fila \in Seq(Evento) /\ estoque \in Seq(Item)
    BY DEF Init
  <1> QED
    BY <1>1, <1>2, <1>3, <1>4 DEF Init, TypeOK

LEMMA FimTipo ==
    ASSUME TypeOK, NEW f \in Fotos, FimDownload(f)
    PROVE  baixando' \in [Fotos -> Nat]
  BY DEF TypeOK, FimDownload

\* The steps outside the main thread.
LEMMA TipoFora ==
    ASSUME TypeOK,
           \/ \E nova \in Vistas : Publicar(nova) \/ MudarSemOuvinte(nova)
           \/ RecusarListener
           \/ \E p \in Perfis : MudarPerfil(p)
           \/ \E m \in Modos : TerminarOng(m)
           \/ TerminarItems
           \/ \E f \in Fotos : Baixar(f) \/ FalharDownload(f)
    PROVE  TypeOK'
  <1> USE DEF TypeOK
  <1>1. ASSUME NEW e \in Evento, Enfileirar(e)
        PROVE  fila' \in Seq(Evento)
    BY <1>1, FilaMais DEF Enfileirar
  <1>2. ASSUME Falhar PROVE falhas' \in 0..MaxFalhas
    BY <1>2, OngHomeAssumption DEF Falhar
  <1>3. ASSUME NEW nova \in Vistas, Publicar(nova) PROVE TypeOK'
    <2>1. nova \in Docs
      BY OngHomeAssumption
    <2>2. [tipo |-> "snapshot", docs |-> nova] \in Evento
      BY <2>1 DEF Evento
    <2>3. fila' \in Seq(Evento)
      BY <1>1, <1>3, <2>2 DEF Publicar
    <2> QED
      BY <1>3, <2>1, <2>3 DEF Publicar, Enfileirar, tela, pedidos, historia
  <1>4. ASSUME NEW p \in Perfis, MudarPerfil(p) PROVE TypeOK'
    BY <1>4 DEF MudarPerfil, tela, pedidos, historia
  <1>5. ASSUME NEW m \in Modos, RespostaOng(m) PROVE pedidosOng' \in [Modos -> Nat]
    BY <1>5 DEF RespostaOng
  <1>6. ASSUME NEW m \in Modos, ResponderOng(m) PROVE TypeOK'
    <2>1. [tipo |-> "ong", modo |-> m, perfil |-> perfil] \in Evento
      BY <1>6 DEF ResponderOng, Evento
    <2>2. fila' \in Seq(Evento) /\ pedidosOng' \in [Modos -> Nat]
      BY <1>1, <1>5, <1>6, <2>1 DEF ResponderOng
    <2> QED
      BY <1>6, <2>2 DEF ResponderOng, RespostaOng, Enfileirar, tela, firestore
  <1>7. ASSUME NEW m \in Modos, NaoResponderOng(m) PROVE TypeOK'
    <2>1. vazio' \in BOOLEAN
      BY <1>7 DEF NaoResponderOng
    <2> QED
      BY <1>5, <1>7, <2>1 DEF NaoResponderOng, RespostaOng, tela, firestore
  <1>8. ASSUME NEW m \in Modos, FalharOng(m) PROVE TypeOK'
    <2>1. [tipo |-> "erroOng", modo |-> m] \in Evento
      BY DEF Evento
    <2>2. fila' \in Seq(Evento) /\ pedidosOng' \in [Modos -> Nat] /\ falhas' \in 0..MaxFalhas
      BY <1>1, <1>2, <1>5, <1>8, <2>1 DEF FalharOng
    <2> QED
      BY <1>8, <2>2 DEF FalharOng, RespostaOng, Enfileirar, tela, firestore
  <1>9. ASSUME NEW e \in Evento, RespostaItems(e), falhas' \in 0..MaxFalhas PROVE TypeOK'
    <2>1. fila' \in Seq(Evento) /\ pedidosItems' \in Nat
      BY <1>1, <1>9 DEF RespostaItems
    <2> QED
      BY <1>9, <2>1 DEF RespostaItems, Enfileirar, tela, firestore, historia
  <1>10. ASSUME TerminarItems PROVE TypeOK'
    <2>1. [tipo |-> "getItems", docs |-> colecao] \in Evento /\ [tipo |-> "erroItems"] \in Evento
      BY DEF Evento
    <2> QED
      BY <1>2, <1>9, <1>10, <2>1 DEF TerminarItems, ResponderItems, FalharItems
  <1>11. ASSUME NEW f \in Fotos, Baixar(f) PROVE TypeOK'
    <2>1. [tipo |-> "imagem", foto |-> f] \in Evento
      BY DEF Evento
    <2>2. fila' \in Seq(Evento) /\ baixando' \in [Fotos -> Nat]
      BY <1>1, <1>11, <2>1, FimTipo DEF Baixar
    <2> QED
      BY <1>11, <2>2 DEF Baixar, FimDownload, Enfileirar, tela, firestore
  <1>12. ASSUME NEW f \in Fotos, FalharDownload(f) PROVE TypeOK'
    <2>1. atrasada' \in BOOLEAN /\ baixando' \in [Fotos -> Nat]
      BY <1>12, FimTipo DEF FalharDownload
    <2> QED
      BY <1>2, <1>12, <2>1 DEF FalharDownload, FimDownload, tela, firestore
  <1>13. ASSUME RecusarListener PROVE TypeOK'
    <2>1. ouvindo' \in BOOLEAN
      BY <1>13 DEF RecusarListener
    <2> QED
      BY <1>13, <2>1 DEF RecusarListener, tela, pedidos, historia
  <1>14. ASSUME NEW nova \in Vistas, MudarSemOuvinte(nova) PROVE TypeOK'
    <2>1. nova \in Docs
      BY OngHomeAssumption
    <2> QED
      BY <1>14, <2>1 DEF MudarSemOuvinte, tela, pedidos, historia
  <1> QED
    BY <1>3, <1>4, <1>6, <1>7, <1>8, <1>10, <1>11, <1>12, <1>13, <1>14 DEF TerminarOng

LEMMA TipoPrincipal == TypeOK /\ Principal => TypeOK'
  <1> SUFFICES ASSUME TypeOK, Principal PROVE TypeOK'
    OBVIOUS
  <1>0. fila # <<>>
    BY DEF Principal, ReceberOng, ReceberErroOng, ReceberItems, ReceberErroItems, AplicarItems,
           AplicarImagem, TratarSnapshot, Despachar
  <1>1. Head(fila) \in Evento /\ Tail(fila) \in Seq(Evento)
    BY <1>0, FilaCabeca
  <1> USE DEF TypeOK, firestore
  <1>2. CASE ReceberOng
    <2>1. Head(fila).modo \in Modos /\ Head(fila).perfil \in Perfis
      BY <1>1, <1>2, EventoCampos DEF ReceberOng, Despachar
    <2>2. Head(fila).perfil.foto \in Fotos
      BY <2>1 DEF Fotos
    <2>3. baixando' \in [Fotos -> Nat]
      BY <1>2, <2>2 DEF ReceberOng, fetchImage
    <2>4. atrasada' \in BOOLEAN /\ isLoading' \in BOOLEAN
      BY <1>2 DEF ReceberOng, fetchImage
    <2>5. pedidosItems' \in Nat
      BY <1>2 DEF ReceberOng
    <2> QED
      BY <1>1, <1>2, <2>1, <2>3, <2>4, <2>5 DEF ReceberOng, Despachar
  <1>3. CASE ReceberErroOng \/ ReceberErroItems
    <2>1. isLoading' \in BOOLEAN
      BY <1>3 DEF ReceberErroOng, ReceberErroItems
    <2> QED
      BY <1>1, <1>3, <2>1 DEF ReceberErroOng, ReceberErroItems, Despachar, pedidos
  <1>4. CASE ReceberItems
    <2>1. Head(fila).docs \in Docs
      BY <1>1, <1>4, EventoCampos DEF ReceberItems
    <2>2. [tipo |-> "aplicar", docs |-> Head(fila).docs] \in Evento
      BY <2>1 DEF Evento
    <2>3. fila' \in Seq(Evento)
      BY <1>1, <1>4, <2>2, FilaMais DEF ReceberItems
    <2>4. isLoading' \in BOOLEAN
      BY <1>4 DEF ReceberItems
    <2> QED
      BY <1>4, <2>3, <2>4 DEF ReceberItems, pedidos, historia
  <1>5. CASE AplicarItems
    <2>1. Head(fila).docs \in Docs
      BY <1>1, <1>5, EventoCampos DEF AplicarItems, Despachar
    <2>2. estoque' \in Seq(Item)
      BY <1>5, <2>1, ItensEnumera DEF AplicarItems
    <2>3. isLoading' \in BOOLEAN /\ divergiu' \in BOOLEAN
      BY <1>5 DEF AplicarItems
    <2> QED
      BY <1>1, <1>5, <2>2, <2>3 DEF AplicarItems, Despachar, pedidos
  <1>6. CASE AplicarImagem
    <2>1. Head(fila).foto \in Fotos
      BY <1>1, <1>6, EventoCampos DEF AplicarImagem, Despachar
    <2> QED
      BY <1>1, <1>6, <2>1 DEF AplicarImagem, Despachar, pedidos
  <1>7. CASE TratarSnapshot
    <2>1. Head(fila).docs \in Docs
      BY <1>1, <1>7, EventoCampos DEF TratarSnapshot, Despachar
    <2>2. estoque' = estoque \/ estoque' \in Seq(Item)
      BY <1>7, <2>1, MudancasTipo DEF TratarSnapshot
    <2>3. caiu' \in BOOLEAN
      BY <1>7 DEF TratarSnapshot
    <2> QED
      BY <1>1, <1>7, <2>1, <2>2, <2>3 DEF TratarSnapshot, Despachar, pedidos
  <1> QED
    BY <1>2, <1>3, <1>4, <1>5, <1>6, <1>7 DEF Principal

LEMMA TipoUsuario ==
    ASSUME TypeOK,
           \/ atualizar
           \/ \E p \in Perfis : atualizarHome(p) \/ atualizarHomeComImagem(p)
    PROVE  TypeOK'
  <1> USE DEF TypeOK
  <1>1. CASE atualizar
    <2>1. pedidosItems' \in Nat
      BY <1>1 DEF atualizar
    <2> QED
      BY <1>1, <2>1 DEF atualizar, firestore, tela, historia
  <1>2. ASSUME NEW p \in Perfis, NEW m \in Modos, SalvarPerfil(p, m) PROVE TypeOK'
    <2>1. pedidosOng' \in [Modos -> Nat]
      BY <1>2 DEF SalvarPerfil
    <2>2. isLoading' \in BOOLEAN
      BY <1>2 DEF SalvarPerfil
    <2> QED
      BY <1>2, <2>1, <2>2 DEF SalvarPerfil, historia
  <1> QED
    BY <1>1, <1>2 DEF atualizarHome, atualizarHomeComImagem, Modos

LEMMA TipoPasso == TypeOK /\ [Next]_vars => TypeOK'
  <1> SUFFICES ASSUME TypeOK, [Next]_vars PROVE TypeOK'
    OBVIOUS
  <1>1. CASE UNCHANGED vars
    BY <1>1 DEF vars, TypeOK
  <1> QED
    BY <1>1, TipoFora, TipoPrincipal, TipoUsuario DEF Next

\* The state of the home screen and of its requests keeps its types: in
\* particular the listener leaves no item without fields in the stock.
THEOREM TiposHome == Spec => []TypeOK
  BY TipoInicio, TipoPasso, PTL DEF Spec

----------------------------------------------------------------------------
(* The stock and the snapshots *)

\* Together the two are inductive: a stock that agrees with the snapshots has
\* a place for every document a snapshot may remove, and a process that died
\* on a missing one is the only state in which the two may drift apart.
FielInv == EstoqueFiel /\ QuedaSoSeDivergiu

LEMMA FielInicio == Init => FielInv
  <1> SUFFICES ASSUME Init PROVE Enumera(<<>>, Nenhum)
    BY DEF Init, FielInv, EstoqueFiel, QuedaSoSeDivergiu
  <1> QED
    BY DEF Enumera, Nenhum

\* Only a stored profile, a stored read and a snapshot touch the list.
LEMMA ForaDaLista ==
    ASSUME [Next]_vars, ~ReceberOng, ~AplicarItems, ~TratarSnapshot
    PROVE  UNCHANGED <<visto, estoque, divergiu, caiu>>
  <1> USE DEF firestore, tela, pedidos, historia
  <1>1. CASE UNCHANGED vars
    BY <1>1 DEF vars
  <1>2. ASSUME \/ \E nova \in Vistas : Publicar(nova) \/ MudarSemOuvinte(nova)
               \/ RecusarListener
        PROVE  UNCHANGED <<visto, estoque, divergiu, caiu>>
    BY <1>2 DEF Publicar, MudarSemOuvinte, RecusarListener, Enfileirar
  <1>3. ASSUME NEW p \in Perfis, MudarPerfil(p)
        PROVE  UNCHANGED <<visto, estoque, divergiu, caiu>>
    BY <1>3 DEF MudarPerfil
  <1>4. ASSUME NEW m \in Modos, TerminarOng(m)
        PROVE  UNCHANGED <<visto, estoque, divergiu, caiu>>
    BY <1>4 DEF TerminarOng, ResponderOng, NaoResponderOng, FalharOng, RespostaOng, Enfileirar
  <1>5. CASE TerminarItems
    BY <1>5 DEF TerminarItems, ResponderItems, FalharItems, RespostaItems, Enfileirar
  <1>6. ASSUME NEW f \in Fotos, Baixar(f) \/ FalharDownload(f)
        PROVE  UNCHANGED <<visto, estoque, divergiu, caiu>>
    BY <1>6 DEF Baixar, FalharDownload, FimDownload, Enfileirar
  <1>7. CASE Principal
    BY <1>7 DEF Principal, ReceberErroOng, ReceberItems, ReceberErroItems, AplicarImagem
  <1>8. CASE atualizar
    BY <1>8 DEF atualizar
  <1>9. ASSUME NEW p \in Perfis, atualizarHome(p) \/ atualizarHomeComImagem(p)
        PROVE  UNCHANGED <<visto, estoque, divergiu, caiu>>
    BY <1>9 DEF atualizarHome, atualizarHomeComImagem, SalvarPerfil
  <1> QED
    BY <1>1, <1>2, <1>3, <1>4, <1>5, <1>6, <1>7, <1>8, <1>9 DEF Next

LEMMA FielPasso == TypeOK /\ FielInv /\ [Next]_vars => FielInv'
  <1> SUFFICES ASSUME TypeOK, FielInv, [Next]_vars PROVE FielInv'
    OBVIOUS
  <1> USE DEF FielInv, EstoqueFiel, QuedaSoSeDivergiu
  <1>1. CASE ReceberOng
    BY <1>1 DEF ReceberOng
  <1>2. CASE AplicarItems
    <2> DEFINE docs == Head(fila).docs
               S == Presentes(docs)
    <2>1. ~caiu /\ ~caiu'
      BY <1>2 DEF AplicarItems, Despachar
    <2>2. docs \in Docs
      BY <1>2, FilaCabeca, EventoCampos DEF AplicarItems, Despachar
    <2>3. estoque' = Itens(S, docs)
      BY <1>2 DEF AplicarItems, Presentes
    <2>4. ~divergiu' => visto' = docs
      BY <1>2 DEF AplicarItems
    <2> HIDE DEF docs
    <2>5. S \in SUBSET Ids /\ \A k \in S : docs[k] # Ausente
      BY DEF Presentes
    <2>6. \A k \in Ids : docs[k] # Ausente => k \in S
      BY DEF Presentes
    <2> HIDE DEF S
    <2>7. /\ \A i \in 1..Len(Itens(S, docs)) :
                Itens(S, docs)[i].id \in S /\ Itens(S, docs)[i].dados = docs[Itens(S, docs)[i].id]
          /\ \A i, j \in 1..Len(Itens(S, docs)) : Itens(S, docs)[i].id = Itens(S, docs)[j].id => i = j
          /\ \A k \in S : \E i \in 1..Len(Itens(S, docs)) : Itens(S, docs)[i].id = k
      BY <2>2, <2>5, ItensEnumera
    <2>8. Enumera(Itens(S, docs), docs)
      BY <2>6, <2>7 DEF Enumera
    <2> QED
      BY <2>1, <2>3, <2>4, <2>8
  <1>3. CASE TratarSnapshot
    <2> DEFINE docs == Head(fila).docs
               some == \E k \in Removidos(visto, docs) : Posicoes(estoque, k) = {}
    <2>1. docs \in Docs /\ visto \in Docs
      BY <1>3, FilaCabeca, EventoCampos DEF TratarSnapshot, Despachar, TypeOK
    <2>2. /\ ~caiu /\ divergiu' = divergiu /\ visto' = docs
          /\ IF estoque = Nil THEN UNCHANGED <<estoque, caiu>>
             ELSE IF some THEN caiu' = TRUE /\ UNCHANGED estoque
             ELSE estoque' = Mudancas(estoque, visto, docs) /\ UNCHANGED caiu
      BY <1>3 DEF TratarSnapshot, Despachar
    <2>3. CASE divergiu
      BY <2>2, <2>3
    <2>4. CASE estoque = Nil
      BY <2>2, <2>4
    <2>5. CASE ~divergiu /\ estoque # Nil
      <3>1. Enumera(estoque, visto) /\ estoque \in Seq(Item)
        BY <2>5 DEF TypeOK
      <3>2. ~some
        BY <3>1 DEF Enumera, Removidos, Presentes, Posicoes
      <3>3. Enumera(Mudancas(estoque, visto, docs), docs)
        BY <2>1, <3>1, MudancasEnumera
      <3>4. estoque' = Mudancas(estoque, visto, docs) /\ caiu' = caiu
        BY <2>2, <2>5, <3>2
      <3> QED
        BY <2>2, <3>3, <3>4
    <2> QED
      BY <2>3, <2>4, <2>5
  <1>4. CASE ~ReceberOng /\ ~AplicarItems /\ ~TratarSnapshot
    BY <1>4, ForaDaLista DEF Enumera
  <1> QED
    BY <1>1, <1>2, <1>3, <1>4

LEMMA FielSempre == Spec => []FielInv
  BY TipoInicio, TipoPasso, FielInicio, FielPasso, PTL DEF Spec

\* A stock on screen lists what the snapshots told of, each document once with
\* its last fields, however reads, erasures and ignored snapshots interleave,
\* unless the read stored last was out of date.
THEOREM EstoqueSempreFiel == Spec => []EstoqueFiel
  BY FielSempre, PTL DEF FielInv

\* firstIndex(where:)! of the listener fails only after such a read.
THEOREM QuedaSempreExplicada == Spec => []QuedaSoSeDivergiu
  BY FielSempre, PTL DEF FielInv

----------------------------------------------------------------------------
(* The loading view *)

\* An answer that the main thread has yet to see and that clears the flag.
Apaga == {"ong", "erroOng", "aplicar"}

LEMMA ApagaMais ==
    ASSUME NEW q \in Seq(Evento), NEW e \in Evento,
           (\E i \in 1..Len(q) : q[i].tipo \in Apaga) \/ e.tipo \in Apaga
    PROVE  \E i \in 1..Len(Append(q, e)) : Append(q, e)[i].tipo \in Apaga
  <1>1. /\ Len(q) \in Nat /\ Len(Append(q, e)) = Len(q) + 1
        /\ Append(q, e)[Len(q) + 1] = e
        /\ \A i \in 1..Len(q) : Append(q, e)[i] = q[i]
    BY FilaMais
  <1>2. \A i \in 1..Len(q) : i \in 1..(Len(q) + 1)
    BY <1>1
  <1>3. Len(q) + 1 \in 1..(Len(q) + 1)
    BY <1>1
  <1> QED
    BY <1>1, <1>2, <1>3

LEMMA ApagaResto ==
    ASSUME TypeOK, fila # <<>>, Head(fila).tipo \notin Apaga,
           \E i \in 1..Len(fila) : fila[i].tipo \in Apaga
    PROVE  \E i \in 1..Len(Tail(fila)) : Tail(fila)[i].tipo \in Apaga
  <1>1. PICK i \in 1..Len(fila) : fila[i].tipo \in Apaga
    OBVIOUS
  <1>2. i # 1
    BY <1>1, FilaCabeca
  <1>3. i - 1 \in 1..(Len(fila) - 1) /\ (i - 1) + 1 = i
    BY <1>1, <1>2, FilaCabeca
  <1>4. Tail(fila)[i - 1] = fila[i]
    BY <1>3, FilaCabeca
  <1> QED
    BY <1>1, <1>3, <1>4, FilaCabeca

LEMMA RodinhaFora ==
    ASSUME TypeOK, RodinhaTemMotivo,
           \/ \E nova \in Vistas : Publicar(nova) \/ MudarSemOuvinte(nova)
           \/ RecusarListener
           \/ \E p \in Perfis : MudarPerfil(p)
           \/ \E m \in Modos : TerminarOng(m)
           \/ TerminarItems
           \/ \E f \in Fotos : Baixar(f) \/ FalharDownload(f)
    PROVE  RodinhaTemMotivo'
  <1> USE DEF RodinhaTemMotivo
  <1>0. fila \in Seq(Evento) /\ pedidosOng \in [Modos -> Nat]
    BY DEF TypeOK
  \* An event joins the queue and no getOng of fetchOng is answered, or the
  \* event is the answer.
  <1>1. ASSUME NEW e \in Evento, Enfileirar(e), UNCHANGED vazio,
               UNCHANGED pedidosOng \/ e.tipo \in Apaga
        PROVE  RodinhaTemMotivo'
    <2>1. fila' = Append(fila, e) /\ isLoading' = isLoading
      BY <1>1 DEF Enfileirar, tela
    <2>2. CASE (\E i \in 1..Len(fila) : fila[i].tipo \in Apaga) \/ e.tipo \in Apaga
      <3>1. \E i \in 1..Len(fila') : fila'[i].tipo \in Apaga
        BY <1>0, <2>1, <2>2, ApagaMais
      <3> QED
        BY <3>1 DEF Apaga
    <2>3. CASE ~((\E i \in 1..Len(fila) : fila[i].tipo \in Apaga) \/ e.tipo \in Apaga)
      BY <1>1, <2>1, <2>3 DEF Apaga
    <2> QED
      BY <2>2, <2>3
  <1>2. ASSUME NEW nova \in Vistas, Publicar(nova) PROVE RodinhaTemMotivo'
    <2>1. [tipo |-> "snapshot", docs |-> nova] \in Evento
      BY OngHomeAssumption DEF Evento
    <2> QED
      BY <1>1, <1>2, <2>1 DEF Publicar, pedidos, historia
  <1>3. ASSUME NEW p \in Perfis, MudarPerfil(p) PROVE RodinhaTemMotivo'
    BY <1>3 DEF MudarPerfil, tela, pedidos, historia
  <1>4. ASSUME NEW m \in Modos, ResponderOng(m) PROVE RodinhaTemMotivo'
    <2>1. [tipo |-> "ong", modo |-> m, perfil |-> perfil] \in Evento
      BY <1>4 DEF ResponderOng, Evento, TypeOK
    <2> QED
      BY <1>1, <1>4, <2>1 DEF ResponderOng, Apaga
  <1>5. ASSUME NEW m \in Modos, NaoResponderOng(m) PROVE RodinhaTemMotivo'
    BY <1>5 DEF NaoResponderOng
  <1>6. ASSUME NEW m \in Modos, FalharOng(m) PROVE RodinhaTemMotivo'
    <2>1. [tipo |-> "erroOng", modo |-> m] \in Evento
      BY DEF Evento
    <2> QED
      BY <1>1, <1>6, <2>1 DEF FalharOng, Apaga
  <1>7. CASE TerminarItems
    <2>1. [tipo |-> "getItems", docs |-> colecao] \in Evento /\ [tipo |-> "erroItems"] \in Evento
      BY DEF Evento, TypeOK
    <2> QED
      BY <1>1, <1>7, <2>1 DEF TerminarItems, ResponderItems, FalharItems, RespostaItems, historia
  <1>8. ASSUME NEW f \in Fotos, Baixar(f) PROVE RodinhaTemMotivo'
    <2>1. [tipo |-> "imagem", foto |-> f] \in Evento
      BY DEF Evento
    <2> QED
      BY <1>1, <1>8, <2>1 DEF Baixar, FimDownload
  <1>9. ASSUME NEW f \in Fotos, FalharDownload(f) PROVE RodinhaTemMotivo'
    BY <1>9 DEF FalharDownload, FimDownload, tela
  <1>10. ASSUME RecusarListener \/ \E nova \in Vistas : MudarSemOuvinte(nova)
         PROVE  RodinhaTemMotivo'
    BY <1>10 DEF RecusarListener, MudarSemOuvinte, tela, pedidos, historia
  <1> QED
    BY <1>2, <1>3, <1>4, <1>5, <1>6, <1>7, <1>8, <1>9, <1>10 DEF TerminarOng

LEMMA RodinhaPasso == TypeOK /\ RodinhaTemMotivo /\ [Next]_vars => RodinhaTemMotivo'
  <1> SUFFICES ASSUME TypeOK, RodinhaTemMotivo, [Next]_vars PROVE RodinhaTemMotivo'
    OBVIOUS
  <1> USE DEF RodinhaTemMotivo
  <1>1. CASE UNCHANGED vars
    BY <1>1 DEF vars
  \* Four callbacks clear the flag.
  <1>2. CASE ReceberOng \/ ReceberErroOng \/ ReceberErroItems \/ AplicarItems
    BY <1>2 DEF ReceberOng, ReceberErroOng, ReceberErroItems, AplicarItems
  \* fetchItems sets it and queues the step that clears it.
  <1>3. CASE ReceberItems
    <2>1. Tail(fila) \in Seq(Evento) /\ Head(fila).docs \in Docs
      BY <1>3, FilaCabeca, EventoCampos DEF ReceberItems
    <2>2. [tipo |-> "aplicar", docs |-> Head(fila).docs] \in Evento
      BY <2>1 DEF Evento
    <2>3. \E i \in 1..Len(fila') : fila'[i].tipo \in Apaga
      BY <1>3, <2>1, <2>2, ApagaMais DEF ReceberItems, Apaga
    <2> QED
      BY <2>3 DEF Apaga
  \* Two others take an event that does not clear it.
  <1>4. CASE AplicarImagem \/ TratarSnapshot
    <2>1. /\ fila # <<>> /\ Head(fila).tipo \notin Apaga /\ fila' = Tail(fila)
          /\ isLoading' = isLoading /\ vazio' = vazio /\ pedidosOng' = pedidosOng
      BY <1>4 DEF AplicarImagem, TratarSnapshot, Despachar, Apaga, pedidos
    <2>2. CASE \E i \in 1..Len(fila) : fila[i].tipo \in Apaga
      <3>1. \E i \in 1..Len(fila') : fila'[i].tipo \in Apaga
        BY <2>1, <2>2, ApagaResto
      <3> QED
        BY <3>1 DEF Apaga
    <2>3. CASE ~\E i \in 1..Len(fila) : fila[i].tipo \in Apaga
      BY <2>1, <2>3 DEF Apaga
    <2> QED
      BY <2>2, <2>3
  <1>5. CASE atualizar
    BY <1>5 DEF atualizar, tela, historia
  <1>6. ASSUME NEW p \in Perfis, NEW m \in Modos, SalvarPerfil(p, m) PROVE RodinhaTemMotivo'
    <2>1. /\ vazio' = vazio /\ fila' = fila
          /\ isLoading' = (isLoading \/ m = "fetchOng")
          /\ pedidosOng' = [pedidosOng EXCEPT ![m] = @ + 1]
      BY <1>6 DEF SalvarPerfil, historia
    <2>2. pedidosOng \in [Modos -> Nat] /\ "fetchOng" \in Modos
      BY DEF TypeOK, Modos
    <2>3. /\ m = "fetchOng" => pedidosOng'["fetchOng"] > 0
          /\ m # "fetchOng" => pedidosOng'["fetchOng"] = pedidosOng["fetchOng"]
      BY <2>1, <2>2
    <2>4. CASE m = "fetchOng"
      BY <2>3, <2>4
    <2>5. CASE m # "fetchOng"
      <3>1. isLoading' => isLoading
        BY <2>1, <2>5
      <3> QED
        BY <2>1, <2>3, <2>5, <3>1
    <2> QED
      BY <2>4, <2>5
  <1> QED
    BY <1>1, <1>2, <1>3, <1>4, <1>5, <1>6, RodinhaFora
       DEF Next, Principal, atualizarHome, atualizarHomeComImagem, Modos

LEMMA RodinhaInicio == Init => RodinhaTemMotivo
  BY DEF Init, RodinhaTemMotivo, Modos

\* The loading view is up only while a getOng of fetchOng is unanswered or an
\* answer that clears the flag is in the queue, however many requests share
\* the flag, unless a getOng found no document.
THEOREM RodinhaSempreComMotivo == Spec => []RodinhaTemMotivo
  BY TipoInicio, TipoPasso, RodinhaInicio, RodinhaPasso, PTL DEF Spec

----------------------------------------------------------------------------
(* The photo *)

NaFila(q) == {q[i].foto : i \in {j \in 1..Len(q) : q[j].tipo = "imagem"}}
FotoDe(e) == IF e.tipo = "imagem" THEN {e.foto} ELSE {}

\* ImagemEmDia says nothing while a photo is on its way.  What makes the next
\* photo the right one is that, unless downloads overlapped, nothing but the
\* profile's own photo is.
ImagemInv ==
    ong # Ausente /\ ~atrasada =>
        /\ ImagensPendentes \subseteq {ong.foto}
        /\ ImagensPendentes = {} => imagem = ong.foto

LEMMA NaFilaMais ==
    ASSUME NEW q \in Seq(Evento), NEW e \in Evento
    PROVE  NaFila(Append(q, e)) = NaFila(q) \cup FotoDe(e)
  <1> DEFINE r == Append(q, e)
  <1>1. /\ Len(q) \in Nat /\ Len(r) = Len(q) + 1
        /\ r[Len(q) + 1] = e
        /\ \A i \in 1..Len(q) : r[i] = q[i]
    BY FilaMais
  <1> HIDE DEF r
  <1>2. ASSUME NEW f \in NaFila(r) PROVE f \in NaFila(q) \cup FotoDe(e)
    <2>1. PICK i \in 1..Len(r) : r[i].tipo = "imagem" /\ f = r[i].foto
      BY DEF NaFila
    <2>2. CASE i \in 1..Len(q)
      BY <1>1, <2>1, <2>2 DEF NaFila
    <2>3. CASE i = Len(q) + 1
      BY <1>1, <2>1, <2>3 DEF FotoDe
    <2> QED
      BY <1>1, <2>1, <2>2, <2>3
  <1>3. ASSUME NEW f \in NaFila(q) PROVE f \in NaFila(r)
    <2>1. PICK i \in 1..Len(q) : q[i].tipo = "imagem" /\ f = q[i].foto
      BY DEF NaFila
    <2>2. i \in 1..Len(r) /\ r[i] = q[i]
      BY <1>1
    <2> QED
      BY <2>1, <2>2 DEF NaFila
  <1>4. ASSUME NEW f \in FotoDe(e) PROVE f \in NaFila(r)
    <2>1. Len(q) + 1 \in 1..Len(r)
      BY <1>1
    <2>2. e.tipo = "imagem" /\ f = e.foto
      BY DEF FotoDe
    <2> QED
      BY <1>1, <2>1, <2>2 DEF NaFila
  <1>5. NaFila(r) = NaFila(q) \cup FotoDe(e)
    BY <1>2, <1>3, <1>4
  <1> QED
    BY <1>5 DEF r

LEMMA NaFilaResto ==
    ASSUME TypeOK, fila # <<>>
    PROVE  NaFila(fila) = NaFila(Tail(fila)) \cup FotoDe(Head(fila))
  <1> DEFINE r == Tail(fila)
  <1>1. /\ Head(fila) = fila[1] /\ Len(fila) \in Nat /\ Len(fila) >= 1
        /\ Len(r) = Len(fila) - 1
        /\ \A i \in 1..(Len(fila) - 1) : r[i] = fila[i + 1]
    BY FilaCabeca
  <1> HIDE DEF r
  <1>2. ASSUME NEW f \in NaFila(fila) PROVE f \in NaFila(r) \cup FotoDe(Head(fila))
    <2>1. PICK i \in 1..Len(fila) : fila[i].tipo = "imagem" /\ f = fila[i].foto
      BY DEF NaFila
    <2>2. CASE i = 1
      BY <1>1, <2>1, <2>2 DEF FotoDe
    <2>3. CASE i # 1
      <3>1. i - 1 \in 1..Len(r) /\ i - 1 \in 1..(Len(fila) - 1) /\ (i - 1) + 1 = i
        BY <1>1, <2>3
      <3>2. r[i - 1] = fila[i]
        BY <1>1, <3>1
      <3> QED
        BY <2>1, <3>1, <3>2 DEF NaFila
    <2> QED
      BY <2>2, <2>3
  <1>3. ASSUME NEW f \in NaFila(r) PROVE f \in NaFila(fila)
    <2>1. PICK i \in 1..Len(r) : r[i].tipo = "imagem" /\ f = r[i].foto
      BY DEF NaFila
    <2>2. i + 1 \in 1..Len(fila) /\ r[i] = fila[i + 1]
      BY <1>1
    <2> QED
      BY <2>1, <2>2 DEF NaFila
  <1>4. ASSUME NEW f \in FotoDe(Head(fila)) PROVE f \in NaFila(fila)
    <2>1. 1 \in 1..Len(fila) /\ fila[1].tipo = "imagem" /\ f = fila[1].foto
      BY <1>1 DEF FotoDe
    <2> QED
      BY <2>1 DEF NaFila
  <1>5. NaFila(fila) = NaFila(r) \cup FotoDe(Head(fila))
    BY <1>2, <1>3, <1>4
  <1> QED
    BY <1>5 DEF r

Descendo == {f \in Fotos : baixando[f] > 0}

LEMMA Pendentes == ImagensPendentes = Descendo \cup NaFila(fila)
  BY DEF ImagensPendentes, NaFila, Descendo

LEMMA PendentesDepois == ImagensPendentes' = Descendo' \cup NaFila(fila')
  BY DEF ImagensPendentes, NaFila, Descendo

\* What most steps do: the photos on their way stay the same.
LEMMA ImagemMesma ==
    ASSUME ImagemInv, ImagensPendentes' = ImagensPendentes,
           UNCHANGED <<ong, imagem, atrasada>>
    PROVE  ImagemInv'
  BY DEF ImagemInv

\* An event joins the queue.
LEMMA ImagemMais ==
    ASSUME TypeOK, ImagemInv, NEW e \in Evento, fila' = Append(fila, e),
           Descendo' \cup FotoDe(e) = Descendo \cup FotoDe(e), FotoDe(e) \subseteq Descendo, UNCHANGED <<ong, imagem, atrasada>>
    PROVE  ImagemInv'
  <1>1. NaFila(fila') = NaFila(fila) \cup FotoDe(e)
    BY NaFilaMais DEF TypeOK
  <1>2. ImagensPendentes' = ImagensPendentes
    BY <1>1, Pendentes, PendentesDepois
  <1> QED
    BY <1>2, ImagemMesma

\* An event that is no photo leaves it.
LEMMA PendentesResto ==
    ASSUME TypeOK, fila # <<>>, Head(fila).tipo # "imagem", fila' = Tail(fila)
    PROVE  ImagensPendentes' = Descendo' \cup NaFila(fila)
  BY NaFilaResto, PendentesDepois DEF FotoDe

LEMMA ImagemFora ==
    ASSUME TypeOK, ImagemInv,
           \/ \E nova \in Vistas : Publicar(nova) \/ MudarSemOuvinte(nova)
           \/ RecusarListener
           \/ \E p \in Perfis : MudarPerfil(p)
           \/ \E m \in Modos : TerminarOng(m)
           \/ TerminarItems
           \/ \E f \in Fotos : Baixar(f) \/ FalharDownload(f)
    PROVE  ImagemInv'
  <1> USE DEF tela, pedidos, historia
  <1>1. ASSUME NEW e \in Evento, Enfileirar(e), e.tipo # "imagem", UNCHANGED <<baixando, atrasada>>
        PROVE  ImagemInv'
    BY <1>1, ImagemMais DEF Enfileirar, FotoDe, Descendo
  <1>2. ASSUME UNCHANGED <<fila, baixando, ong, imagem, atrasada>> PROVE ImagemInv'
    BY <1>2 DEF ImagemInv, ImagensPendentes
  <1>3. ASSUME NEW nova \in Vistas, Publicar(nova) PROVE ImagemInv'
    <2>1. [tipo |-> "snapshot", docs |-> nova] \in Evento
      BY OngHomeAssumption DEF Evento
    <2> QED
      BY <1>1, <1>3, <2>1 DEF Publicar
  <1>4. ASSUME NEW p \in Perfis, MudarPerfil(p) PROVE ImagemInv'
    BY <1>2, <1>4 DEF MudarPerfil
  <1>5. ASSUME NEW m \in Modos, TerminarOng(m) PROVE ImagemInv'
    <2>1. [tipo |-> "erroOng", modo |-> m] \in Evento
      BY DEF Evento
    <2>2. perfil # Ausente => [tipo |-> "ong", modo |-> m, perfil |-> perfil] \in Evento
      BY DEF Evento, TypeOK
    <2> QED
      BY <1>1, <1>2, <1>5, <2>1, <2>2
         DEF TerminarOng, ResponderOng, NaoResponderOng, FalharOng, RespostaOng
  <1>6. CASE TerminarItems
    <2>1. [tipo |-> "getItems", docs |-> colecao] \in Evento /\ [tipo |-> "erroItems"] \in Evento
      BY DEF Evento, TypeOK
    <2> QED
      BY <1>1, <1>6, <2>1 DEF TerminarItems, ResponderItems, FalharItems, RespostaItems
  \* A download ends: its photo goes from one place to the other.
  <1>7. ASSUME NEW f \in Fotos, Baixar(f) PROVE ImagemInv'
    <2> DEFINE e == [tipo |-> "imagem", foto |-> f]
    <2>1. e \in Evento /\ FotoDe(e) = {f}
      BY DEF Evento, FotoDe
    <2>2. \A g \in Fotos : g # f => baixando'[g] = baixando[g]
      BY <1>7 DEF Baixar, FimDownload, TypeOK
    <2>3. baixando[f] > 0
      BY <1>7 DEF Baixar, FimDownload
    <2>4. Descendo' \cup {f} = Descendo \cup {f} /\ {f} \subseteq Descendo
      BY <2>2, <2>3 DEF Descendo
    <2>5. fila' = Append(fila, e) /\ UNCHANGED <<ong, imagem, atrasada>>
      BY <1>7 DEF Baixar, Enfileirar
    <2> HIDE DEF e
    <2> QED
      BY <2>1, <2>4, <2>5, ImagemMais
  <1>8. ASSUME NEW f \in Fotos, FalharDownload(f) PROVE ImagemInv'
    BY <1>8 DEF FalharDownload, ImagemInv
  <1>9. ASSUME RecusarListener \/ \E nova \in Vistas : MudarSemOuvinte(nova) PROVE ImagemInv'
    BY <1>2, <1>9 DEF RecusarListener, MudarSemOuvinte
  <1> QED
    BY <1>3, <1>4, <1>5, <1>6, <1>7, <1>8, <1>9

\* A fetched profile: its photo is asked for, or it is the one already shown.
LEMMA ImagemPerfil == TypeOK /\ ImagemInv /\ ReceberOng => ImagemInv'
  <1> SUFFICES ASSUME TypeOK, ImagemInv, ReceberOng PROVE ImagemInv'
    OBVIOUS
  <1> DEFINE p == Head(fila).perfil
             m == Head(fila).modo
  <1>1. /\ fila # <<>> /\ Head(fila).tipo = "ong" /\ fila' = Tail(fila)
        /\ ong' = p /\ imagem' = imagem /\ fetchImage(p, m)
    BY DEF ReceberOng, Despachar
  <1>2. ImagensPendentes' = Descendo' \cup NaFila(fila)
    BY <1>1, PendentesResto
  <1>3. p.foto \in Fotos
    BY <1>1, FilaCabeca, EventoCampos DEF TypeOK, Fotos
  <1> HIDE DEF p, m
  <1>4. CASE m = "fetchOng" /\ p.foto # SemFoto
    <2>1. /\ baixando' = [baixando EXCEPT ![p.foto] = @ + 1]
          /\ atrasada' = (ImagensPendentes \ {p.foto} # {})
      BY <1>1, <1>4 DEF fetchImage
    <2>2. Descendo' = Descendo \cup {p.foto}
      BY <1>3, <2>1 DEF Descendo, TypeOK
    <2>3. ImagensPendentes' = ImagensPendentes \cup {p.foto}
      BY <1>2, <2>2, Pendentes
    <2>4. ~atrasada' => ImagensPendentes' = {p.foto}
      BY <2>1, <2>3
    <2> QED
      BY <1>1, <2>4 DEF ImagemInv
  <1>5. CASE ~(m = "fetchOng" /\ p.foto # SemFoto)
    <2>1. baixando' = baixando /\ atrasada' = (atrasada \/ ong = Ausente \/ p.foto # ong.foto)
      BY <1>1, <1>5 DEF fetchImage
    <2>2. ImagensPendentes' = ImagensPendentes
      BY <1>2, <2>1, Pendentes DEF Descendo
    <2>3. ~atrasada' => ~atrasada /\ ong # Ausente /\ p.foto = ong.foto
      BY <2>1
    <2> QED
      BY <1>1, <2>2, <2>3 DEF ImagemInv
  <1> QED
    BY <1>4, <1>5

LEMMA ImagemPasso == TypeOK /\ ImagemInv /\ [Next]_vars => ImagemInv'
  <1> SUFFICES ASSUME TypeOK, ImagemInv, [Next]_vars PROVE ImagemInv'
    OBVIOUS
  <1> USE DEF tela, pedidos, historia
  <1>1. ASSUME UNCHANGED <<fila, baixando, ong, imagem, atrasada>> PROVE ImagemInv'
    BY <1>1 DEF ImagemInv, ImagensPendentes
  <1>2. CASE UNCHANGED vars
    BY <1>1, <1>2 DEF vars
  <1>3. CASE ReceberErroOng \/ ReceberErroItems \/ AplicarItems \/ TratarSnapshot
    <2>1. /\ fila # <<>> /\ Head(fila).tipo # "imagem" /\ fila' = Tail(fila)
          /\ UNCHANGED <<baixando, ong, imagem, atrasada>>
      BY <1>3 DEF ReceberErroOng, ReceberErroItems, AplicarItems, TratarSnapshot, Despachar
    <2>2. ImagensPendentes' = ImagensPendentes
      BY <2>1, PendentesResto, Pendentes DEF Descendo
    <2> QED
      BY <2>1, <2>2, ImagemMesma
  <1>4. CASE ReceberItems
    <2> DEFINE e == [tipo |-> "aplicar", docs |-> Head(fila).docs]
    <2>1. /\ fila # <<>> /\ Head(fila).tipo = "getItems" /\ fila' = Append(Tail(fila), e)
          /\ UNCHANGED <<baixando, ong, imagem, atrasada>>
      BY <1>4 DEF ReceberItems
    <2>2. Tail(fila) \in Seq(Evento) /\ Head(fila).docs \in Docs
      BY <2>1, FilaCabeca, EventoCampos
    <2>3. e \in Evento /\ FotoDe(e) = {}
      BY <2>2 DEF Evento, FotoDe
    <2> HIDE DEF e
    <2>4. NaFila(fila') = NaFila(Tail(fila))
      BY <2>1, <2>2, <2>3, NaFilaMais
    <2>5. NaFila(fila) = NaFila(Tail(fila))
      BY <2>1, NaFilaResto DEF FotoDe
    <2>6. ImagensPendentes' = ImagensPendentes
      BY <2>1, <2>4, <2>5, Pendentes, PendentesDepois DEF Descendo
    <2> QED
      BY <2>1, <2>6, ImagemMesma
  \* The photo that arrives is one of those on their way.
  <1>5. CASE AplicarImagem
    <2>1. /\ fila # <<>> /\ Head(fila).tipo = "imagem" /\ fila' = Tail(fila)
          /\ imagem' = Head(fila).foto
          /\ UNCHANGED <<baixando, ong, atrasada>>
      BY <1>5 DEF AplicarImagem, Despachar
    <2>2. NaFila(fila) = NaFila(fila') \cup {imagem'}
      BY <2>1, NaFilaResto DEF FotoDe
    <2>3. ImagensPendentes = ImagensPendentes' \cup {imagem'}
      BY <2>1, <2>2, Pendentes, PendentesDepois DEF Descendo
    <2> QED
      BY <2>1, <2>3 DEF ImagemInv
  <1>6. CASE atualizar
    BY <1>1, <1>6 DEF atualizar
  <1>7. ASSUME NEW p \in Perfis, NEW m \in Modos, SalvarPerfil(p, m) PROVE ImagemInv'
    BY <1>1, <1>7 DEF SalvarPerfil
  <1> QED
    BY <1>2, <1>3, <1>4, <1>5, <1>6, <1>7, ImagemFora, ImagemPerfil
       DEF Next, Principal, atualizarHome, atualizarHomeComImagem, Modos

LEMMA ImagemInicio == Init => ImagemInv
  BY DEF Init, ImagemInv

\* With no download under way the photo on screen is the profile's, unless two
\* downloads overlapped, one failed, or the profile was read without its photo.
THEOREM ImagemSempreEmDia == Spec => []ImagemEmDia
  <1>1. ImagemInv => ImagemEmDia
    BY DEF ImagemInv, ImagemEmDia
  <1> QED
    BY <1>1, TipoInicio, TipoPasso, ImagemInicio, ImagemPasso, PTL DEF Spec
=============================================================================
