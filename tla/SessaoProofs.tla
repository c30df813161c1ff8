---------------------------- MODULE SessaoProofs ----------------------------
(***************************************************************************)
(* Proofs about Sessao, for any accounts and any number of screens.        *)
(***************************************************************************)
EXTENDS Sessao, SequenceTheorems, TLAPS

----------------------------------------------------------------------------
(* The stack of screens *)

\* What TypeOK says of the stack, and that no login screen has a number yet to
\* be given: without it a new screen might not be new.
PilhaOK(s, n) ==
    /\ s \in Seq(Tela) /\ s # <<>>
    /\ \A i \in 1..(Len(s) - 1) : s[i].tipo # s[i + 1].tipo
    /\ \A i, j \in 1..Len(s) : s[i].tipo = "login" /\ s[i] = s[j] => i = j
    /\ \A i \in 1..Len(s) : s[i].tipo = "login" => s[i].vm \in 1..n

LEMMA TelaTipo ==
    ASSUME NEW t \in Tela
    PROVE  /\ t.tipo \in {"login", "home"}
           /\ t.tipo = "login" => t = Login(t.vm) /\ t.vm \in 1..MaxTelas
           /\ t.tipo = "home" => t = Home(t.id) /\ t.id \in Contas
  BY DEF Tela, Login, Home

LEMMA TelaNova ==
    /\ \A n \in 1..MaxTelas : /\ Login(n) \in Tela
                              /\ Login(n).tipo = "login" /\ Login(n).vm = n
    /\ \A c \in Contas : Home(c) \in Tela /\ Home(c).tipo = "home" /\ Home(c).id = c
  BY DEF Tela, Login, Home

\* Screens can be popped ...
LEMMA PilhaPrefixo ==
    ASSUME NEW n \in Nat, NEW s, PilhaOK(s, n), NEW k \in 1..Len(s)
    PROVE  /\ PilhaOK(SubSeq(s, 1, k), n)
           /\ Len(SubSeq(s, 1, k)) = k
           /\ SubSeq(s, 1, k)[k] = s[k]
  <1> DEFINE p == SubSeq(s, 1, k)
  <1>1. s \in Seq(Tela) /\ Len(s) \in Nat
    BY DEF PilhaOK
  <1>2. \A i \in 1..k : s[i] \in Tela
    BY <1>1, ElementOfSeq
  <1>3. p \in Seq(Tela) /\ Len(p) = k /\ \A i \in 1..k : p[i] = s[i]
    BY <1>1, <1>2, SubSeqProperties
  <1> HIDE DEF p
  <1>4. p # <<>>
    BY <1>3, EmptySeq
  <1>5. PilhaOK(p, n)
    <2>1. \A i \in 1..k : i \in 1..Len(s)
      BY <1>1
    <2>2. \A i \in 1..(k - 1) : i \in 1..(Len(s) - 1) /\ i \in 1..k /\ i + 1 \in 1..k
      BY <1>1
    <2>3. \A i \in 1..(k - 1) : p[i].tipo # p[i + 1].tipo
      BY <1>3, <2>2 DEF PilhaOK
    <2>4. \A i, j \in 1..k : p[i].tipo = "login" /\ p[i] = p[j] => i = j
      BY <1>3, <2>1 DEF PilhaOK
    <2>5. \A i \in 1..k : p[i].tipo = "login" => p[i].vm \in 1..n
      BY <1>3, <2>1 DEF PilhaOK
    <2> QED
      BY <1>3, <1>4, <2>3, <2>4, <2>5 DEF PilhaOK
  <1> QED
    BY <1>3, <1>5 DEF p

\* ... and a screen of the other kind pushed, a login screen under a new number.
LEMMA PilhaEmpilha ==
    ASSUME NEW n \in Nat, NEW s, PilhaOK(s, n), NEW t \in Tela,
           s[Len(s)].tipo # t.tipo,
           NEW m \in Nat, n <= m, t.tipo = "login" => t.vm = m /\ n < m
    PROVE  /\ PilhaOK(Append(s, t), m)
           /\ Append(s, t)[Len(Append(s, t))] = t
  <1> DEFINE p == Append(s, t)
  <1>1. s \in Seq(Tela) /\ Len(s) \in Nat \ {0}
    BY EmptySeq DEF PilhaOK
  <1>2. /\ p \in Seq(Tela) /\ p # <<>> /\ Len(p) = Len(s) + 1
        /\ \A i \in 1..Len(s) : p[i] = s[i]
        /\ p[Len(s) + 1] = t
    BY <1>1, AppendProperties
  <1> HIDE DEF p
  <1>3. \A i \in 1..(Len(p) - 1) : p[i].tipo # p[i + 1].tipo
    <2> SUFFICES ASSUME NEW i \in 1..(Len(p) - 1) PROVE p[i].tipo # p[i + 1].tipo
      OBVIOUS
    <2>1. CASE i = Len(s)
      BY <1>1, <1>2, <2>1
    <2>2. CASE i # Len(s)
      <3>1. i \in 1..(Len(s) - 1) /\ i \in 1..Len(s) /\ i + 1 \in 1..Len(s)
        BY <1>1, <1>2, <2>2
      <3> QED
        BY <1>2, <3>1 DEF PilhaOK
    <2> QED
      BY <2>1, <2>2
  <1>4. \A i \in 1..Len(p) : p[i].tipo = "login" => p[i].vm \in 1..m
    BY <1>1, <1>2 DEF PilhaOK
  <1>5. \A i, j \in 1..Len(p) : p[i].tipo = "login" /\ p[i] = p[j] => i = j
    <2> SUFFICES ASSUME NEW i \in 1..Len(p), NEW j \in 1..Len(p),
                        p[i].tipo = "login", p[i] = p[j]
                 PROVE  i = j
      OBVIOUS
    <2>1. \A l \in 1..Len(s) : s[l].tipo = "login" => s[l].vm \in 1..n
      BY DEF PilhaOK
    <2>2. CASE i \in 1..Len(s) /\ j \in 1..Len(s)
      BY <1>2, <2>2 DEF PilhaOK
    <2>3. CASE i \in 1..Len(s) /\ j = Len(s) + 1
      BY <1>2, <2>1, <2>3
    <2>4. CASE j \in 1..Len(s) /\ i = Len(s) + 1
      BY <1>2, <2>1, <2>4
    <2> QED
      BY <1>1, <1>2, <2>2, <2>3, <2>4
  <1>6. PilhaOK(p, m)
    BY <1>2, <1>3, <1>4, <1>5 DEF PilhaOK
  <1> QED
    BY <1>2, <1>6 DEF p

LEMMA PilhaUnica ==
    ASSUME NEW n \in Nat, NEW t \in Tela, t.tipo = "login" => t.vm \in 1..n
    PROVE  PilhaOK(<<t>>, n) /\ <<t>>[Len(<<t>>)] = t
  BY DEF PilhaOK

----------------------------------------------------------------------------
(* Type correctness *)

\* Inductive: requests too only name screens that were built.
TiposInv ==
    /\ TypeOK
    /\ PilhaOK(pilha, criadas)
    /\ \A p \in pedidos : p.vm \in 1..criadas

LEMMA TiposInicial == Init => TiposInv
  <1> SUFFICES ASSUME Init PROVE TiposInv
    OBVIOUS
  <1>1. Raiz(usuario, 1) \in Tela /\ (Raiz(usuario, 1).tipo = "login" => Raiz(usuario, 1).vm = 1)
    BY TelaNova, SessaoAssumption DEF Init, Raiz
  <1>2. PilhaOK(pilha, criadas)
    BY <1>1, PilhaUnica DEF Init
  <1>3. criadas \in 1..MaxTelas /\ blocos \in Seq(1..criadas)
    BY SessaoAssumption, EmptySeq DEF Init
  <1>4. /\ pedidos \subseteq Pedido /\ pedidos = {}
        /\ alertas \subseteq 1..criadas /\ encaminharOngHome \subseteq 1..criadas
    BY DEF Init
  <1> QED
    BY <1>2, <1>3, <1>4 DEF Init, TiposInv, TypeOK, PilhaOK

\* A number not given yet is within the bound, and what was built before stays built.
LEMMA NumeroNovo ==
    ASSUME TiposInv, NovaTela
    PROVE  /\ criadas \in Nat /\ criadas' = criadas + 1
           /\ criadas' \in 1..MaxTelas
           /\ 1..criadas \subseteq 1..criadas'
           /\ Login(criadas') \in Tela
           /\ Login(criadas').tipo = "login" /\ Login(criadas').vm = criadas'
  <1>1. /\ criadas \in Nat /\ criadas' = criadas + 1 /\ criadas' \in 1..MaxTelas
        /\ 1..criadas \subseteq 1..criadas'
    BY SessaoAssumption DEF TiposInv, TypeOK, NovaTela
  <1> QED
    BY <1>1, TelaNova

\* Logout, or a redrawn home screen: a new login screen above a home screen.
LEMMA LoginPorCima ==
    ASSUME TiposInv, NovaTela, NEW s, PilhaOK(s, criadas), s[Len(s)].tipo = "home"
    PROVE  /\ PilhaOK(Append(s, Login(criadas')), criadas')
           /\ Append(s, Login(criadas'))[Len(Append(s, Login(criadas')))] = Login(criadas')
  <1>1. /\ criadas \in Nat /\ criadas' \in Nat /\ criadas <= criadas' /\ criadas < criadas'
        /\ Login(criadas') \in Tela
        /\ Login(criadas').tipo = "login" /\ Login(criadas').vm = criadas'
    BY NumeroNovo
  <1> QED
    BY <1>1, PilhaEmpilha

\* What the types ask of the rest when the stack becomes a good one.
LEMMA TiposPilhaNova ==
    ASSUME TiposInv, NovaTela, PilhaOK(pilha', criadas'),
           usuario' \in Contas \cup {Ninguem},
           pedidos' \subseteq pedidos, blocos' = blocos \/ blocos' = <<>>,
           alertas' = alertas, encaminharOngHome' = encaminharOngHome,
           {fora', restou', orfao'} \subseteq BOOLEAN
    PROVE  TiposInv'
  <1>1. criadas' \in 1..MaxTelas /\ 1..criadas \subseteq 1..criadas'
    BY NumeroNovo
  <1>2. blocos' \in Seq(1..criadas')
    BY <1>1, SeqMonotonic, EmptySeq DEF TiposInv, TypeOK
  <1>3. /\ pedidos' \subseteq Pedido
        /\ alertas' \subseteq 1..criadas' /\ encaminharOngHome' \subseteq 1..criadas'
    BY <1>1 DEF TiposInv, TypeOK
  <1>4. \A p \in pedidos' : p.vm \in 1..criadas'
    BY <1>1 DEF TiposInv
  <1> QED
    BY <1>1, <1>2, <1>3, <1>4 DEF TiposInv, TypeOK, PilhaOK

LEMMA TopoTipo ==
    ASSUME TiposInv
    PROVE  /\ Len(pilha) \in Nat \ {0} /\ Len(pilha) \in 1..Len(pilha)
           /\ \A i \in 1..Len(pilha) : pilha[i] \in Tela
           /\ Topo \in Tela
  <1>1. pilha \in Seq(Tela) /\ Len(pilha) \in Nat \ {0}
    BY EmptySeq DEF TiposInv, PilhaOK
  <1> QED
    BY <1>1, ElementOfSeq DEF Topo

\* A home screen over the login screen at position i, or nothing.
LEMMA EncaminharTipo ==
    ASSUME TiposInv, NEW i \in 1..Len(pilha), pilha[i].tipo = "login"
    PROVE  /\ PilhaOK(Encaminhar(i), criadas)
           /\ Encaminhar(i)[Len(Encaminhar(i))]
                 = IF usuario = Ninguem THEN pilha[i] ELSE Home(usuario)
  <1> DEFINE p == SubSeq(pilha, 1, i)
  <1>1. criadas \in Nat /\ PilhaOK(pilha, criadas)
    BY SessaoAssumption DEF TiposInv, TypeOK
  <1>2. PilhaOK(p, criadas) /\ Len(p) = i /\ p[i] = pilha[i]
    BY <1>1, PilhaPrefixo
  <1> HIDE DEF p
  <1>3. p \in Seq(Tela)
    BY <1>2 DEF PilhaOK
  <1>4. CASE usuario = Ninguem
    <2>1. Encaminhar(i) = p
      BY <1>3, <1>4, ConcatEmptySeq DEF Encaminhar, p
    <2> QED
      BY <1>2, <1>4, <2>1
  <1>5. CASE usuario # Ninguem
    <2>1. Home(usuario) \in Tela /\ Home(usuario).tipo = "home"
      BY <1>5, TelaNova DEF TiposInv, TypeOK
    <2>2. Encaminhar(i) = Append(p, Home(usuario))
      BY <1>3, <1>5, <2>1, AppendIsConcat DEF Encaminhar, p
    <2>3. /\ PilhaOK(Append(p, Home(usuario)), criadas)
          /\ Append(p, Home(usuario))[Len(Append(p, Home(usuario)))] = Home(usuario)
      BY <1>1, <1>2, <2>1, PilhaEmpilha
    <2> QED
      BY <1>5, <2>2, <2>3
  <1> QED
    BY <1>4, <1>5

\* A login screen whose body runs leaves the screen in front as it is, or puts
\* there the home screen of the account signed in, or a login screen when no
\* account is.
LEMMA PublicarTipo ==
    ASSUME TiposInv, NEW n, NEW E, Publicar(n, E)
    PROVE  /\ PilhaOK(pilha', criadas)
           /\ \/ pilha' = pilha
              \/ usuario = Ninguem /\ Topo'.tipo = "login"
              \/ usuario # Ninguem /\ Topo' = Home(usuario)
  <1>1. CASE n \in E /\ NaPilha(n)
    <2>1. PICK i \in 1..Len(pilha) : pilha[i] = Login(n) /\ pilha' = Encaminhar(i)
      BY <1>1 DEF Publicar
    <2>2. pilha[i].tipo = "login"
      BY <2>1 DEF Login
    <2>3. Topo' = IF usuario = Ninguem THEN pilha[i] ELSE Home(usuario)
      BY <2>1, <2>2, EncaminharTipo DEF Topo
    <2> QED
      BY <2>1, <2>2, <2>3, EncaminharTipo
  <1>2. CASE ~(n \in E /\ NaPilha(n))
    BY <1>2 DEF Publicar, TiposInv
  <1> QED
    BY <1>1, <1>2

LEMMA TiposPasso == TiposInv /\ [Next]_vars => TiposInv'
  <1> SUFFICES ASSUME TiposInv, [Next]_vars PROVE TiposInv'
    OBVIOUS
  <1>1. ASSUME NEW c \in Contas, Entrar(c) PROVE TiposInv'
    <2>1. Topo.vm \in 1..criadas /\ Topo.vm \in 1..MaxTelas
      BY <1>1, TopoTipo, TelaTipo DEF Entrar, Topo, TiposInv, PilhaOK
    <2>2. pedidos' \subseteq Pedido /\ \A p \in pedidos' : p.vm \in 1..criadas
      BY <1>1, <2>1 DEF Entrar, Pedido, TiposInv, TypeOK
    <2> QED
      BY <1>1, <2>2 DEF Entrar, TiposInv, TypeOK, PilhaOK
  <1>2. ASSUME NEW p \in Pedido, Aceitar(p) PROVE TiposInv'
    <2>1. p.conta \in Contas /\ p.vm \in 1..criadas
      BY <1>2 DEF Aceitar, Pedido, TiposInv
    <2>2. blocos' \in Seq(1..criadas)
      BY <1>2, <2>1, AppendProperties DEF Aceitar, TiposInv, TypeOK
    <2> QED
      BY <1>2, <2>1, <2>2 DEF Aceitar, TiposInv, TypeOK, PilhaOK
  <1>3. ASSUME NEW p \in Pedido, Recusar(p) PROVE TiposInv'
    <2>1. alertas' \subseteq 1..criadas
      BY <1>3 DEF Recusar, TiposInv, TypeOK
    <2>2. PilhaOK(pilha', criadas)
      BY <1>3, PublicarTipo DEF Recusar
    <2> QED
      BY <1>3, <2>1, <2>2 DEF Recusar, TiposInv, TypeOK, PilhaOK
  <1>4. ASSUME Concluir PROVE TiposInv'
    <2>1. blocos' \in Seq(1..criadas) /\ Head(blocos) \in 1..criadas
      BY <1>4, HeadTailProperties DEF Concluir, TiposInv, TypeOK
    <2>2. PilhaOK(pilha', criadas)
      BY <1>4, PublicarTipo DEF Concluir
    <2>3. orfao' \in BOOLEAN
      BY <1>4 DEF Concluir, TiposInv, TypeOK
    <2>4. encaminharOngHome' \subseteq 1..criadas
      BY <1>4, <2>1 DEF Concluir, Ativar, TiposInv, TypeOK
    <2> QED
      BY <1>4, <2>1, <2>2, <2>3, <2>4 DEF Concluir, TiposInv, TypeOK, PilhaOK
  <1>5. ASSUME Logout PROVE TiposInv'
    <2>1. /\ NovaTela /\ pilha' = Append(pilha, Login(criadas'))
          /\ pilha[Len(pilha)].tipo = "home"
      BY <1>5 DEF Logout, Topo
    <2>2. PilhaOK(pilha', criadas')
      BY <2>1, LoginPorCima DEF TiposInv
    <2>3. {fora', restou', orfao'} \subseteq BOOLEAN
      BY <1>5 DEF Logout, TiposInv, TypeOK
    <2> QED
      BY <1>5, <2>1, <2>2, <2>3, TiposPilhaNova DEF Logout, TiposInv, TypeOK
  <1>6. ASSUME NEW i \in 1..Len(pilha), Redesenhar(i) PROVE TiposInv'
    <2>1. /\ NovaTela /\ pilha' = Append(SubSeq(pilha, 1, i), Login(criadas'))
          /\ pilha[i].tipo = "home"
      BY <1>6 DEF Redesenhar
    <2>2. /\ PilhaOK(SubSeq(pilha, 1, i), criadas) /\ Len(SubSeq(pilha, 1, i)) = i
          /\ SubSeq(pilha, 1, i)[i] = pilha[i]
      BY <2>1, NumeroNovo, PilhaPrefixo DEF TiposInv
    <2>3. PilhaOK(pilha', criadas')
      <3> DEFINE p == SubSeq(pilha, 1, i)
      <3>1. PilhaOK(p, criadas) /\ p[Len(p)].tipo = "home" /\ pilha' = Append(p, Login(criadas'))
        BY <2>1, <2>2
      <3> HIDE DEF p
      <3> QED
        BY <2>1, <3>1, LoginPorCima
    <2> QED
      BY <1>6, <2>1, <2>3, TiposPilhaNova DEF Redesenhar, TiposInv, TypeOK
  <1>7. ASSUME Reiniciar PROVE TiposInv'
    <2>1. NovaTela /\ pilha' = <<Raiz(usuario, criadas')>>
      BY <1>7 DEF Reiniciar
    <2>2. /\ Raiz(usuario, criadas') \in Tela
          /\ Raiz(usuario, criadas').tipo = "login"
                => Raiz(usuario, criadas').vm \in 1..criadas'
      BY <2>1, NumeroNovo, TelaNova DEF Raiz, TiposInv, TypeOK
    <2>3. PilhaOK(pilha', criadas')
      BY <2>1, <2>2, NumeroNovo, PilhaUnica
    <2> QED
      BY <1>7, <2>1, <2>3, TiposPilhaNova DEF Reiniciar, TiposInv, TypeOK
  <1>8. ASSUME Digitar PROVE TiposInv'
    <2>1. PilhaOK(pilha', criadas)
      BY <1>8, PublicarTipo DEF Digitar
    <2> QED
      BY <1>8, <2>1 DEF Digitar, TiposInv, TypeOK, PilhaOK
  <1>9. CASE UNCHANGED vars
    BY <1>9 DEF vars, TiposInv, TypeOK, PilhaOK
  <1> QED
    BY <1>1, <1>2, <1>3, <1>4, <1>5, <1>6, <1>7, <1>8, <1>9 DEF Next, Responder

\* The types of the session; login and home screens alternate and no view
\* model is on two screens, however sign-ins, Logouts and redrawn screens mix.
THEOREM TiposSessao == Spec => []TypeOK
  <1>1. TiposInv => TypeOK
    BY DEF TiposInv
  <1> QED
    BY <1>1, TiposInicial, TiposPasso, PTL DEF Spec

----------------------------------------------------------------------------
(* The account on screen *)

LEMMA HomePasso == TiposInv /\ HomeDoUsuario /\ [Next]_vars => HomeDoUsuario'
  <1> SUFFICES ASSUME TiposInv, HomeDoUsuario, [Next]_vars PROVE HomeDoUsuario'
    OBVIOUS
  <1>1. ASSUME NEW c \in Contas, Entrar(c) PROVE HomeDoUsuario'
    BY <1>1 DEF Entrar, HomeDoUsuario, Topo
  <1>2. ASSUME NEW p \in Pedido, Aceitar(p) PROVE HomeDoUsuario'
    <2>1. p.vm \in 1..criadas /\ blocos \in Seq(1..criadas)
      BY <1>2 DEF Aceitar, TiposInv, TypeOK
    <2>2. blocos' # <<>>
      BY <1>2, <2>1, AppendProperties DEF Aceitar
    <2> QED
      BY <2>2 DEF HomeDoUsuario
  <1>3. ASSUME NEW p \in Pedido, Recusar(p) PROVE HomeDoUsuario'
    <2>1. UNCHANGED <<usuario, blocos, orfao>> /\ Publicar(p.vm, encaminharOngHome)
      BY <1>3 DEF Recusar
    <2> QED
      BY <2>1, PublicarTipo DEF HomeDoUsuario, Home, Topo
  <1>4. ASSUME Concluir PROVE HomeDoUsuario'
    <2>1. CASE NaPilha(Head(blocos))
      <3>1. PICK i \in 1..Len(pilha) :
               pilha[i] = Login(Head(blocos)) /\ pilha' = Encaminhar(i)
        BY <1>4, <2>1 DEF Concluir, Publicar, Ativar
      <3>2. pilha[i].tipo = "login"
        BY <3>1 DEF Login
      <3>3. Topo' = IF usuario = Ninguem THEN pilha[i] ELSE Home(usuario)
        BY <3>1, <3>2, EncaminharTipo DEF Topo
      <3>4. usuario' = usuario
        BY <1>4 DEF Concluir
      <3> QED
        BY <3>2, <3>3, <3>4 DEF HomeDoUsuario, Home
    <2>2. CASE ~NaPilha(Head(blocos))
      BY <1>4, <2>2 DEF Concluir, HomeDoUsuario
    <2> QED
      BY <2>1, <2>2
  <1>5. ASSUME NovaTela, NEW s, PilhaOK(s, criadas), s[Len(s)].tipo = "home",
               pilha' = Append(s, Login(criadas'))
        PROVE  HomeDoUsuario'
    <2>1. Topo' = Login(criadas')
      BY <1>5, LoginPorCima DEF Topo
    <2> QED
      BY <2>1 DEF HomeDoUsuario, Login
  <1>6. ASSUME Logout PROVE HomeDoUsuario'
    BY <1>5, <1>6 DEF Logout, Topo, TiposInv
  <1>7. ASSUME NEW i \in 1..Len(pilha), Redesenhar(i) PROVE HomeDoUsuario'
    <2>1. NovaTela /\ pilha[i].tipo = "home"
      BY <1>7 DEF Redesenhar
    <2>2. /\ PilhaOK(SubSeq(pilha, 1, i), criadas) /\ Len(SubSeq(pilha, 1, i)) = i
          /\ SubSeq(pilha, 1, i)[i] = pilha[i]
      BY <2>1, NumeroNovo, PilhaPrefixo DEF TiposInv
    <2> QED
      BY <1>5, <1>7, <2>1, <2>2 DEF Redesenhar
  <1>8. ASSUME Reiniciar PROVE HomeDoUsuario'
    <2>1. Topo' = Raiz(usuario, criadas') /\ usuario' = usuario
      BY <1>8 DEF Reiniciar, Topo
    <2> QED
      BY <2>1 DEF HomeDoUsuario, Raiz, Login, Home
  <1>9. ASSUME Digitar PROVE HomeDoUsuario'
    <2>1. UNCHANGED <<usuario, blocos, orfao>> /\ Publicar(Topo.vm, encaminharOngHome)
      BY <1>9 DEF Digitar
    <2> QED
      BY <2>1, PublicarTipo DEF HomeDoUsuario, Home, Topo
  <1>10. CASE UNCHANGED vars
    BY <1>10 DEF vars, HomeDoUsuario, Topo
  <1> QED
    BY <1>1, <1>2, <1>3, <1>4, <1>6, <1>7, <1>8, <1>9, <1>10 DEF Next, Responder

\* The home screen in front belongs to the account signed in, once the answers
\* have been handled, unless one came for a screen that had been replaced.
THEOREM HomeSempreDoUsuario == Spec => []HomeDoUsuario
  <1>1. Init => HomeDoUsuario
    BY DEF Init, HomeDoUsuario, Topo, Raiz, Login, Home
  <1> QED
    BY <1>1, TiposInicial, TiposPasso, HomePasso, PTL DEF Spec

----------------------------------------------------------------------------
(* Logout *)

\* Inductive: after a Logout with no sign-in under way none is until "Entrar".
SaidaInv ==
    /\ SaidaVale
    /\ fora /\ ~restou => pedidos = {} /\ blocos = <<>>

LEMMA SaidaPasso == TiposInv /\ SaidaInv /\ [Next]_vars => SaidaInv'
  <1> SUFFICES ASSUME TiposInv, SaidaInv, [Next]_vars PROVE SaidaInv'
    OBVIOUS
  <1>1. ASSUME NEW c \in Contas, Entrar(c) PROVE SaidaInv'
    BY <1>1 DEF Entrar, SaidaInv, SaidaVale
  <1>2. ASSUME NEW p \in Pedido, Responder(p) PROVE SaidaInv'
    BY <1>2 DEF Responder, Aceitar, Recusar, SaidaInv, SaidaVale
  <1>3. ASSUME Concluir PROVE SaidaInv'
    BY <1>3 DEF Concluir, SaidaInv, SaidaVale
  <1>4. ASSUME NovaTela, NEW s, PilhaOK(s, criadas), s[Len(s)].tipo = "home",
               pilha' = Append(s, Login(criadas'))
        PROVE  Topo'.tipo = "login"
    <2>1. Topo' = Login(criadas')
      BY <1>4, LoginPorCima DEF Topo
    <2> QED
      BY <2>1 DEF Login
  <1>5. ASSUME Logout PROVE SaidaInv'
    <2>1. Topo'.tipo = "login"
      BY <1>4, <1>5 DEF Logout, Topo, TiposInv
    <2> QED
      BY <1>5, <2>1 DEF Logout, SaidaInv, SaidaVale
  <1>6. ASSUME NEW i \in 1..Len(pilha), Redesenhar(i) PROVE SaidaInv'
    <2>1. NovaTela /\ pilha[i].tipo = "home"
      BY <1>6 DEF Redesenhar
    <2>2. /\ PilhaOK(SubSeq(pilha, 1, i), criadas) /\ Len(SubSeq(pilha, 1, i)) = i
          /\ SubSeq(pilha, 1, i)[i] = pilha[i]
      BY <2>1, NumeroNovo, PilhaPrefixo DEF TiposInv
    <2>3. Topo'.tipo = "login"
      BY <1>4, <1>6, <2>1, <2>2 DEF Redesenhar
    <2> QED
      BY <1>6, <2>3 DEF Redesenhar, SaidaInv, SaidaVale
  <1>7. ASSUME Reiniciar PROVE SaidaInv'
    <2>1. Topo' = Raiz(usuario, criadas')
      BY <1>7 DEF Reiniciar, Topo
    <2> QED
      BY <1>7, <2>1 DEF Reiniciar, Raiz, Login, SaidaInv, SaidaVale
  <1>8. ASSUME Digitar PROVE SaidaInv'
    <2>1. /\ UNCHANGED <<usuario, pedidos, blocos, fora, restou>>
          /\ Publicar(Topo.vm, encaminharOngHome)
      BY <1>8 DEF Digitar
    <2>2. usuario = Ninguem /\ Topo.tipo = "login" => Topo'.tipo = "login"
      BY <2>1, PublicarTipo DEF Topo
    <2> QED
      BY <2>1, <2>2 DEF SaidaInv, SaidaVale
  <1>9. CASE UNCHANGED vars
    BY <1>9 DEF vars, SaidaInv, SaidaVale, Topo
  <1> QED
    BY <1>1, <1>2, <1>3, <1>5, <1>6, <1>7, <1>8, <1>9 DEF Next

\* A Logout that worked lasts, through redrawn screens and restarts, until
\* someone asks to sign in, unless a sign-in was under way when it was pressed.
THEOREM SaidaSempreVale == Spec => []SaidaVale
  <1>1. Init => SaidaInv
    BY DEF Init, SaidaInv, SaidaVale
  <1>2. SaidaInv => SaidaVale
    BY DEF SaidaInv
  <1> QED
    BY <1>1, <1>2, TiposInicial, TiposPasso, SaidaPasso, PTL DEF Spec
=============================================================================
