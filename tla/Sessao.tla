------------------------------- MODULE Sessao -------------------------------
(***************************************************************************)
(* The session of RelpiAdmin: who is signed in (Auth.auth().currentUser,   *)
(* kept over restarts) and the stack of screens that sign-in and Logout    *)
(* push on each other.                                                     *)
(*                                                                         *)
(* ContentView chooses the first screen when it appears.  A login screen   *)
(* asks Auth and, one turn of the main queue after the answer, opens the   *)
(* home screen of whoever is signed in by then.  Logout signs out and      *)
(* pushes a new login screen: neither the home screen nor its listener is  *)
(* left.  A screen's body builds the view model of the screen above it, so *)
(* a screen that is drawn again replaces what was above.                   *)
(*                                                                         *)
(* The link to the sign-up screens is hidden (LoginCadastroView), so a     *)
(* login screen only signs in.                                             *)
(***************************************************************************)
EXTENDS Integers, Sequences, FiniteSets

CONSTANTS
    Contas,      \* accounts of NGOs
    Ninguem,     \* currentUser == nil
    MaxTelas,    \* bound on login screens
    MaxPedidos   \* bound on sign-ins under way or waiting in the main queue

ASSUME SessaoAssumption ==
    /\ Ninguem \notin Contas
    /\ MaxTelas \in Nat \ {0}
    /\ MaxPedidos \in Nat

VARIABLES
    usuario,   \* Auth.auth().currentUser
    pilha,     \* the navigation stack
    criadas,   \* login view models so far
    pedidos,   \* sign-ins Auth has not answered
    blocos,    \* main queue: view models whose sign-in succeeded
    alertas,   \* login view models that show a message
    encaminharOngHome,   \* login view models whose link to the home is active
    fora,      \* history: signed out, and no sign-in was asked for since
    restou,    \* history: a sign-in was under way at the last Logout
    orfao      \* history: a sign-in succeeded whose screen was gone

vars == <<usuario, pilha, criadas, pedidos, blocos, alertas, encaminharOngHome, fora,
          restou, orfao>>

Login(n) == [tipo |-> "login", vm |-> n]
Home(c) == [tipo |-> "home", id |-> c]
Pedido == [vm : 1..MaxTelas, conta : Contas]

Topo == pilha[Len(pilha)]
NaPilha(n) == \E i \in 1..Len(pilha) : pilha[i] = Login(n)

\* ContentView: `autenticado` is set once, when the view appears.
Raiz(c, n) == IF c = Ninguem THEN Login(n) ELSE Home(c)

Init ==
    /\ usuario \in Contas \cup {Ninguem}
    /\ pilha = <<Raiz(usuario, 1)>>
    /\ criadas = 1
    /\ pedidos = {}
    /\ blocos = <<>>
    /\ alertas = {}
    /\ encaminharOngHome = {}
    /\ fora = FALSE
    /\ restou = FALSE
    /\ orfao = FALSE

----------------------------------------------------------------------------
\* Button "Entrar" (cadastrarLogar in mode login -> UserService.login).
Entrar(c) ==
    /\ Topo.tipo = "login"
    /\ Cardinality(pedidos) + Len(blocos) < MaxPedidos
    /\ pedidos' = pedidos \cup {[vm |-> Topo.vm, conta |-> c]}
    /\ fora' = FALSE
    /\ UNCHANGED <<usuario, pilha, criadas, blocos, alertas, encaminharOngHome, restou,
                   orfao>>

\* Auth accepts: currentUser changes; the completion waits in the main queue.
Aceitar(p) ==
    /\ p \in pedidos
    /\ pedidos' = pedidos \ {p}
    /\ usuario' = p.conta
    /\ blocos' = Append(blocos, p.vm)
    /\ UNCHANGED <<pilha, criadas, alertas, encaminharOngHome, fora, restou, orfao>>

\* Mutant: the home screen is pushed on whatever is in front.
EncaminharPorCima(i) ==
    pilha \o (IF usuario = Ninguem THEN <<>> ELSE <<Home(usuario)>>)

\* What is above the screen at position i once its body has run with its link
\* to the home screen active: `if let id = viewModel.id`.
Encaminhar(i) ==
    SubSeq(pilha, 1, i) \o (IF usuario = Ninguem THEN <<>> ELSE <<Home(usuario)>>)

\* Login view model n publishes a change and, if its screen exists, the body
\* runs: the destination of an active link is built anew.  E: the view models
\* whose link is active.
Publicar(n, E) ==
    IF n \in E /\ NaPilha(n)
    THEN \E i \in 1..Len(pilha) : pilha[i] = Login(n) /\ pilha' = Encaminhar(i)
    ELSE UNCHANGED pilha

\* self?.encaminharOngHome = true
Ativar(n) == IF NaPilha(n) THEN encaminharOngHome \cup {n} ELSE encaminharOngHome

\* The user types an e-mail or a password.
Digitar ==
    /\ Topo.tipo = "login"
    /\ Publicar(Topo.vm, encaminharOngHome)
    /\ UNCHANGED <<usuario, criadas, pedidos, blocos, alertas, encaminharOngHome, fora,
                   restou, orfao>>

\* Mutant: the failure branch shows nothing.
RecusarSemAlerta(p) ==
    /\ p \in pedidos
    /\ pedidos' = pedidos \ {p}
    /\ UNCHANGED <<usuario, pilha, criadas, blocos, alertas, encaminharOngHome, fora,
                   restou, orfao>>

\* Auth refuses: the screen, if it still exists, shows the message.
Recusar(p) ==
    /\ p \in pedidos
    /\ pedidos' = pedidos \ {p}
    /\ alertas' = IF NaPilha(p.vm) THEN alertas \cup {p.vm} ELSE alertas
    /\ Publicar(p.vm, encaminharOngHome)
    /\ UNCHANGED <<usuario, criadas, blocos, encaminharOngHome, fora, restou, orfao>>

\* Mutant: a home screen that is already open is left alone.
ConcluirSoPrimeira ==
    /\ blocos # <<>>
    /\ blocos' = Tail(blocos)
    /\ encaminharOngHome' = Ativar(Head(blocos))
    /\ IF Topo = Login(Head(blocos)) THEN pilha' = Encaminhar(Len(pilha)) ELSE UNCHANGED pilha
    /\ orfao' = (orfao \/ ~NaPilha(Head(blocos)))
    /\ UNCHANGED <<usuario, criadas, pedidos, alertas, fora, restou>>

\* The success branch of the sign-in.
Concluir ==
    /\ blocos # <<>>
    /\ blocos' = Tail(blocos)
    /\ encaminharOngHome' = Ativar(Head(blocos))
    /\ Publicar(Head(blocos), encaminharOngHome')
    /\ orfao' = (orfao \/ ~NaPilha(Head(blocos)))
    /\ UNCHANGED <<usuario, criadas, pedidos, alertas, fora, restou>>

NovaTela == criadas < MaxTelas /\ criadas' = criadas + 1

\* Mutant: Logout only opens the login screen.
LogoutSoTela ==
    /\ Topo.tipo = "home"
    /\ NovaTela
    /\ pilha' = Append(pilha, Login(criadas'))
    /\ fora' = TRUE
    /\ restou' = (pedidos # {} \/ blocos # <<>>)
    /\ UNCHANGED <<usuario, pedidos, blocos, alertas, encaminharOngHome, orfao>>

\* Button "Logout": signOut may throw, which is only logged.
Logout ==
    /\ Topo.tipo = "home"
    /\ NovaTela
    /\ pilha' = Append(pilha, Login(criadas'))
    /\ \/ usuario' = Ninguem /\ fora' = TRUE
       \/ UNCHANGED usuario /\ fora' = FALSE
    /\ restou' = (pedidos # {} \/ blocos # <<>>)
    /\ UNCHANGED <<pedidos, blocos, alertas, encaminharOngHome, orfao>>

\* A home screen in the stack publishes a change (its listener is never
\* removed): the login screen above it gets a new view model, whose
\* encaminharOngHome is false.
Redesenhar(i) ==
    /\ i < Len(pilha) /\ pilha[i].tipo = "home"
    /\ NovaTela
    /\ pilha' = Append(SubSeq(pilha, 1, i), Login(criadas'))
    /\ UNCHANGED <<usuario, pedidos, blocos, alertas, encaminharOngHome, fora, restou,
                   orfao>>

\* The app is killed and started again; Auth remembers the user.
Reiniciar ==
    /\ NovaTela
    /\ pilha' = <<Raiz(usuario, criadas')>>
    /\ pedidos' = {}
    /\ blocos' = <<>>
    /\ UNCHANGED <<usuario, alertas, encaminharOngHome, fora, restou, orfao>>

Responder(p) == Aceitar(p) \/ Recusar(p)

Next ==
    \/ \E c \in Contas : Entrar(c)
    \/ Digitar
    \/ \E p \in Pedido : Responder(p)
    \/ Concluir
    \/ Logout
    \/ \E i \in 1..Len(pilha) : Redesenhar(i)
    \/ Reiniciar

Spec == Init /\ [][Next]_vars

\* Auth answers every sign-in, if only with an error; the main queue runs.
FairSpec ==
    /\ Spec
    /\ \A p \in Pedido : WF_vars(Responder(p))
    /\ WF_vars(Concluir)

----------------------------------------------------------------------------
(* Properties *)

Tela == [tipo : {"login"}, vm : 1..MaxTelas] \cup [tipo : {"home"}, id : Contas]

\* The types; login and home screens alternate, no view model is on two
\* screens, and only screens that were built wait for an answer.
TypeOK ==
    /\ usuario \in Contas \cup {Ninguem}
    /\ pilha \in Seq(Tela) /\ pilha # <<>>
    /\ \A i \in 1..(Len(pilha) - 1) : pilha[i].tipo # pilha[i + 1].tipo
    /\ \A i, j \in 1..Len(pilha) :
          pilha[i].tipo = "login" /\ pilha[i] = pilha[j] => i = j
    /\ criadas \in 1..MaxTelas
    /\ pedidos \subseteq Pedido
    /\ blocos \in Seq(1..criadas)
    /\ alertas \subseteq 1..criadas /\ encaminharOngHome \subseteq 1..criadas
    /\ {fora, restou, orfao} \subseteq BOOLEAN

\* The home screen in front is that of the account that is signed in, once
\* the successful sign-ins have been handled, whatever their order, unless
\* one succeeded whose screen had been replaced (LoginCadastroView's link is
\* built with the id of usuarioAtual()).
HomeDoUsuario ==
    Topo.tipo = "home" /\ blocos = <<>> /\ ~orfao => Topo.id = usuario

\* After a Logout that worked nobody is signed in and a login screen is in
\* front, through redrawn screens and restarts, until someone asks to sign
\* in, unless a sign-in was already under way when Logout was pressed.
SaidaVale == fora /\ ~restou => usuario = Ninguem /\ Topo.tipo = "login"

\* Whoever presses "Entrar" is shown a home screen or a message, unless the
\* login screen is replaced meanwhile.
EntrarResolve ==
    \A n \in 1..MaxTelas :
        (\E p \in pedidos : p.vm = n) ~>
            (n \in alertas \/ Topo.tipo = "home" \/ ~NaPilha(n))
=============================================================================
