SPECIFICATION FairSpec
CONSTANTS
    Contas = {c1, c2}
    Ninguem = Ninguem
    MaxTelas = 4
    MaxPedidos = 2
INVARIANTS TypeOK HomeDoUsuario SaidaVale
PROPERTY EntrarResolve
CHECK_DEADLOCK FALSE
