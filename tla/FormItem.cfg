SPECIFICATION FairSpec
CONSTANTS
    k1 = k1
    k2 = k2
    a = a
    Aparelhos = {d1, d2}
    Ids = {k1, k2}
    Conteudo = {a, b}
    Ausente = Ausente
    Inicial <- MCInicial
    Invalidos = {vazio}
    Fechado = Fechado
    Novo = Novo
    kMaxPendingWrites = 3
    MaxHora = 2
    MaxFalhas = 1
INVARIANTS TypeOK CriacaoUnica
PROPERTIES ImplementaEstoque RessurreicaoSoPorReenvio Convergem
CHECK_DEADLOCK FALSE
