SPECIFICATION FairSpec
CONSTANTS
    Ids <- MCIds
    Conteudo <- MCConteudo
    Ausente = Ausente
    Vistas <- MCVistas
    Perfis <- MCPerfis
    SemFoto = SemFoto
    Nil = Nil
    SemImagem = SemImagem
    MaxFila = 2
    MaxPedidos = 2
    MaxDownloads = 1
    MaxFalhas = 1
INVARIANTS TypeOK EstoqueFiel QuedaSoSeDivergiu
PROPERTY EstoqueVolta
CHECK_DEADLOCK FALSE
