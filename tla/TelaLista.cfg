SPECIFICATION FairSpec
CONSTANTS
    Ids <- MCIds
    Conteudo <- MCConteudo
    Urgentes <- MCUrgentes
    Ausente = Ausente
    Vistas <- MCVistas
    MaxFila = 2
    MaxPedidos = 1
INVARIANTS TypeOK ListaFiel EspelhaColecao QuedaSoSeDivergiu
PROPERTY PublicacaoChega
CHECK_DEADLOCK FALSE
