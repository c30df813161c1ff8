SPECIFICATION Spec
CONSTANTS
    Ids <- MCIds
    Conteudo <- MCConteudo
    Urgentes <- MCUrgentes
    Ausente = Ausente
    Vistas <- MCVistas
    MaxFila = 2
    MaxPedidos = 1
INVARIANT SemQueda
CHECK_DEADLOCK FALSE
