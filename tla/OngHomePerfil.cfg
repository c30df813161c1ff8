SPECIFICATION FairSpec
CONSTANTS
    Ids <- MCIds
    Conteudo <- MCConteudo
    Ausente = Ausente
    Vistas <- Vazia
    Perfis <- Perfis2
    SemFoto = SemFoto
    Nil = Nil
    SemImagem = SemImagem
    MaxFila = 2
    MaxPedidos = 2
    MaxDownloads = 1
    MaxFalhas = 1
INVARIANTS RodinhaTemMotivo ImagemEmDia
PROPERTY RodinhaApaga
CHECK_DEADLOCK FALSE
