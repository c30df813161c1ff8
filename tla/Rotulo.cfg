SPECIFICATION FairSpecRotulo
CONSTANTS
    Ids <- MCIds
    Nomes <- MCNomes
    Estoques <- MCEstoques
    Pesquisas <- MCPesquisas
    SemPesquisa = ""
    Contem <- MCContem
    Admin = FALSE
    TelaGrande = TRUE
    MaxDatas = 2
    MaxLeituras = 2
    MaxHome = 2
INVARIANTS SoUtensilioSome TituloComItens PreviaNoEstoque DataConferida
PROPERTIES RotuloSoVoltaRefeito DataChega
