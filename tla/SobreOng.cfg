SPECIFICATION FairDoador
CONSTANTS
    Ongs = {o1}
    Fotos = {f1}
    SemFoto = SemFoto
    Ausente = Ausente
    SemSite = {}
    MaxListas = 2
    MaxTelas = 5
    MaxMudancas = 1
    MaxFalhas = 1
INVARIANTS TypeOKDoador ContribuaAcompanha
PROPERTIES PerfilFica JanelaFecha
CHECK_DEADLOCK FALSE
