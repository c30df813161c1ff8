SPECIFICATION FairSpec
CONSTANTS
    Ongs = {o1, o2}
    Fotos = {f1, f2}
    SemFoto = SemFoto
    Ausente = Ausente
    MaxListas = 2
    MaxTelas = 4
    MaxMudancas = 1
    MaxFalhas = 1
INVARIANTS ImagemDaLista NadaSePerde
PROPERTY ImagensChegam
CHECK_DEADLOCK FALSE
