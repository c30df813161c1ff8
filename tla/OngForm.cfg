SPECIFICATION FairSpec
CONSTANTS
    Validos = {valido}
    Invalidos = {branco}
    Branco = branco
    Imagens = {i1, i2}
    SemFoto = SemFoto
    ComCadastro = TRUE
    Ausente = Ausente
    MaxHora = 2
    MaxBuscas = 1
    MaxEnvios = 2
    MaxFalhas = 1
INVARIANTS TypeOK InvalidoSoPorUpload FotoJaGravada ImagemMostradaGravada
PROPERTIES CadastroConclui DataSoVoltaSeHomeVelha
CHECK_DEADLOCK FALSE
