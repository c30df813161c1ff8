SPECIFICATION Spec
CONSTANTS
    Validos = {v1, v2}
    Invalidos = {branco}
    Branco = branco
    Imagens = {i1, i2}
    SemFoto = SemFoto
    ComCadastro = FALSE
    Ausente = Ausente
    MaxHora = 2
    MaxBuscas = 1
    MaxEnvios = 2
    MaxFalhas = 0
INVARIANT PerfilValidado
CHECK_DEADLOCK FALSE
