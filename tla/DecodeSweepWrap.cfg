CONSTANTS
    WordSize = 16
    FileSize = 6
    MaxLength = 3
    ChunkSize = 2
    MaxTable = 7
    Unset = Unset
    None = None
    Decoders = {"x86"}
    Layouts <- MCWrappingLayouts
SPECIFICATION Spec
PROPERTY TablesStay
