SPECIFICATION RegistrySpec
CONSTANTS
    Thread = {"t1", "t2"}
    Piece <- MCPiece
    Uses <- MCUses
    Object <- MCObject
    Result <- MCResult
    Existing = {"string type"}
    ByValue = {"record type", "string type"}
    Unhashable = {"made service"}
    Reconstructed = {"rec", "attr"}
INVARIANTS OneActorPerPiece ReverseMatches FailedByRace
