CONSTANTS
    u1 = u1
    l1 = l1
    a1 = a1
    MaxTexture = 3
    CollectionNames = {1, 2}
    Units = {u1}
    Luts = {l1}
    SlotChoices <- MCSlotChoices
    MaxBuffer = 3
    Collectable = {1}
    Attributes = {a1}
    MaxFb = 2
    MaxRb = 3
    AttachPoints = {"color", "depth"}
    MaxDisplayBuffer = 2
    Layouts = {"RGB8"}
    MaxBlock = 3
    Sizes = {"small", "large"}
SPECIFICATION ObjectsSpec
INVARIANTS TexturesSound BuffersSound AttachmentsLive DisplayMemoryOwned BlocksOwned
