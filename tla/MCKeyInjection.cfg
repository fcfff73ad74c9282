SPECIFICATION Spec
CONSTANTS
    Codes = {1, 2, 3, 4}
    Offset = 1
    Characters = {"a", "A", "b", "x"}
    Exotic = {"e"}
    Keymaps <- MCKeymaps
    Us <- MCUs
    Texts <- MCTexts
INVARIANTS
    TypeOK
    DownIsOwed
    KeysSpellText
