SPECIFICATION SequentialSpec

CONSTANTS
    NodeIds = {"a", "b"}
    Millis <- Numbers
    Items <- Options
    MAX_ITEMS = 4
    DeckKeys <- DeckNames
    CardKeys <- CardNames
    DefinitionRefs <- References
    Blank = {3}
    Control = {4}
    MAX_CARDS_PER_DECK = 2
    MAX_KEY_BYTES = 2
    MAX_DEFINITION_REF_BYTES = 2
    MAX_OFFERED = 2
    Chars <- AllChars
    Controls = {"tab"}
    Blanks = {"space", "tab"}
    Width <- Utf8
    Pastes <- Clipboards
    QuitWord <- Quit
    MAX_INPUT_BYTES = 4

INVARIANTS
    OrderOfOptionsIrrelevant
    CompilesTheValid
    DigestIdentifies
    LaunchBindsTheSpec

PROPERTIES
    ImplementsLineEditor

\* A line is parsed, a Deck compiled once; "/quit" ends the chat.
CHECK_DEADLOCK FALSE
