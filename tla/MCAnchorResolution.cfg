CONSTANTS
    Letters <- MCLetters
    Sources <- MCSources
    Focuses <- MCFocuses
    Snippets <- MCSnippets
    Replacements <- MCReplacements
    MaxChars = 5
    MaxWindows = 2
    Before = 1
    After = 1
    Short = 3
    Middle = 3
    Long = 4
    FragmentFrom = 3
    MaxStep = 2
SPECIFICATION Spec
INVARIANTS EditLandsWhereSelected CausalOccurrence
CHECK_DEADLOCK FALSE
