CONSTANTS
    Symbol <- MCSymbol
    Demangled <- MCDemangled
    ShortMod = 3
    NumberText <- MCNumberText
    Text <- MCText
    Special <- MCSpecial
    NoteSet <- MCNotes
    Stacks <- MCStacks
    NumberOfLines = 2
    Limits = {0, 4}
    Levels = {"Error"}
    MaxInfos = 3
    MaxEntries = 2
SPECIFICATION ExceptionSpec
INVARIANTS
    ExceptionTypeOK
    WithinBuffer
    LinesAreInnermost
    WhatReadsBack
    StreamReadsBack
