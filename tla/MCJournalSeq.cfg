SPECIFICATION JournalSpec
CONSTANT
    MaxAppends = 3
INVARIANT
    SeqIncreases
