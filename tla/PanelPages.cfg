\* Every part of the panel, two handlers at a time, two rows, two answers per list.
CONSTANTS
    Units <- MCUnits
    Forgotten <- MCForgotten
    Rows = {1, 2}
    Slots = {1, 2}
    MaxReads = 2
SPECIFICATION PagesSpec
\* States that differ only in what nothing looks at again are one.
VIEW Visible
INVARIANTS
    PagesTypeOK
    ShowsWhatItDid
    ButtonsComeBack
    OneAtATime
