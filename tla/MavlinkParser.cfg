CONSTANTS
    Volts = {185, 228, 260}
    Yaws <- MCYaws
    Headings = {90, 655}
    Percents <- MCPercents
    MaxErrors = 2
SPECIFICATION Spec
INVARIANTS
    TypeOK
    NeverMixed
PROPERTIES
    SourceIsShown
