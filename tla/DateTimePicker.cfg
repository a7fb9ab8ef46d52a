SPECIFICATION Spec
CONSTANTS
    FirstYear = 1990
    FirstWeekday = 1
    Years = 45
    Options <- MCOptions
    Reach <- MCReach
    Texts <- MCTexts
    StartTexts <- MCStartTexts
    EndTexts <- MCEndTexts
    Now <- MCNow
    Null = Null
    Empty = Empty
INVARIANTS TypeOK DrawnIsCurrent ChosenIsShownAndInRange ArithmeticAgrees
