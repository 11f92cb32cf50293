SPECIFICATION Spec
CONSTANTS
    MaxParts <- Lengths
    MaxHeaders = 2
    Size = 256
    Exact = 256
    Int64 = 5000
    Largest = 5000
    Round <- NearestEven
    Width = 16
INVARIANTS ToIntegerCorrect QueryCorrect OptionsCorrect StatusCorrect HeadCorrect
\* An input of full length.
CHECK_DEADLOCK FALSE
