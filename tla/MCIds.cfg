CONSTANTS
    a = a  b = b  n1 = n1  n2 = n2  n3 = n3  n4 = n4  NoID = NoID
    x = x  y = y
SPECIFICATION Spec
INVARIANT AliasesAgree
INVARIANT VotesAgree
