SPECIFICATION FairSpec
CONSTANTS
    a = a
    b = b
    x = x
    y = y
    Urls = {a}
    Domains = {x, y}
    Versions = {1, 2, 3}
    Names <- MCNames
    Validated = {a}
    MaxId = 1
    MaxHandlers = 1
    Budget <- OneDbFault
PROPERTY
    ConvergesWhenQuiet
