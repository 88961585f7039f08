CONSTANTS
    Channel = {1}
    Author = {1}
    SeqNo = {0, 1}
    MaxPrefix = 0
    Prefix <- MCPrefix
    Cap = 3
SPECIFICATION Spec
PROPERTIES RepairedByIngest
