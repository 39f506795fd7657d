SPECIFICATION Spec
CONSTANTS
    Keys <- MCKeys
    Values = {1}
PROPERTY IsStore
