CONSTANTS
    a = a
    b = b
    row = row
    Keys = {a, b}
    Row <- OneRow
    TimeMax = 2
    AsymTimeMax = 1
    Times = {2}
    DefaultType = "sym_eager_pk"
    DefaultTime = 0
    SwitchAnytime = FALSE
SPECIFICATION Spec
SYMMETRY Alike
INVARIANT TypeOK
PROPERTIES NoiseFiltered LockedOut Settles
