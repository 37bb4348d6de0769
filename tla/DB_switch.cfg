CONSTANTS
    a = a
    row = row
    Keys = {a}
    Row <- OneRow
    TimeMax = 2
    AsymTimeMax = 1
    Times = {2}
    DefaultType = "sym_eager_pk"
    DefaultTime = 0
    SwitchAnytime = TRUE
SPECIFICATION Spec
INVARIANT NoKeyForgotten
