SPECIFICATION Spec
CONSTANTS
    NumConnects = 2
    NumLeaves = 1
    Timeout = 2
PROPERTY ConnectedIsNotExpired
CHECK_DEADLOCK FALSE
