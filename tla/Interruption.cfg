SPECIFICATION FairSpec
CONSTANTS
    n1 = n1
    None = None
    Names = {n1}
    MaxSignals = 3
    MaxUID = 2
PROPERTIES OnlyInterruptedGo InterruptedIsHandled
