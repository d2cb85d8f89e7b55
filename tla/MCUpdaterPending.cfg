SPECIFICATION Spec
CONSTANTS
    Updaters = {scheduled}
    MaxVersion = 3
    Troubles <- MCTroubles
PROPERTY WhileStopped
