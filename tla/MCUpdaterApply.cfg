SPECIFICATION FairSpec
CONSTANTS
    Updaters = {scheduled}
    MaxVersion = 3
    Troubles <- MCTroubles
INVARIANTS SomeProgram DownMeanwhile
PROPERTIES NoDowngrade RunsAgain
