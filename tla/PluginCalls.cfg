CONSTANTS
    Host = Host
    Plugin = Plugin
    NoFunction = NoFunction
    NoCall = NoCall
    f = f
    g = g
    run = run
    useF = useF
    useG = useG
    useGAgain = useGAgain
    Function = {f, g}
    Call <- MCCall
    Caller <- MCCaller
    Args <- MCArgs
    Handlers <- MCHandlers
    Target <- MCTarget

SPECIFICATION Spec

INVARIANT TypeOK
 
INVARIANT AnswerIsOwn
INVARIANT RunsOnce
INVARIANT HostStoreIsTidy

 

CHECK_DEADLOCK FALSE
