SPECIFICATION FairSpec
CONSTANTS
    io = io
    main = main
    api = api
    Callers = {io, main, api}
PROPERTIES CallsReturn ImplementsLifecycle
\* a destroyed worker is left alone
CHECK_DEADLOCK FALSE
