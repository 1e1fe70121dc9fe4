CONSTANTS
    task = task
    subtask = subtask
    subport = subport
    other = other
    port = port
    shared = shared
    Tasks = {task, subtask, other}
    Patterns = {subport, port, shared}
    Main = Main
    Owner <- ChainOwner
    Users <- ChainUsers
    Class <- ChainClass
SPECIFICATION FairShutdownSpec
PROPERTY ComponentShutdownEnds
CHECK_DEADLOCK FALSE
