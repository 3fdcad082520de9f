SPECIFICATION ThreadPoolLiveSpec
CONSTANTS
    w1 = w1  w2 = w2  c1 = c1  c2 = c2  o1 = o1  o2 = o2  o3 = o3  o4 = o4
    Worker = {w1, w2}
    Client = {c1, c2}
    Task = {o1, o2, o3, o4}
    NoTask = NoTask
    Nobody = Nobody
CHECK_DEADLOCK FALSE
PROPERTIES ImplementsTaskQueue EveryTaskBegins AddTaskReturns
