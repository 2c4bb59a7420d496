----------------------------- MODULE MCObjects ------------------------------
\* Objects that several threads use with few locks or none: a Socket, a ConfigVar, a
\* Logger and its formatter, a ConcurrentVector, a Thread (they share no state).
EXTENDS Socket, Config, Logger, LogFormatter, ConcurrentVector, Thread

VARIABLE part

Parts == {"socket", "config", "logger", "format", "vector", "thread"}

ObjectsInit ==
    /\ part \in Parts
    /\ SocketInit /\ ConfigInit /\ LoggerInit /\ FormatInit /\ VectorInit /\ ThreadInit

Only(p) ==
    /\ part = p /\ UNCHANGED part
    /\ p # "socket" => UNCHANGED sockVars
    /\ p # "config" => UNCHANGED configVars
    /\ p # "logger" => UNCHANGED logVars
    /\ p # "format" => UNCHANGED formatVars
    /\ p # "vector" => UNCHANGED vecVars
    /\ p # "thread" => UNCHANGED threadVars

ObjectsNext ==
    \/ Only("socket") /\ SocketNext
    \/ Only("config") /\ ConfigNext
    \/ Only("logger") /\ LoggerNext
    \/ Only("format") /\ FormatNext
    \/ Only("vector") /\ VectorNext
    \/ Only("thread") /\ ThreadNext

ObjectsSpec ==
    ObjectsInit /\ [][ObjectsNext]_<<part, sockVars, configVars, logVars, formatVars, vecVars, threadVars>>
=============================================================================
