------------------------------- MODULE Logger -------------------------------
(***************************************************************************)
(* One Logger and its appenders: which formatter each appender uses, and   *)
(* what the operations that take m_mutex (log, add, del, clear and         *)
(* setFormatter of a pattern) are worth beside the two that do not         *)
(* (setFormatter of a pointer, of a Logger and of an appender).            *)
(*                                                                         *)
(* Events are logged at a level that passes; an event of a logger without  *)
(* appenders goes to the root logger, whose only appender writes to stdout.*)
(***************************************************************************)
EXTENDS Integers, Sequences, SequencesExt

CONSTANTS
    LogUsers,           \* threads
    Appenders, Files,   \* appenders; those of class FileLogAppender
    Formatters,         \* LogFormatter objects
    MaxList,            \* appenders in the list
    MaxLogOps           \* operations in a run

NoFormatter == "null"   \* a null pointer

ASSUME LoggerAssumption ==
    /\ Files \subseteq Appenders /\ Formatters # {} /\ NoFormatter \notin Formatters
    /\ MaxList \in Nat /\ MaxLogOps \in Nat

VARIABLES
    logger,         \* m_formatter and m_appenders
    appender,       \* for each appender m_formatter and m_hasFormatter
    luser,          \* what each thread is doing, at which place of m_appenders
    lops,           \* operations so far
    hurt,           \* what has gone wrong, by name
    met,            \* ghost: an operation without the lock met another operation
    nulled,         \* ghost: a null pointer was given as a formatter
    astray          \* ghost: appenders that need not have the logger's formatter

logVars == <<logger, appender, luser, lops, hurt, met, nulled, astray>>

Away == [pc |-> "away", at |-> 0]

\* m_hasFormatter is not initialised: it may be set though the appender has no formatter.
LoggerInit ==
    /\ logger = [formatter |-> CHOOSE f \in Formatters : TRUE, list |-> <<>>]
    /\ appender = [a \in Appenders |-> [formatter |-> NoFormatter, has |-> FALSE]]
    /\ luser = [u \in LogUsers |-> Away]
    /\ lops = 0 /\ hurt = {} /\ met = FALSE /\ nulled = FALSE /\ astray = {}

Unlucky(a) ==
    /\ lops = 0 /\ ~appender[a].has
    /\ appender' = [appender EXCEPT ![a].has = TRUE]
    /\ astray' = astray \union {a}
    /\ UNCHANGED <<logger, luser, lops, hurt, met, nulled>>

AtWork == {u \in LogUsers : luser[u].pc # "away"}
Locked == \E u \in LogUsers : luser[u].pc = "log"
InList(a) == \E i \in DOMAIN logger.list : logger.list[i] = a

Walkers(users) == {u \in users : luser[u].pc = "walk"}
WalkerAt(a, users) == \E u \in Walkers(users) : logger.list[luser[u].at] = a

\* A formatter that is replaced may be destroyed; a log that is using it is lost.
InUse(a) == \E u \in LogUsers : luser[u].pc = "log" /\ logger.list[luser[u].at] = a

\* A store to a shared_ptr m_formatter.  If another thread stores or copies the same one
\* without a lock in common, the race may leave a pointer and a count that do not belong
\* together.
StoreFormatter(used, race) ==
    LET h == IF used THEN hurt \union {"formatter in use"} ELSE hurt IN
    hurt' \in IF race THEN {h, h \union {"torn pointer"}} ELSE {h}

\* An operation that holds m_mutex from beginning to end
WithLock == ~Locked /\ lops < MaxLogOps /\ lops' = lops + 1

\* m_appenders changes: whoever walks it is lost.
ListTo(list) ==
    /\ logger' = [logger EXCEPT !.list = list]
    /\ hurt' = IF AtWork # {} THEN hurt \union {"list changed"} ELSE hurt
    /\ met' = (met \/ Walkers(LogUsers) # {})

\* An appender that has a formatter keeps it, be it its own or that of an earlier stay.
AddAppender(a) ==
    /\ WithLock /\ Len(logger.list) < MaxList
    /\ ListTo(Append(logger.list, a))
    /\ appender' = [appender EXCEPT ![a].formatter = IF @ # NoFormatter THEN @ ELSE logger.formatter]
    /\ astray' = IF appender[a].formatter \notin {NoFormatter, logger.formatter} THEN astray \union {a} ELSE astray
    /\ UNCHANGED <<luser, nulled>>

DelAppender(a) ==
    /\ WithLock /\ InList(a)
    /\ ListTo(RemoveFirst(logger.list, a))
    /\ UNCHANGED <<appender, luser, nulled, astray>>

ClearAppenders ==
    /\ WithLock
    /\ ListTo(<<>>)
    /\ UNCHANGED <<appender, luser, nulled, astray>>

\* Mutant: the appenders keep the formatter they have.
SetPatternAlone(f) ==
    /\ WithLock
    /\ logger' = [logger EXCEPT !.formatter = f]
    /\ UNCHANGED <<appender, luser, hurt, met, nulled, astray>>

\* setFormatter(pattern); a pattern with an error changes nothing.
SetPattern(f) ==
    /\ WithLock
    /\ logger' = [logger EXCEPT !.formatter = f]
    /\ appender' = [a \in Appenders |->
          IF InList(a) /\ ~appender[a].has THEN [appender[a] EXCEPT !.formatter = f] ELSE appender[a]]
    /\ StoreFormatter(FALSE, Walkers(LogUsers) # {})
    /\ met' = (met \/ Walkers(LogUsers) # {})
    /\ UNCHANGED <<luser, nulled, astray>>

\* log(): under the lock, one appender after the other
LogBegin(u) ==
    /\ WithLock /\ luser[u].pc = "away" /\ logger.list # <<>>
    /\ luser' = [luser EXCEPT ![u] = [pc |-> "log", at |-> 1]]
    /\ met' = (met \/ AtWork # {})
    /\ UNCHANGED <<logger, appender, hurt, nulled, astray>>

\* The place behind that of u, if there is one
NextPlace(u) ==
    IF luser[u].at = Len(logger.list) THEN Away ELSE [luser[u] EXCEPT !.at = luser[u].at + 1]

\* The event is written, and the next appender is due; only stdout looks for a null pointer.
LogOne(u) ==
    LET a == logger.list[luser[u].at] IN
    /\ luser[u].pc = "log"
    /\ hurt' = IF a \in Files /\ appender[a].formatter = NoFormatter
               THEN hurt \union {"null formatter"} ELSE hurt
    /\ luser' = [luser EXCEPT ![u] = NextPlace(u)]
    /\ UNCHANGED <<logger, appender, lops, met, nulled, astray>>

\* setFormatter(pointer): no lock; the loop gives each appender what m_formatter is then.
WalkBegin(u, f) ==
    /\ luser[u].pc = "away" /\ lops < MaxLogOps
    /\ lops' = lops + 1
    /\ logger' = [logger EXCEPT !.formatter = f]
    /\ luser' = [luser EXCEPT ![u] = IF logger.list = <<>> THEN Away ELSE [pc |-> "walk", at |-> 1]]
    /\ StoreFormatter(FALSE, Walkers(LogUsers) # {})
    /\ met' = (met \/ AtWork # {})
    /\ nulled' = (nulled \/ f = NoFormatter)
    /\ UNCHANGED <<appender, astray>>

WalkOne(u) ==
    LET a == logger.list[luser[u].at] IN
    /\ luser[u].pc = "walk"
    /\ appender' = IF appender[a].has THEN appender ELSE [appender EXCEPT ![a].formatter = logger.formatter]
    /\ StoreFormatter(~appender[a].has /\ InUse(a), ~appender[a].has /\ WalkerAt(a, LogUsers \ {u}))
    /\ luser' = [luser EXCEPT ![u] = NextPlace(u)]
    /\ UNCHANGED <<logger, lops, met, nulled, astray>>

\* LogAppender::setFormatter: no lock either
SetOwn(a, f) ==
    /\ lops < MaxLogOps
    /\ lops' = lops + 1
    /\ appender' = [appender EXCEPT ![a] = [formatter |-> f, has |-> f # NoFormatter]]
    /\ StoreFormatter(InUse(a), WalkerAt(a, LogUsers))
    /\ met' = (met \/ AtWork # {})
    /\ nulled' = (nulled \/ f = NoFormatter)
    /\ astray' = IF f = NoFormatter /\ ~InList(a) THEN astray \ {a} ELSE astray \union {a}
    /\ UNCHANGED <<logger, luser>>

LoggerNext ==
    /\ hurt = {}
    /\ \/ ClearAppenders
       \/ \E f \in Formatters : SetPattern(f)
       \/ \E a \in Appenders :
             \/ Unlucky(a) \/ AddAppender(a) \/ DelAppender(a)
             \/ \E f \in Formatters \union {NoFormatter} : SetOwn(a, f)
       \/ \E u \in LogUsers :
             \/ LogBegin(u) \/ LogOne(u) \/ WalkOne(u)
             \/ \E f \in Formatters \union {NoFormatter} : WalkBegin(u, f)

LoggerSpec == LoggerInit /\ [][LoggerNext]_logVars

-----------------------------------------------------------------------------
(* Properties                                                                *)

\* Nothing goes wrong unless a setFormatter without the lock meets another operation, or
\* a null pointer was given to one.
LoggerSound == hurt # {} => met \/ nulled

\* While nobody is at work, an attached appender that has none of its own uses the
\* logger's formatter, unless its flag happened to be set from the start, it kept a formatter
\* from an earlier stay, or its own was taken away while it was attached.
FormatterFollows ==
    AtWork = {} /\ hurt = {} =>
        \A a \in Appenders : InList(a) /\ a \notin astray => appender[a].formatter = logger.formatter

\* What a Logger promises as long as the functions without a lock meet nobody.
LoggerInv == LoggerSound /\ FormatterFollows
=============================================================================
