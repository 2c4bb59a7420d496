------------------------------- MODULE Config -------------------------------
(***************************************************************************)
(* One ConfigVar: Lookup, setValue and its listeners, and the loading of   *)
(* the .yml file that gives it a value.  Every lock of the module is       *)
(* commented out, so that a step ends wherever another thread can come in  *)
(* between: at each listener, before the value is stored, and between the  *)
(* look at a file's time and the reading of it.                            *)
(***************************************************************************)
EXTENDS Integers, FiniteSets, FiniteSetsExt

CONSTANTS
    ConfigUsers,    \* threads
    ConfigValues,   \* values of the parameter; a file may also hold Bad
    MaxListeners,   \* listeners added in a run
    MaxSets,        \* calls of setValue and LoadFromConfDir
    MaxSeconds      \* seconds of the file system's clock

ASSUME ConfigAssumption ==
    /\ {MaxListeners, MaxSets, MaxSeconds} \subseteq Nat
    /\ ConfigValues # {}

VARIABLES
    var,            \* the parameter: registered or not, m_val
    view,           \* for each listener in m_cbs, the value it believes the parameter has
    lastId,         \* s_fun_id
    setting,        \* what each thread is doing
    file, clock,    \* the file: content and modification time; the present second
    recorded,       \* s_file2modifytime, 0 for a file that was never seen
    sets,           \* calls so far
    configRace,     \* m_cbs was changed while setValue walked it
    torn,           \* ghost: a listener threw, or two calls of setValue met
    excused         \* ghost: why the parameter may differ from a file that is up to date

configVars == <<var, view, lastId, setting, file, clock, recorded, sets, configRace, torn, excused>>

Bad == "bad"                    \* not YAML, or not convertible
Default == CHOOSE v \in ConfigValues : TRUE
AtRest == [pc |-> "rest", v |-> Default, at |-> 0, load |-> FALSE, alone |-> TRUE]

ConfigInit ==
    /\ var = [made |-> FALSE, val |-> Default]
    /\ view = <<>> /\ lastId = 0
    /\ setting = [u \in ConfigUsers |-> AtRest]
    /\ file = [content |-> Default, mtime |-> 1] /\ clock = 1 /\ recorded = 0
    /\ sets = 0 /\ configRace = FALSE /\ torn = FALSE /\ excused = FALSE

Walking == {u \in ConfigUsers : setting[u].pc = "walk"}
Resting == \A u \in ConfigUsers : setting[u].pc = "rest"

-----------------------------------------------------------------------------
\* Lookup(name, default).  A parameter that exists is returned as it is, or not at all
\* if its type differs; an invalid name throws.  Both change nothing.
Lookup ==
    /\ ~var.made
    /\ var' = [made |-> TRUE, val |-> Default]
    /\ UNCHANGED <<view, lastId, setting, file, clock, recorded, sets, configRace, torn, excused>>

\* addListener; whoever adds a listener has read the value.
AddListener ==
    /\ var.made /\ lastId < MaxListeners
    /\ lastId' = lastId + 1
    /\ view' = [c \in DOMAIN view \union {lastId + 1} |-> IF c \in DOMAIN view THEN view[c] ELSE var.val]
    /\ configRace' = (Walking # {})
    /\ UNCHANGED <<var, setting, file, clock, recorded, sets, torn, excused>>

\* delListener, clearListener
DelListeners(gone) ==
    /\ gone # {} /\ gone \subseteq DOMAIN view
    /\ view' = [c \in DOMAIN view \ gone |-> view[c]]
    /\ configRace' = (Walking # {})
    /\ UNCHANGED <<var, lastId, setting, file, clock, recorded, sets, torn, excused>>

\* setValue up to its loop, from the application or from a load: nothing if the value is
\* the same.
Enters(u, v, load) ==
    /\ setting' = [w \in ConfigUsers |->
          IF v = var.val THEN IF w = u THEN AtRest ELSE setting[w]
          ELSE IF w = u THEN [pc |-> "walk", v |-> v, at |-> 0, load |-> load, alone |-> Walking = {}]
          ELSE [setting[w] EXCEPT !.alone = @ /\ w \notin Walking]]
    /\ torn' = (torn \/ (v # var.val /\ Walking # {}))
    /\ excused' = IF load /\ v = var.val /\ v = file.content /\ Walking = {} THEN FALSE
                  ELSE excused \/ ~load \/ Walking # {}

SetValue(u, v) ==
    /\ var.made /\ setting[u].pc = "rest" /\ sets < MaxSets
    /\ Enters(u, v, FALSE)
    /\ sets' = sets + 1
    /\ UNCHANGED <<var, view, lastId, file, clock, recorded, configRace>>

\* Mutant: the loop begins behind the first listener.
NotifySkipsOne(u) ==
    LET ahead == {c \in DOMAIN view : c > setting[u].at + 1} IN
    /\ setting[u].pc = "walk" /\ ahead # {}
    /\ setting' = [setting EXCEPT ![u].at = Min(ahead)]
    /\ view' = [view EXCEPT ![Min(ahead)] = setting[u].v]
    /\ UNCHANGED <<var, lastId, file, clock, recorded, sets, configRace, torn, excused>>

\* One listener is told, or throws: then nobody behind it is told and nothing is stored.
Notify(u) ==
    LET ahead == {c \in DOMAIN view : c > setting[u].at} IN
    /\ setting[u].pc = "walk" /\ ahead # {}
    /\ \/ /\ setting' = [setting EXCEPT ![u].at = Min(ahead)]
          /\ view' = [view EXCEPT ![Min(ahead)] = setting[u].v]
          /\ UNCHANGED <<torn, excused>>
       \/ /\ setting' = [setting EXCEPT ![u] = AtRest]
          /\ torn' = TRUE /\ excused' = TRUE
          /\ UNCHANGED view
    /\ UNCHANGED <<var, lastId, file, clock, recorded, sets, configRace>>

\* m_val = v.  Done alone, with every listener told, it puts everything right again.
Store(u) ==
    /\ setting[u].pc = "walk" /\ \A c \in DOMAIN view : c <= setting[u].at
    /\ var' = [var EXCEPT !.val = setting[u].v]
    /\ setting' = [setting EXCEPT ![u] = AtRest]
    /\ torn' = ~setting[u].alone
    /\ excused' = (excused /\ ~(setting[u].load /\ setting[u].v = file.content /\ setting[u].alone))
    /\ UNCHANGED <<view, lastId, file, clock, recorded, sets, configRace>>

-----------------------------------------------------------------------------
(* LoadFromConfDir                                                           *)

\* The file is skipped if its time is the recorded one, or its time is recorded.
LoadStat(u, force) ==
    /\ setting[u].pc = "rest" /\ sets < MaxSets
    /\ sets' = sets + 1
    /\ IF ~force /\ recorded = file.mtime THEN UNCHANGED <<setting, recorded>>
       ELSE /\ recorded' = file.mtime
            /\ setting' = [setting EXCEPT ![u].pc = "read"]
    /\ UNCHANGED <<var, view, lastId, file, clock, configRace, torn, excused>>

\* Mutant: a file's value only replaces the default.
LoadReadOnce(u) ==
    /\ setting[u].pc = "read"
    /\ IF file.content = Bad \/ ~var.made \/ var.val # Default
       THEN setting' = [setting EXCEPT ![u] = AtRest] /\ UNCHANGED <<torn, excused>>
       ELSE Enters(u, file.content, TRUE)
    /\ UNCHANGED <<var, view, lastId, file, clock, recorded, sets, configRace>>

\* YAML::LoadFile and LoadFromYaml.  What cannot be parsed or converted is caught; a
\* parameter that is not registered yet is passed over.
LoadRead(u) ==
    /\ setting[u].pc = "read"
    /\ IF file.content = Bad \/ ~var.made
       THEN /\ setting' = [setting EXCEPT ![u] = AtRest]
            /\ excused' = TRUE
            /\ UNCHANGED torn
       ELSE Enters(u, file.content, TRUE)
    /\ UNCHANGED <<var, view, lastId, file, clock, recorded, sets, configRace>>

\* The file is written.  In the recorded second that does not change its time.
Edit(v) ==
    /\ v # file.content
    /\ file' = [content |-> v, mtime |-> clock]
    /\ excused' = (excused \/ clock = recorded)
    /\ UNCHANGED <<var, view, lastId, setting, clock, recorded, sets, configRace, torn>>

Second ==
    /\ clock < MaxSeconds
    /\ clock' = clock + 1
    /\ UNCHANGED <<var, view, lastId, setting, file, recorded, sets, configRace, torn, excused>>

ConfigNext ==
    /\ ~configRace
    /\ \/ Lookup \/ AddListener \/ Second
       \/ \E gone \in SUBSET DOMAIN view : DelListeners(gone)
       \/ \E v \in ConfigValues \union {Bad} : Edit(v)
       \/ \E u \in ConfigUsers :
             \/ Notify(u) \/ Store(u) \/ LoadRead(u)
             \/ \E v \in ConfigValues : SetValue(u, v)
             \/ \E force \in BOOLEAN : LoadStat(u, force)

ConfigSpec == ConfigInit /\ [][ConfigNext]_configVars

-----------------------------------------------------------------------------
(* Properties                                                                *)

\* Whenever setValue is not at work, every listener believes what the parameter is, unless
\* a listener threw or two calls met; and the next call that finishes alone repairs that.
ListenersAgree ==
    Walking = {} /\ ~torn /\ ~configRace => \A c \in DOMAIN view : view[c] = var.val

\* If the next LoadFromConfDir would skip the file, the parameter has the file's value,
\* with these exceptions since the value was last taken from the file: setValue by the
\* application or two calls of it that met, an edit in the recorded second, a file or a
\* value that does not parse, a listener that threw, a load before Lookup.
SkippedFileApplied ==
    Resting /\ ~configRace /\ var.made /\ recorded = file.mtime /\ file.content # Bad =>
        excused \/ var.val = file.content
=============================================================================
