-------------------------- MODULE LifecycleProofs ---------------------------
(***************************************************************************)
(* For all sets of daemons, clients and desktop applications: the types,   *)
(* who holds the directory, what the files in it name, that a launcher     *)
(* never finds its daemon refused by somebody who cleans up, and that a    *)
(* command that nothing disturbs does what it is for.                      *)
(***************************************************************************)
EXTENDS Lifecycle, TLAPS

Types == ProcessesTypeOK /\ CommandsTypeOK

\* Each process and each client has its type.
LEMMA EntryType ==
    ASSUME Types, NEW p \in Procs
    PROVE  proc[p] \in ProcTypes
BY DEF Types, ProcessesTypeOK

\* Processes keep their types when a client leaves its children,
LEMMA OrphanedType ==
    ASSUME NEW c \in Clients, NEW procs \in [Procs -> ProcTypes]
    PROVE  Orphaned(c, procs) \in [Procs -> ProcTypes]
BY DEF Orphaned, ProcTypes, NoProc, ProcSteps

\* and when one ends.
LEMMA DiesType ==
    ASSUME ProcessesTypeOK, NEW p \in Procs, Dies(p), UNCHANGED <<launchLock, files, startup>>
    PROVE  ProcessesTypeOK'
<1>1. Ended(proc[p]) \in ProcTypes
    BY DEF ProcessesTypeOK, Ended, NoProc, ProcTypes, ProcSteps
<1>2. proc \in [Procs -> ProcTypes] /\ proc' = [proc EXCEPT ![p] = Ended(proc[p])]
    BY DEF ProcessesTypeOK, Dies
<1>3. proc' \in [Procs -> ProcTypes]
    BY <1>1, <1>2
<1> QED BY <1>3 DEF ProcessesTypeOK, Dies, files

\* so also when it takes a signal.
LEMMA TerminatedType ==
    ASSUME ProcessesTypeOK, NEW p \in Procs, Terminated(p), UNCHANGED <<launchLock, files, startup>>
    PROVE  ProcessesTypeOK'
<1>1. CASE proc[p].flag = "unset"
    BY <1>1, DiesType DEF Terminated
<1>2. CASE proc[p].flag # "unset"
    <2>1. proc \in [Procs -> ProcTypes] /\ proc' = [proc EXCEPT ![p] = [proc[p] EXCEPT !.flag = "stop"]]
        BY <1>2 DEF Terminated, ProcessesTypeOK
    <2>2. [proc[p] EXCEPT !.flag = "stop"] \in ProcTypes
        BY <2>1 DEF ProcTypes
    <2>3. proc' \in [Procs -> ProcTypes]
        BY <2>1, <2>2
    <2> QED BY <1>2, <2>3 DEF Terminated, ProcessesTypeOK, files
<1> QED BY <1>1, <1>2

\* A command that ends keeps the types,
LEMMA AfterCommandType ==
    ASSUME ProcessesTypeOK, NEW c \in Clients, NEW o
    PROVE  AfterCommand(c, o) \in [Procs -> ProcTypes]
BY OrphanedType DEF ProcessesTypeOK, AfterCommand

\* the record of a client whose command ended has its type,
LEMMA OutcomeType ==
    ASSUME CommandsTypeOK, NEW c \in Clients, NEW o \in {"ok", "error"}, Outcome(c, o),
           \A d \in Clients \ {c} : startup'[d] = startup[d]
    PROVE  CommandsTypeOK'
<1>1. [NoCommand EXCEPT !.op = client[c].op, !.outcome = o] \in ClientTypes
    BY DEF CommandsTypeOK, NoCommand, ClientTypes, ClientSteps, MaybeProc
<1>2. client' \in [Clients -> ClientTypes]
    BY <1>1 DEF Outcome, CommandsTypeOK
<1>3. client'[c].pc = "idle" /\ \A d \in Clients \ {c} : client'[d] = client[d]
    BY DEF Outcome, CommandsTypeOK, NoCommand
<1> QED BY <1>2, <1>3 DEF CommandsTypeOK, Waits, Exits, ProcessSteps

\* and so has all that the end of a command changes,
LEMMA ReturnsType ==
    ASSUME Types, NEW c \in Clients, NEW o \in {"ok", "error"}, Returns(c, o)
    PROVE  Types'
<1>1. proc' \in [Procs -> ProcTypes]
    BY AfterCommandType DEF Returns, Types
<1>2. ProcessesTypeOK'
    BY <1>1 DEF Types, Returns, ProcessesTypeOK, NotListening, files
<1>3. \A d \in Clients \ {c} : startup'[d] = startup[d]
    BY DEF Returns, Types, ProcessesTypeOK
<1> QED BY <1>2, <1>3, OutcomeType DEF Types, Returns

\* and so does a client that moves.
LEMMA MoveType ==
    ASSUME CommandsTypeOK, NEW c \in Clients, NEW r \in ClientTypes,
           client' = [client EXCEPT ![c] = r],
           \A d \in Clients \ {c} : startup'[d].child = startup[d].child,
           r.pc \in Waits => r.to \in Procs,
           r.pc \in Exits \cup {"old_stop", "old_wait"} \cup ProcessSteps => r.pid \in Procs,
           r.pc \in {"term_send", "kill_send"} => r.target \in Procs,
           r.pc \in {"startup", "terminate", "reap"} => startup'[c].child \in Procs
    PROVE  CommandsTypeOK'
<1>1. client' \in [Clients -> ClientTypes]
    BY DEF CommandsTypeOK
<1>2. client'[c] = r /\ \A d \in Clients \ {c} : client'[d] = client[d]
    BY DEF CommandsTypeOK
<1> QED BY <1>1, <1>2 DEF CommandsTypeOK
-----------------------------------------------------------------------------
\* Clients keep their types while a daemon works, and a listener its child.
LEMMA IdleType ==
    ASSUME Types, UNCHANGED client, \A c \in Clients : startup'[c].child = startup[c].child
    PROVE  CommandsTypeOK'
BY DEF Types, CommandsTypeOK

\* A daemon that only gets on keeps the types of the processes.
LEMMA MovesType ==
    ASSUME ProcessesTypeOK, NEW p \in Procs, NEW from, NEW to \in ProcSteps, Moves(p, from, to)
    PROVE  proc' \in [Procs -> ProcTypes]
<1>1. proc \in [Procs -> ProcTypes] /\ proc' = [proc EXCEPT ![p] = [proc[p] EXCEPT !.pc = to]]
    BY DEF ProcessesTypeOK, Moves
<1>2. [proc[p] EXCEPT !.pc = to] \in ProcTypes
    BY <1>1 DEF ProcTypes
<1> QED BY <1>1, <1>2

\* A daemon's own steps keep the types (server.py:60-107, 142-167),
LEMMA DaemonStepType ==
    ASSUME Types, NEW p \in Procs, DaemonStep(p)
    PROVE  Types'
<1> USE DEF Types
<1>0. UNCHANGED client
    BY DEF DaemonStep
<1>1. CASE AcquireInstance(p)
    <2>0. proc' \in [Procs -> ProcTypes]
        BY <1>1, MovesType DEF AcquireInstance, ProcSteps
    <2>1. ProcessesTypeOK'
        BY <1>1, <2>0 DEF AcquireInstance, ProcessesTypeOK, files
    <2> QED BY <1>0, <1>1, <2>1, IdleType DEF AcquireInstance
<1>2. CASE Refused(p)
    <2>1. proc' = [proc EXCEPT ![p] = [proc[p] EXCEPT !.pc = "leaving", !.failed = TRUE]]
        BY <1>2 DEF Refused
    <2>2. [proc[p] EXCEPT !.pc = "leaving", !.failed = TRUE] \in ProcTypes
        BY ZenonT(30), EntryType DEF ProcTypes, ProcSteps
    <2>3. ProcessesTypeOK'
        BY <1>2, <2>1, <2>2 DEF Refused, ProcessesTypeOK, files
    <2> QED BY <1>0, <1>2, <2>3, IdleType DEF Refused
<1>3. CASE RemoveStaleEndpoint(p)
    <2>0. proc' \in [Procs -> ProcTypes]
        BY <1>3, MovesType DEF RemoveStaleEndpoint, ProcSteps
    <2>1. ProcessesTypeOK'
        BY <1>3, <2>0 DEF RemoveStaleEndpoint, ProcessesTypeOK, files
    <2> QED BY <1>0, <1>3, <2>1, IdleType DEF RemoveStaleEndpoint
<1>4. CASE Listen(p)
    <2>1. proc' = [proc EXCEPT ![p] = [proc[p] EXCEPT !.pc = "armed", !.flag = "run"]]
        BY <1>4 DEF Listen
    <2>2. [proc[p] EXCEPT !.pc = "armed", !.flag = "run"] \in ProcTypes
        BY ZenonT(30), EntryType DEF ProcTypes, ProcSteps
    <2>3. ProcessesTypeOK'
        BY <1>4, <2>1, <2>2 DEF Listen, ProcessesTypeOK, files
    <2> QED BY <1>0, <1>4, <2>3, IdleType DEF Listen
<1>5. CASE WritePid(p)
    <2>1. proc' = [proc EXCEPT ![p] = [proc[p] EXCEPT !.pc = "recorded", !.wrote = {"pid"}]]
        BY <1>5 DEF WritePid
    <2>2. [proc[p] EXCEPT !.pc = "recorded", !.wrote = {"pid"}] \in ProcTypes
        BY ZenonT(30), EntryType DEF ProcTypes, ProcSteps
    <2>3. ProcessesTypeOK'
        BY <1>5, <2>1, <2>2 DEF WritePid, ProcessesTypeOK, files
    <2> QED BY <1>0, <1>5, <2>3, IdleType DEF WritePid
<1>6. CASE WriteEndpoint(p)
    <2>1. proc' = [proc EXCEPT ![p] = [proc[p] EXCEPT !.pc = "published", !.wrote = {"pid", "endpoint"}]]
        BY <1>6 DEF WriteEndpoint
    <2>2. [proc[p] EXCEPT !.pc = "published", !.wrote = {"pid", "endpoint"}] \in ProcTypes
        BY ZenonT(30), EntryType DEF ProcTypes, ProcSteps
    <2>3. ProcessesTypeOK'
        BY <1>6, <2>1, <2>2 DEF WriteEndpoint, ProcessesTypeOK, files
    <2> QED BY <1>0, <1>6, <2>3, IdleType DEF WriteEndpoint
<1>7. CASE StartCancelled(p)
    <2>0. proc' \in [Procs -> ProcTypes]
        BY <1>7, MovesType DEF StartCancelled, ProcSteps
    <2>1. ProcessesTypeOK'
        BY <1>7, <2>0 DEF StartCancelled, ProcessesTypeOK, files
    <2> QED BY <1>0, <1>7, <2>1, IdleType DEF StartCancelled
<1>8. CASE LauncherIsGone(p)
    <2>1. proc' = [proc EXCEPT ![p] = [proc[p] EXCEPT !.pc = "closing", !.failed = TRUE]]
        BY <1>8 DEF LauncherIsGone
    <2>2. [proc[p] EXCEPT !.pc = "closing", !.failed = TRUE] \in ProcTypes
        BY ZenonT(30), EntryType DEF ProcTypes, ProcSteps
    <2>3. ProcessesTypeOK'
        BY <1>8, <2>1, <2>2 DEF LauncherIsGone, ProcessesTypeOK, files
    <2> QED BY <1>0, <1>8, <2>3, IdleType DEF LauncherIsGone
<1>9. CASE LateStop(p)
    <2>1. proc' = [proc EXCEPT ![p] = [proc[p] EXCEPT !.flag = "stop", !.late = FALSE]]
        BY <1>9 DEF LateStop
    <2>2. [proc[p] EXCEPT !.flag = "stop", !.late = FALSE] \in ProcTypes
        BY ZenonT(30), EntryType DEF ProcTypes, ProcSteps
    <2>3. ProcessesTypeOK'
        BY <1>9, <2>1, <2>2 DEF LateStop, ProcessesTypeOK, files
    <2> QED BY <1>0, <1>9, <2>3, IdleType DEF LateStop
<1>10. CASE LeaveLoop(p)
    <2>0. proc' \in [Procs -> ProcTypes]
        BY <1>10, MovesType DEF LeaveLoop, ProcSteps
    <2>1. ProcessesTypeOK'
        BY <1>10, <2>0 DEF LeaveLoop, ProcessesTypeOK, files
    <2> QED BY <1>0, <1>10, <2>1, IdleType DEF LeaveLoop
<1>11. CASE CloseSocket(p)
    <2>1. proc' = [proc EXCEPT ![p] = [proc[p] EXCEPT !.pc = "closed", !.late = FALSE]]
        BY <1>11 DEF CloseSocket
    <2>2. [proc[p] EXCEPT !.pc = "closed", !.late = FALSE] \in ProcTypes
        BY ZenonT(30), EntryType DEF ProcTypes, ProcSteps
    <2>3. ProcessesTypeOK'
        BY <1>11, <2>1, <2>2 DEF CloseSocket, ProcessesTypeOK, files
    <2> QED BY <1>0, <1>11, <2>3, IdleType DEF CloseSocket
<1>12. CASE Unpublish(p)
    <2>0. proc' \in [Procs -> ProcTypes]
        BY <1>12, MovesType DEF Unpublish, ProcSteps
    <2>1. ProcessesTypeOK'
        BY <1>12, <2>0 DEF Unpublish, ProcessesTypeOK, files
    <2> QED BY <1>0, <1>12, <2>1, IdleType DEF Unpublish
<1>13. CASE Unrecord(p)
    <2>0. proc' \in [Procs -> ProcTypes]
        BY <1>13, MovesType DEF Unrecord, ProcSteps
    <2>1. ProcessesTypeOK'
        BY <1>13, <2>0 DEF Unrecord, ProcessesTypeOK, files
    <2> QED BY <1>0, <1>13, <2>1, IdleType DEF Unrecord
<1>14. CASE ReleaseInstance(p)
    <2>0. proc' \in [Procs -> ProcTypes]
        BY <1>14, MovesType DEF ReleaseInstance, ProcSteps
    <2>1. ProcessesTypeOK'
        BY <1>14, <2>0 DEF ReleaseInstance, ProcessesTypeOK, files
    <2> QED BY <1>0, <1>14, <2>1, IdleType DEF ReleaseInstance
<1>15. CASE StartsServing(p)
    <2>1. proc' \in [Procs -> ProcTypes]
        BY <1>15, MovesType DEF StartsServing, ProcSteps
    <2>2. /\ startup' \in [Clients -> [child : Procs \cup {None}, word : {"none", "ready", "error"}]]
          /\ \A c \in Clients : startup'[c].child = startup[c].child
        BY <1>15 DEF StartsServing, ProcessesTypeOK
    <2> QED BY <1>0, <1>15, <2>1, <2>2, IdleType DEF StartsServing, ProcessesTypeOK, files
<1>16. CASE Report(p)
    <2>0. proc' \in [Procs -> ProcTypes]
        BY <1>16, MovesType DEF Report, ProcSteps
    <2>1. ProcessesTypeOK' /\ \A c \in Clients : startup'[c].child = startup[c].child
        BY <1>16, <2>0 DEF Report, ProcessesTypeOK, files
    <2> QED BY <1>0, <2>1, IdleType
<1>17. CASE Exit(p)
    BY <1>0, <1>17, DiesType, IdleType DEF Exit
<1> QED BY <1>1, <1>2, <1>3, <1>4, <1>5, <1>6, <1>7, <1>8, <1>9, <1>10, <1>11, <1>12, <1>13, <1>14, <1>15, <1>16, <1>17 DEF DaemonStep

\* and so do a start by hand, a failing set-up and a kill.
LEMMA EnvironmentType ==
    ASSUME Types, NEW p \in Procs, ByHand(p) \/ ProcessFault(p)
    PROVE  Types'
<1> USE DEF Types
<1>1. CASE StartForeground(p) /\ UNCHANGED client
    <2>1. PICK old \in BOOLEAN : proc' = [proc EXCEPT ![p] = [NoProc EXCEPT !.pc = "spawned", !.old = old]]
        BY <1>1 DEF StartForeground
    <2>2. [NoProc EXCEPT !.pc = "spawned", !.old = old] \in ProcTypes
        BY DEF NoProc, ProcTypes, ProcSteps
    <2>3. ProcessesTypeOK'
        BY <1>1, <2>1, <2>2 DEF StartForeground, ProcessesTypeOK, files
    <2> QED BY <1>1, <2>3, IdleType DEF StartForeground
<1>2. CASE SetupFails(p) /\ UNCHANGED client
    <2>1. proc' = [proc EXCEPT ![p] = [proc[p] EXCEPT !.pc = "closing", !.failed = TRUE]]
        BY <1>2 DEF SetupFails
    <2>2. [proc[p] EXCEPT !.pc = "closing", !.failed = TRUE] \in ProcTypes
        BY ZenonT(30), EntryType DEF ProcTypes, ProcSteps
    <2>3. ProcessesTypeOK'
        BY <1>2, <2>1, <2>2 DEF SetupFails, ProcessesTypeOK, files
    <2> QED BY <1>2, <2>3, IdleType DEF SetupFails
<1>3. CASE Killed(p) /\ UNCHANGED client
    BY <1>3, DiesType, IdleType DEF Killed
<1> QED BY <1>1, <1>2, <1>3 DEF ByHand, ProcessFault
-----------------------------------------------------------------------------
\* What is remembered of a client has its type,
LEMMA ClientType ==
    ASSUME Types, NEW c \in Clients
    PROVE  client[c] \in ClientTypes
BY DEF Types, CommandsTypeOK

\* and so has what it reads from the PID file (pid.py:45-52).
LEMMA ReadPidType ==
    ASSUME Types
    PROVE  ReadPid \in MaybeProc
BY DEF Types, ProcessesTypeOK, ReadPid, MaybeProc

\* Steps that need no memory of a process.
Light == ClientSteps \ (Waits \cup Exits \cup ProcessSteps \cup
             {"old_stop", "old_wait", "startup", "terminate", "reap"})

\* A client that goes from one step to the next keeps the types,
LEMMA GoesType ==
    ASSUME Types, NEW c \in Clients, NEW from, NEW to,
           Goes(c, from, to),
           \/ to \in Light
           \/ from = "startup" /\ to = "terminate"
           \/ from = "term" /\ to = "term_failed"
    PROVE  Types'
<1> DEFINE r == [client[c] EXCEPT !.pc = to]
<1>1. r \in ClientTypes
    BY ClientType DEF ClientTypes, ClientSteps, Light, ProcessSteps
<1>2. client' = [client EXCEPT ![c] = r]
    BY DEF Goes
<1>3. CommandsTypeOK'
    BY <1>1, <1>2, MoveType DEF Goes, others, Types, CommandsTypeOK, ClientTypes, Light,
                                Waits, Exits, ProcessSteps
<1> QED BY <1>3 DEF Goes, others, Types, ProcessesTypeOK, files

\* with a PID that it read,
LEMMA RemembersType ==
    ASSUME Types, NEW c \in Clients, NEW from, NEW to, NEW p \in MaybeProc,
           Remembers(c, from, to, p),
           \/ to \in Light
           \/ to \in {"old_stop", "term"} /\ p \in Procs
    PROVE  Types'
<1> DEFINE r == [client[c] EXCEPT !.pc = to, !.pid = p]
<1>1. r \in ClientTypes
    BY ZenonT(30), ClientType DEF ClientTypes, ClientSteps, Light, ProcessSteps, Waits, Exits
<1>2. client' = [client EXCEPT ![c] = r]
    BY DEF Remembers
<1>3. r.pc = to /\ r.pid = p
    BY ClientType DEF ClientTypes
<1>4. CommandsTypeOK'
    BY <1>1, <1>2, <1>3, MoveType DEF Remembers, others, Types, Light, Waits, Exits, ProcessSteps
<1> QED BY <1>4 DEF Remembers, others, Types, ProcessesTypeOK, files

\* or to a step that needs no PID.
LEMMA LightMove ==
    ASSUME Types, NEW c \in Clients, NEW r \in ClientTypes, r.pc \in Light,
           client' = [client EXCEPT ![c] = r],
           \A d \in Clients \ {c} : startup'[d].child = startup[d].child
    PROVE  CommandsTypeOK'
BY MoveType DEF Types, Light, Waits, Exits, ProcessSteps

\* A stop that its client waits for no longer changes a flag only.
LEMMA LateStopType ==
    ASSUME Types, NEW c \in Clients, NEW procs \in [Procs -> ProcTypes]
    PROVE  WithLateStop(c, procs) \in [Procs -> ProcTypes]
<1>1. CASE client[c].pc \in {"stop_wait", "old_wait"}
    <2>1. client[c].to \in Procs
        BY <1>1 DEF Types, CommandsTypeOK, Waits
    <2>2. procs[client[c].to] \in ProcTypes
        BY <2>1
    <2>3. [procs[client[c].to] EXCEPT !.late = TRUE] \in ProcTypes
        BY <2>2 DEF ProcTypes
    <2> QED BY <2>1, <2>3 DEF WithLateStop
<1>2. CASE client[c].pc \notin {"stop_wait", "old_wait"}
    BY <1>2 DEF WithLateStop
<1> QED BY <1>1, <1>2

\* A request that finds no daemon keeps the types.
LEMMA NotRunningType ==
    ASSUME Types, NEW c \in Clients, client[c].pc \in Requests \cup Waits, NotRunning(c)
    PROVE  Types'
<1>1. CASE client[c].pc \in {"verify", "verify_wait"}
    BY <1>1, ReturnsType DEF NotRunning
<1>2. CASE client[c].pc \notin {"verify", "verify_wait"}
    <2> DEFINE step == IF client[c].op = "ensure" THEN "probe"
                       ELSE IF client[c].pid = None THEN "clean" ELSE "process"
               r == [client[c] EXCEPT !.to = None, !.pid = None, !.pc = step]
    <2>1. client' = [client EXCEPT ![c] = r]
        BY <1>2 DEF NotRunning
    <2>a. step \in Light
        BY DEF ClientSteps, Light, Waits, Exits, ProcessSteps
    <2> HIDE DEF step
    <2>2. r \in ClientTypes /\ r.pc \in Light
        BY <2>a, ClientType DEF ClientTypes, MaybeProc, Light
    <2>3. CommandsTypeOK'
        BY <1>2, <2>1, <2>2, LightMove DEF NotRunning
    <2>4. proc' \in [Procs -> ProcTypes]
        BY <1>2, LateStopType DEF NotRunning, Types, ProcessesTypeOK
    <2> QED BY <1>2, <2>3, <2>4 DEF NotRunning, Types, ProcessesTypeOK, files
<1> QED BY <1>1, <1>2

\* A client that turns to the clean-up keeps the types.
LEMMA CleansType ==
    ASSUME Types, NEW c \in Clients, Cleans(c)
    PROVE  Types'
<1> DEFINE r == [client[c] EXCEPT !.pc = "clean", !.to = None, !.pid = None]
<1>1. client' = [client EXCEPT ![c] = r]
    BY DEF Cleans
<1>2. r \in ClientTypes /\ r.pc \in Light
    BY ZenonT(30), ClientType DEF ClientTypes, ClientSteps, MaybeProc, Light, Waits, Exits, ProcessSteps
<1>3. CommandsTypeOK'
    BY <1>1, <1>2, LightMove DEF Cleans, others
<1> QED BY <1>3 DEF Cleans, others, Types, ProcessesTypeOK, files

\* So do the answers,
LEMMA AnswerType ==
    ASSUME Types, NEW c \in Clients, Pong(c) \/ Stops(c) \/ BadAnswer(c)
    PROVE  Types'
<1> DEFINE p == client[c].to
<1>1. p \in Procs
    BY DEF Types, CommandsTypeOK, Pong, Stops, BadAnswer, Waits
<1>2. CASE \E o \in {"ok", "error"} : Returns(c, o)
    BY <1>2, ReturnsType
<1>3. CASE /\ client' = [client EXCEPT ![c].pc = "old_read", ![c].to = None]
           /\ UNCHANGED others
    <2> DEFINE r == [client[c] EXCEPT !.pc = "old_read", !.to = None]
    <2>1. client' = [client EXCEPT ![c] = r]
        BY <1>3
    <2>2. r \in ClientTypes /\ r.pc \in Light
        BY ZenonT(30), ClientType DEF ClientTypes, ClientSteps, MaybeProc, Light, Waits, Exits, ProcessSteps
    <2>3. CommandsTypeOK'
        BY <1>3, <2>1, <2>2, LightMove DEF others
    <2> QED BY <1>3, <2>3 DEF others, Types, ProcessesTypeOK, files
<1>4. CASE Stops(c) /\ client[c].pc = "stop_wait" /\ client[c].pid = None
    <2>1. AfterCommand(c, "ok") \in [Procs -> ProcTypes]
        BY AfterCommandType DEF Types
    <2>2. proc' \in [Procs -> ProcTypes]
        BY <1>1, <1>4, <2>1 DEF Stops, ProcTypes
    <2>3. CommandsTypeOK'
        BY <1>4, OutcomeType DEF Stops, Types
    <2> QED BY <1>4, <2>2, <2>3 DEF Stops, Types, ProcessesTypeOK, files
<1>5. CASE Stops(c) /\ ~(client[c].pc = "stop_wait" /\ client[c].pid = None)
    <2> DEFINE r == [client[c] EXCEPT !.pc = IF client[c].pc = "old_wait" THEN "old_exit" ELSE "stop_exit"]
    <2>1. client' = [client EXCEPT ![c] = r]
        BY <1>5 DEF Stops
    <2>2. r \in ClientTypes /\ r.pc \in {"old_exit", "stop_exit"} /\ r.pid = client[c].pid
        BY ClientType DEF ClientTypes, ClientSteps, Exits
    <2>3. client[c].pid \in Procs
        BY <1>5, ClientType DEF Stops, Types, CommandsTypeOK, ClientTypes, MaybeProc
    <2>4. CommandsTypeOK'
        BY <1>5, <2>1, <2>2, <2>3, MoveType DEF Stops, Types, Waits
    <2>5. [proc[p] EXCEPT !.flag = "stop"] \in ProcTypes
        BY <1>1, EntryType DEF ProcTypes
    <2>6. proc' = [proc EXCEPT ![p] = [proc[p] EXCEPT !.flag = "stop"]]
        BY <1>5 DEF Stops
    <2>7. proc' \in [Procs -> ProcTypes]
        BY <1>1, <2>5, <2>6 DEF Types, ProcessesTypeOK
    <2> QED BY <1>5, <2>4, <2>7 DEF Stops, Types, ProcessesTypeOK, files
<1>6. CASE Pong(c)
    BY <1>2, <1>3, <1>6 DEF Pong
<1>7. CASE BadAnswer(c)
    BY <1>2, <1>7 DEF BadAnswer
<1> QED BY <1>4, <1>5, <1>6, <1>7
-----------------------------------------------------------------------------
\* Nothing but the client moves.
LEMMA OthersType ==
    ASSUME Types, UNCHANGED others
    PROVE  ProcessesTypeOK'
BY DEF Types, others, ProcessesTypeOK, files

\* A request goes to a daemon.
LEMMA SendType ==
    ASSUME Types, NEW c \in Clients, Send(c)
    PROVE  Types'
<1> DEFINE w == WaitOf(client[c].pc)
           r == [client[c] EXCEPT !.pc = w, !.to = endpoint]
<1>1. client' = [client EXCEPT ![c] = r]
    BY DEF Send
<1>2. w \in Waits /\ (w = "old_wait" => client[c].pc = "old_stop")
    BY DEF Send, WaitOf, Requests, Waits
<1>3. endpoint \in Procs
    BY DEF Send, Reachable, Types, ProcessesTypeOK
<1>4. client[c].pc = "old_stop" => client[c].pid \in Procs
    BY DEF Types, CommandsTypeOK
<1> HIDE DEF w
<1>5. r \in ClientTypes /\ r.pc = w /\ r.to = endpoint /\ r.pid = client[c].pid
    BY <1>2, <1>3, ClientType DEF ClientTypes, ClientSteps, MaybeProc
<1> HIDE DEF r
<1>6. CommandsTypeOK'
    BY <1>1, <1>2, <1>3, <1>4, <1>5, MoveType DEF Send, others, Types, Waits, Exits, ProcessSteps
<1> QED BY <1>6, OthersType DEF Send, Types

\* A command begins, gets its lock,
LEMMA BeginType ==
    ASSUME Types, NEW c \in Clients, NEW op \in Operations, Begin(c, op)
    PROVE  Types'
<1> DEFINE r == [NoCommand EXCEPT !.pc = "lock", !.op = op]
<1>1. r \in ClientTypes /\ r.pc \in Light
    BY DEF NoCommand, ClientTypes, ClientSteps, MaybeProc, Light, Waits, Exits, ProcessSteps
<1>2. CommandsTypeOK'
    BY <1>1, LightMove DEF Begin, others
<1> QED BY <1>2, OthersType DEF Begin, Types

\* Giving a command, locking and being interrupted keep the types;
LEMMA LockType ==
    ASSUME Types, NEW c \in Clients, Lock(c)
    PROVE  Types'
<1> DEFINE step == FirstOf(client[c].op)
           r == [client[c] EXCEPT !.pc = step]
<1>1. client' = [client EXCEPT ![c] = r]
    BY DEF Lock
<1>2. step \in Light
    BY DEF FirstOf, ClientSteps, Light, Waits, Exits, ProcessSteps
<1> HIDE DEF step
<1>3. r \in ClientTypes /\ r.pc \in Light
    BY <1>2, ClientType DEF ClientTypes, Light
<1>4. CommandsTypeOK'
    BY <1>1, <1>3, LightMove DEF Lock
<1> QED BY <1>4 DEF Lock, Types, ProcessesTypeOK, files

\* and may be interrupted.
LEMMA InterruptedType ==
    ASSUME Types, NEW c \in Clients, Interrupted(c)
    PROVE  Types'
<1>1. NoCommand \in ClientTypes /\ NoCommand.pc \in Light
    BY DEF NoCommand, ClientTypes, ClientSteps, MaybeProc, Light, Waits, Exits, ProcessSteps
<1>2. \A d \in Clients \ {c} : startup'[d] = startup[d]
    BY DEF Interrupted, Types, ProcessesTypeOK
<1>3. CommandsTypeOK'
    BY <1>1, <1>2, LightMove DEF Interrupted
<1>4. proc' \in [Procs -> ProcTypes]
    BY OrphanedType, LateStopType DEF Interrupted, Types, ProcessesTypeOK
<1> QED BY <1>3, <1>4 DEF Interrupted, Types, ProcessesTypeOK, NotListening, files

\* The end of a wait.
LEMMA WaitedType ==
    ASSUME Types, NEW c \in Clients, SeesExit(c) \/ GivesUp(c) \/ TermFailed(c)
    PROVE  Types'
<1>1. CASE Cleans(c)
    BY <1>1, CleansType
<1>2. CASE \E o \in {"ok", "error"} : Returns(c, o)
    BY <1>2, ReturnsType
<1>3. CASE /\ client[c].pc \in Exits
           /\ client' = [client EXCEPT ![c].pc = "kill"]
           /\ UNCHANGED others
    <2> DEFINE r == [client[c] EXCEPT !.pc = "kill"]
    <2>1. client' = [client EXCEPT ![c] = r]
        BY <1>3
    <2>2. r \in ClientTypes /\ r.pc = "kill" /\ r.pid = client[c].pid
        BY ClientType DEF ClientTypes, ClientSteps, ProcessSteps
    <2>3. client[c].pid \in Procs
        BY <1>3 DEF Types, CommandsTypeOK
    <2> HIDE DEF r
    <2>4. CommandsTypeOK'
        BY <1>3, <2>1, <2>2, <2>3, MoveType DEF others, Types, Waits
    <2> QED BY <1>3, <2>4, OthersType DEF Types
<1> QED BY <1>1, <1>2, <1>3 DEF SeesExit, GivesUp, TermFailed

\* Looking at the files,
LEMMA LooksType ==
    ASSUME Types, NEW c \in Clients,
           \/ Probe(c) \/ Unresponsive(c) \/ NoRecord(c) \/ ProbePid(c) \/ ReadOutdated(c)
           \/ ReadBeforeStop(c) \/ ReadProcess(c)
    PROVE  Types'
<1>1. {"probe_both", "probe_pid", "process", "clean", "stop"} \subseteq Light
    BY DEF Light, ClientSteps, Waits, Exits, ProcessSteps
<1>2. CASE Probe(c) \/ NoRecord(c) \/ ProbePid(c)
    BY <1>1, <1>2, GoesType DEF Probe, NoRecord, ProbePid
<1>3. CASE Unresponsive(c)
    BY <1>3, ReturnsType DEF Unresponsive
<1>4. CASE ReadOutdated(c)
    BY <1>4, ReturnsType, RemembersType, ReadPidType DEF ReadOutdated, MaybeProc
<1>5. ReadPid \in MaybeProc
    BY ReadPidType
<1>6. CASE ReadBeforeStop(c)
    <2>1. Remembers(c, "stop_read", "stop", ReadPid) /\ "stop" \in Light
        BY <1>1, <1>6 DEF ReadBeforeStop
    <2> QED BY <1>5, <2>1, RemembersType
<1>7. CASE ReadProcess(c)
    <2>1. CASE ReadPid = None
        <3>1. Remembers(c, "process", "clean", ReadPid) /\ "clean" \in Light
            BY <1>1, <1>7, <2>1 DEF ReadProcess
        <3> QED BY <1>5, <3>1, RemembersType
    <2>2. CASE ReadPid # None
        <3>1. Remembers(c, "process", "term", ReadPid) /\ ReadPid \in Procs
            BY <1>5, <1>7, <2>2 DEF ReadProcess, MaybeProc
        <3> QED BY <1>5, <3>1, RemembersType
    <2> QED BY <2>1, <2>2
<1> QED BY <1>2, <1>3, <1>4, <1>6, <1>7

\* signalling what they name,
LEMMA ValidateType ==
    ASSUME Types, NEW c \in Clients, Validate(c)
    PROVE  Types'
<1>1. CASE \E o \in {"ok", "error"} : Returns(c, o)
    BY <1>1, ReturnsType
<1>2. CASE Goes(c, "term", "term_failed")
    BY <1>2, GoesType
<1>3. ASSUME NEW step \in {"term", "kill"}, client[c].pc = step, ReadPid # None,
             client' = [client EXCEPT ![c].target = ReadPid,
                            ![c].pc = IF step = "term" THEN "term_send" ELSE "kill_send"],
             UNCHANGED others
      PROVE  Types'
    <2> DEFINE to == IF step = "term" THEN "term_send" ELSE "kill_send"
               r  == [client[c] EXCEPT !.target = ReadPid, !.pc = to]
    <2>1. client' = [client EXCEPT ![c] = r]
        BY <1>3
    <2>2. to \in {"term_send", "kill_send"}
        OBVIOUS
    <2> HIDE DEF to
    <2>3. r \in ClientTypes /\ r.pc = to /\ r.pid = client[c].pid /\ r.target = ReadPid
        BY <2>2, ClientType, ReadPidType DEF ClientTypes, ClientSteps, ProcessSteps
    <2>4. client[c].pid \in Procs /\ ReadPid \in Procs
        BY <1>3, ReadPidType DEF Types, CommandsTypeOK, ProcessSteps, MaybeProc
    <2> HIDE DEF r
    <2>5. CommandsTypeOK'
        BY <1>3, <2>1, <2>2, <2>3, <2>4, MoveType DEF others, Types, Waits
    <2> QED BY <1>3, <2>5, OthersType DEF Types
<1> QED BY <1>1, <1>2, <1>3 DEF Validate

\* so do the signals of a client to a process,
LEMMA SignalType ==
    ASSUME Types, NEW c \in Clients, SendTerm(c) \/ SendKill(c)
    PROVE  Types'
<1> DEFINE p == client[c].target
<1>1. p \in Procs /\ client[c].pid \in Procs
    BY DEF SendTerm, SendKill, Types, CommandsTypeOK, ProcessSteps
<1>2. CASE \E o \in {"ok", "error"} : Returns(c, o)
    BY <1>2, ReturnsType
<1>3. ASSUME NEW to \in {"term_failed", "term_exit", "kill_exit"},
             client' = [client EXCEPT ![c].target = None, ![c].pc = to],
             UNCHANGED <<launchLock, files, startup>>,
             Dies(p) \/ Terminated(p) \/ UNCHANGED <<proc, owner>>
      PROVE  Types'
    <2> DEFINE r == [client[c] EXCEPT !.target = None, !.pc = to]
    <2>1. client' = [client EXCEPT ![c] = r]
        BY <1>3
    <2>2. r \in ClientTypes /\ r.pc = to /\ r.pid = client[c].pid
        BY <1>3, ClientType DEF ClientTypes, ClientSteps, ProcessSteps, Exits, MaybeProc
    <2> HIDE DEF r
    <2>3. CommandsTypeOK'
        BY <1>1, <1>3, <2>1, <2>2, MoveType DEF Types, Waits
    <2>4. ProcessesTypeOK'
        <3>1. CASE UNCHANGED <<proc, owner>>
            BY <1>3, <3>1 DEF Types, ProcessesTypeOK, files
        <3> QED BY <1>1, <1>3, <3>1, DiesType, TerminatedType DEF Types
    <2> QED BY <2>3, <2>4 DEF Types
<1>4. CASE SendTerm(c)
    BY <1>3, <1>4 DEF SendTerm
<1>5. CASE SendKill(c)
    BY <1>2, <1>3, <1>5 DEF SendKill
<1> QED BY <1>4, <1>5

\* cleaning up,
LEMMA CleaningType ==
    ASSUME Types, NEW c \in Clients,
           Clean(c) \/ Occupied(c) \/ CleanPid(c) \/ CleanEndpoint(c) \/ CleanDone(c)
    PROVE  Types'
<1>1. CASE Occupied(c)
    BY <1>1, ReturnsType DEF Occupied
<1>2. ASSUME NEW to \in {"clean_pid", "clean_endpoint", "clean_done", "launch"},
             client' = [client EXCEPT ![c].pc = to],
             UNCHANGED <<launchLock, proc, startup>>,
             owner' \in {owner, c, None}, pidFile' \in {pidFile, None}, endpoint' \in {endpoint, None}
      PROVE  Types'
    <2> DEFINE r == [client[c] EXCEPT !.pc = to]
    <2>1. client' = [client EXCEPT ![c] = r]
        BY <1>2
    <2>2. r \in ClientTypes /\ r.pc \in Light
        BY ClientType DEF ClientTypes, ClientSteps, Light, Waits, Exits, ProcessSteps
    <2> HIDE DEF r
    <2>3. CommandsTypeOK'
        BY <1>2, <2>1, <2>2, LightMove
    <2> QED BY <1>2, <2>3 DEF Types, ProcessesTypeOK
<1>3. CASE Clean(c) \/ CleanPid(c) \/ CleanEndpoint(c)
    BY <1>2, <1>3 DEF Clean, CleanPid, CleanEndpoint, files
<1>4. CASE CleanDone(c) /\ client[c].op = "ensure"
    BY <1>2, <1>4 DEF CleanDone, files
<1>5. CASE CleanDone(c) /\ client[c].op # "ensure"
    <2>1. Outcome(c, "ok") /\ proc' = AfterCommand(c, "ok") /\ UNCHANGED startup
        BY <1>5 DEF CleanDone
    <2>2. CommandsTypeOK'
        BY <2>1, OutcomeType DEF Types
    <2>3. proc' \in [Procs -> ProcTypes]
        BY <2>1, AfterCommandType DEF Types
    <2> QED BY <1>5, <2>2, <2>3 DEF CleanDone, Types, ProcessesTypeOK, files
<1> QED BY <1>1, <1>3, <1>4, <1>5

\* and launching.
LEMMA LaunchType ==
    ASSUME Types, NEW c \in Clients, NEW p \in Procs, Launch(c, p)
    PROVE  Types'
<1> DEFINE r == [client[c] EXCEPT !.pc = "startup"]
           q == [NoProc EXCEPT !.pc = "spawned", !.launched = TRUE, !.parent = c]
<1>1. client' = [client EXCEPT ![c] = r] /\ proc' = [proc EXCEPT ![p] = q]
    BY DEF Launch
<1>2. r \in ClientTypes /\ r.pc = "startup"
    BY ClientType DEF ClientTypes, ClientSteps
<1>3. q \in ProcTypes
    BY DEF NoProc, ProcTypes, ProcSteps
<1> HIDE DEF r, q
<1>4. ProcessesTypeOK'
    BY <1>1, <1>3 DEF Launch, Types, ProcessesTypeOK, files
<1>5. startup'[c].child = p /\ \A d \in Clients \ {c} : startup'[d] = startup[d]
    BY DEF Launch, Types, ProcessesTypeOK
<1>6. CommandsTypeOK'
    BY <1>1, <1>2, <1>5, MoveType DEF Types, Waits, Exits, ProcessSteps
<1> QED BY <1>4, <1>6 DEF Types

\* and so does the wait for the child.
LEMMA StartupType ==
    ASSUME Types, NEW c \in Clients,
           \/ ChildReady(c) \/ ChildFailed(c) \/ NoReport(c)
           \/ TerminateChild(c) \/ ReapChild(c) \/ KillChild(c)
    PROVE  Types'
<1>1. CASE ChildReady(c)
    <2> DEFINE r == [client[c] EXCEPT !.pc = "verify"]
    <2>1. client' = [client EXCEPT ![c] = r]
        BY <1>1 DEF ChildReady
    <2>2. r \in ClientTypes /\ r.pc \in Light
        BY ClientType DEF ClientTypes, ClientSteps, Light, Waits, Exits, ProcessSteps
    <2>3. \A d \in Clients \ {c} : startup'[d] = startup[d]
        BY <1>1 DEF ChildReady, Types, ProcessesTypeOK
    <2> HIDE DEF r
    <2>4. CommandsTypeOK'
        BY <2>1, <2>2, <2>3, LightMove
    <2> QED BY <1>1, <2>4 DEF ChildReady, Types, ProcessesTypeOK, NotListening, files
<1>2. CASE ChildFailed(c) \/ NoReport(c)
    BY <1>2, GoesType DEF ChildFailed, NoReport
<1>3. CASE TerminateChild(c)
    <2> DEFINE r == [client[c] EXCEPT !.pc = "reap"]
    <2>1. client' = [client EXCEPT ![c] = r]
        BY <1>3 DEF TerminateChild
    <2>2. r \in ClientTypes /\ r.pc = "reap"
        BY ClientType DEF ClientTypes, ClientSteps
    <2>3. startup[c].child \in Procs
        BY <1>3 DEF TerminateChild, Types, CommandsTypeOK
    <2> HIDE DEF r
    <2>4. CommandsTypeOK'
        BY <1>3, <2>1, <2>2, <2>3, MoveType DEF TerminateChild, Types, Waits, Exits, ProcessSteps
    <2> QED BY <1>3, <2>3, <2>4, TerminatedType DEF TerminateChild, Types
<1>4. CASE ReapChild(c)
    <2>1. \A d \in Clients \ {c} : startup'[d] = startup[d]
        BY <1>4 DEF ReapChild, Types, ProcessesTypeOK
    <2>2. CommandsTypeOK'
        BY <1>4, <2>1, OutcomeType DEF ReapChild, Types
    <2>3. NoProc \in ProcTypes
        BY DEF NoProc, ProcTypes, ProcSteps
    <2> QED BY <1>4, <2>2, <2>3 DEF ReapChild, Types, ProcessesTypeOK, NotListening, files
<1>5. CASE KillChild(c)
    <2>1. startup[c].child \in Procs
        BY <1>5 DEF KillChild, Types, CommandsTypeOK
    <2>2. ProcessesTypeOK'
        BY <1>5, <2>1, DiesType DEF KillChild, Types
    <2>3. CommandsTypeOK'
        BY <1>5, IdleType DEF KillChild
    <2> QED BY <2>2, <2>3 DEF Types
<1> QED BY <1>1, <1>2, <1>3, <1>4, <1>5
-----------------------------------------------------------------------------
\* Every step of a client keeps the types,
LEMMA ClientsType ==
    ASSUME Types, NEW c \in Clients,
           ClientStep(c) \/ Patience(c) \/ Trouble(c) \/ Command(c) \/ Closed(c) \/ ClientFault(c)
    PROVE  Types'
<1>1. CASE ClientStep(c)
    BY <1>1, LockType, SendType, NotRunningType, AnswerType, WaitedType, LooksType, ValidateType,
       SignalType, CleaningType, LaunchType, StartupType
    DEF ClientStep, Unreachable, Reset
<1>2. CASE Patience(c)
    BY <1>2, NotRunningType, WaitedType, StartupType DEF Patience, TimesOut
<1>3. CASE Trouble(c)
    BY <1>3, AnswerType, ReturnsType DEF Trouble, CannotLaunch
<1>4. CASE Command(c)
    BY <1>4, BeginType, LifecycleAssumption DEF Command
<1>5. CASE Closed(c) \/ ClientFault(c)
    BY <1>5, InterruptedType DEF Closed, ClientFault
<1> QED BY <1>1, <1>2, <1>3, <1>4, <1>5

\* and so does every other.
LEMMA NextType ==
    ASSUME Types, [Next]_vars
    PROVE  Types'
<1>1. CASE UNCHANGED vars
    BY <1>1 DEF vars, Types, ProcessesTypeOK, CommandsTypeOK
<1>2. CASE Next
    BY <1>2, ClientsType, DaemonStepType, EnvironmentType DEF Next
<1> QED BY <1>1, <1>2

BoundsOK ==
    /\ used \in [commands : 0..MaxCommands, foreground : 0..MaxForeground, faults : 0..MaxFaults]
    /\ calm \in SUBSET Clients

\* The bounds stay within their limits.
LEMMA NextBounds ==
    ASSUME BoundsOK, [Next]_vars
    PROVE  BoundsOK'
<1>1. Fault => BoundsOK'
    BY LifecycleAssumption DEF Fault, BoundsOK
<1>2. Ordinary \/ Disturbing => BoundsOK'
    BY DEF Ordinary, Disturbing, BoundsOK
<1>3. ASSUME NEW c \in Clients, Command(c)
      PROVE  BoundsOK'
    BY <1>3, LifecycleAssumption DEF Command, BoundsOK
<1>4. ASSUME NEW p \in Procs, ByHand(p)
      PROVE  BoundsOK'
    BY <1>4, LifecycleAssumption DEF ByHand, BoundsOK
<1>5. ASSUME NEW c \in Clients, ClientStep(c)
      PROVE  BoundsOK'
    <2>1. Ordinary \/ (UNCHANGED used /\ calm' \in {calm \cup {c}, calm \ {c}})
        BY <1>5 DEF ClientStep
    <2> QED BY <1>2, <2>1 DEF BoundsOK
<1>6. ASSUME NEW p \in Procs, DaemonStep(p) \/ ByHand(p) \/ ProcessFault(p)
      PROVE  BoundsOK'
    BY <1>1, <1>2, <1>4, <1>6 DEF DaemonStep, ProcessFault
<1>7. ASSUME NEW c \in Clients,
             \/ ClientStep(c) \/ Patience(c) \/ Trouble(c) \/ Command(c) \/ Closed(c) \/ ClientFault(c)
      PROVE  BoundsOK'
    BY <1>1, <1>2, <1>3, <1>5, <1>7 DEF Patience, Trouble, Closed, ClientFault
<1>8. CASE UNCHANGED vars
    BY <1>8 DEF vars, BoundsOK
<1>9. CASE Next
    BY <1>6, <1>7, <1>9 DEF Next
<1> QED BY <1>8, <1>9

\* The types hold in every reachable state.
THEOREM LifecycleTypes == Spec => []TypeOK
<1>1. Init => TypeOK
    BY LifecycleAssumption
    DEF Init, ProcessesInit, CommandsInit, TypeOK, ProcessesTypeOK, CommandsTypeOK,
        NoProc, ProcTypes, ProcSteps, NotListening, NoCommand, ClientTypes, ClientSteps, MaybeProc,
        Waits, Exits, ProcessSteps
<1>2. TypeOK /\ [Next]_vars => TypeOK'
    BY NextType, NextBounds DEF TypeOK, Types, BoundsOK
<1> QED BY <1>1, <1>2, PTL DEF Spec
-----------------------------------------------------------------------------
(***************************************************************************)
(* Who holds the directory, and what its files name                        *)
(***************************************************************************)

Held     == {"setup", "bind", "armed", "recorded", "published", "serving", "closing", "closed",
             "unpublished", "unrecorded"}
Cleaning == {"clean_pid", "clean_endpoint", "clean_done"}

\* The lock is with the process that is between its acquisition and its release.
HoldsByPhase(p) == proc[p].pc \in Held <=> owner = p

\* A process knows what it wrote.
WroteByPhase(p) ==
    /\ proc[p].pc \in {"spawned", "setup", "bind", "armed"} => proc[p].wrote = {}
    /\ proc[p].pc = "recorded" => proc[p].wrote = {"pid"}
    /\ proc[p].pc \in {"published", "serving"} => proc[p].wrote = {"pid", "endpoint"}

\* While it lives it is only named by what it wrote and did not remove.
NamedByItself(p) == Alive(p) =>
    /\ pidFile = p => proc[p].pc \in Held \ {"unrecorded"} /\ "pid" \in proc[p].wrote
    /\ endpoint = p => /\ proc[p].pc \in Held \ {"unpublished", "unrecorded"}
                       /\ "endpoint" \in proc[p].wrote

\* What it wrote stays until its service ends.
StaysNamed(p) ==
    /\ proc[p].pc \in {"recorded", "published", "serving"} => pidFile = p
    /\ proc[p].pc \in {"published", "serving"} => endpoint = p

Sound(p) == HoldsByPhase(p) /\ WroteByPhase(p) /\ NamedByItself(p) /\ StaysNamed(p)

Ownership ==
    /\ \A p \in Procs : Sound(p)
    /\ \A c \in Clients : client[c].pc \in Cleaning <=> owner = c

\* Ownership is what the invariants state of the code.
LEMMA OwnershipImplies ==
    ASSUME Types, Ownership
    PROVE  RecordsAreCurrent /\ ServingIsFound
<1>1. ASSUME NEW p \in {pidFile, endpoint} \ {None}
      PROVE  owner = p \/ Exited(p)
    <2>1. p \in Procs /\ Sound(p)
        BY <1>1 DEF Types, ProcessesTypeOK, Ownership
    <2> QED BY <1>1, <2>1 DEF Sound, HoldsByPhase, NamedByItself, Exited, Held
<1>2. ServingIsFound
    BY DEF ServingIsFound, Ownership, Sound, StaysNamed
<1> QED BY <1>1, <1>2 DEF RecordsAreCurrent

\* A step of one process: the lock and the files change hands only through it.
LEMMA OneSteps ==
    ASSUME Types, Ownership, NEW p \in Procs,
           \A c \in Clients : client'[c].pc \in Cleaning <=> client[c].pc \in Cleaning,
           \A q \in Procs \ {p} : proc'[q] = proc[q],
           \/ owner' = owner
           \/ owner = None /\ owner' = p
           \/ owner = p /\ owner' = None,
           pidFile' = pidFile \/ (owner = p /\ pidFile' \in {p, None}),
           endpoint' = endpoint \/ (owner = p /\ endpoint' \in {p, None}),
           Sound(p)'
    PROVE  Ownership'
<1>1. ASSUME NEW q \in Procs \ {p}
      PROVE  Sound(q)'
    <2>1. Sound(q) /\ proc'[q] = proc[q] /\ q # None /\ p # None
        BY <1>1, ProcessesAssumption DEF Ownership
    <2> QED BY <1>1, <2>1 DEF Sound, HoldsByPhase, WroteByPhase, NamedByItself, StaysNamed, Alive, Held
<1>2. \A c \in Clients : c # p /\ c # None
    BY ProcessesAssumption
<1> QED BY <1>1, <1>2 DEF Ownership

\* Others' steps that leave every process where it is, or take away a dead one.
Undisturbed(p, r) ==
    \/ r.pc = proc[p].pc /\ r.wrote = proc[p].wrote
    \/ ~Alive(p) /\ r.pc \in {"dead", "zombie"}

\* Such steps keep the ownership.
LEMMA OthersStay ==
    ASSUME Types, Ownership, UNCHANGED <<owner, files>>,
           \A p \in Procs : Undisturbed(p, proc'[p]),
           \A c \in Clients : client'[c].pc \in Cleaning <=> client[c].pc \in Cleaning
    PROVE  Ownership'
<1>1. ASSUME NEW p \in Procs
      PROVE  Sound(p)'
    <2>1. Sound(p) /\ Undisturbed(p, proc'[p])
        BY DEF Ownership
    <2> QED BY <2>1 DEF Sound, Undisturbed, HoldsByPhase, WroteByPhase, NamedByItself, StaysNamed,
                        Alive, Held, files
<1> QED BY <1>1 DEF Ownership
-----------------------------------------------------------------------------
\* Each step of a daemon is one of these: the lock is taken or released,
LEMMA LockingKeeps ==
    ASSUME Types, Ownership, NEW p \in Procs, UNCHANGED client, AcquireInstance(p) \/ ReleaseInstance(p)
    PROVE  Ownership'
<1>1. Sound(p) /\ p # None /\ \A q \in Procs \ {p} : proc'[q] = proc[q]
    BY ProcessesAssumption DEF Ownership, AcquireInstance, ReleaseInstance, Moves, Types, ProcessesTypeOK
<1>2. proc[p] \in ProcTypes
    BY EntryType
<1>3. CASE AcquireInstance(p)
    <2>1. proc'[p].pc = "setup" /\ proc'[p].wrote = proc[p].wrote /\ proc[p].pc = "spawned"
        BY <1>2, <1>3 DEF AcquireInstance, Moves, Types, ProcessesTypeOK, ProcTypes
    <2>2. Sound(p)'
        BY <1>1, <1>3, <2>1 DEF AcquireInstance, Sound, HoldsByPhase, WroteByPhase, NamedByItself,
                                StaysNamed, Alive, Held, files
    <2> QED BY <1>1, <1>3, <2>2, OneSteps DEF AcquireInstance, files
<1>4. CASE ReleaseInstance(p)
    <2>1. proc'[p].pc = "leaving" /\ proc'[p].wrote = proc[p].wrote /\ proc[p].pc = "unrecorded"
        BY <1>2, <1>4 DEF ReleaseInstance, Moves, Types, ProcessesTypeOK, ProcTypes
    <2>2. owner = p
        BY <1>1, <2>1 DEF Sound, HoldsByPhase, Held
    <2>3. Sound(p)'
        BY <1>1, <1>4, <2>1 DEF ReleaseInstance, Sound, HoldsByPhase, WroteByPhase, NamedByItself,
                                StaysNamed, Alive, Held, files
    <2> QED BY <1>1, <1>4, <2>2, <2>3, OneSteps DEF ReleaseInstance, files
<1> QED BY <1>3, <1>4

\* a file is written or removed,
LEMMA WritingKeeps ==
    ASSUME Types, Ownership, NEW p \in Procs, UNCHANGED client,
           \/ RemoveStaleEndpoint(p) \/ WritePid(p) \/ WriteEndpoint(p) \/ Unpublish(p) \/ Unrecord(p)
    PROVE  Ownership'
<1>1. Sound(p) /\ p # None /\ proc[p] \in ProcTypes
    BY EntryType, ProcessesAssumption DEF Ownership
<1>2. owner = p /\ \A q \in Procs \ {p} : proc'[q] = proc[q]
    BY <1>1 DEF RemoveStaleEndpoint, WritePid, WriteEndpoint, Unpublish, Unrecord, Moves,
                Sound, HoldsByPhase, Held, Types, ProcessesTypeOK
<1>3. CASE RemoveStaleEndpoint(p)
    <2>1. proc'[p].pc = "bind" /\ proc'[p].wrote = proc[p].wrote /\ proc[p].pc = "setup"
        BY <1>1, <1>3 DEF RemoveStaleEndpoint, Moves, Types, ProcessesTypeOK, ProcTypes
    <2>2. Sound(p)'
        BY <1>1, <1>2, <1>3, <2>1 DEF RemoveStaleEndpoint, Sound, HoldsByPhase, WroteByPhase,
                                NamedByItself, StaysNamed, Alive, Held
    <2> QED BY <1>2, <1>3, <2>2, OneSteps DEF RemoveStaleEndpoint
<1>4. CASE WritePid(p)
    <2>1. proc'[p].pc = "recorded" /\ proc'[p].wrote = {"pid"} /\ proc[p].pc = "armed"
        BY <1>1, <1>4 DEF WritePid, Types, ProcessesTypeOK, ProcTypes
    <2>2. Sound(p)'
        BY <1>1, <1>2, <1>4, <2>1 DEF WritePid, Sound, HoldsByPhase, WroteByPhase,
                                NamedByItself, StaysNamed, Alive, Held
    <2> QED BY <1>2, <1>4, <2>2, OneSteps DEF WritePid
<1>5. CASE WriteEndpoint(p)
    <2>1. proc'[p].pc = "published" /\ proc'[p].wrote = {"pid", "endpoint"} /\ proc[p].pc = "recorded"
        BY <1>1, <1>5 DEF WriteEndpoint, Types, ProcessesTypeOK, ProcTypes
    <2>2. Sound(p)'
        BY <1>1, <1>2, <1>5, <2>1 DEF WriteEndpoint, Sound, HoldsByPhase, WroteByPhase,
                                NamedByItself, StaysNamed, Alive, Held
    <2> QED BY <1>2, <1>5, <2>2, OneSteps DEF WriteEndpoint
<1>6. CASE Unpublish(p)
    <2>1. proc'[p].pc = "unpublished" /\ proc'[p].wrote = proc[p].wrote /\ proc[p].pc = "closed"
        BY <1>1, <1>6 DEF Unpublish, Moves, Types, ProcessesTypeOK, ProcTypes
    <2>2. Sound(p)'
        BY <1>1, <1>2, <1>6, <2>1 DEF Unpublish, Sound, HoldsByPhase, WroteByPhase,
                                NamedByItself, StaysNamed, Alive, Held
    <2> QED BY <1>2, <1>6, <2>2, OneSteps DEF Unpublish
<1>7. CASE Unrecord(p)
    <2>1. proc'[p].pc = "unrecorded" /\ proc'[p].wrote = proc[p].wrote /\ proc[p].pc = "unpublished"
        BY <1>1, <1>7 DEF Unrecord, Moves, Types, ProcessesTypeOK, ProcTypes
    <2>2. Sound(p)'
        BY <1>1, <1>2, <1>7, <2>1 DEF Unrecord, Sound, HoldsByPhase, WroteByPhase,
                                NamedByItself, StaysNamed, Alive, Held
    <2> QED BY <1>2, <1>7, <2>2, OneSteps DEF Unrecord
<1> QED BY <1>3, <1>4, <1>5, <1>6, <1>7

\* the process ends, for whatever reason,
LEMMA EndingKeeps ==
    ASSUME Types, Ownership, NEW p \in Procs, Dies(p), UNCHANGED files,
           \A c \in Clients : client'[c].pc \in Cleaning <=> client[c].pc \in Cleaning
    PROVE  Ownership'
<1>1. p # None /\ \A q \in Procs \ {p} : proc'[q] = proc[q]
    BY ProcessesAssumption DEF Dies, Types, ProcessesTypeOK
<1>2. ~Alive(p)' /\ proc'[p].pc \notin Held /\ owner' # p
    BY <1>1 DEF Dies, Ended, NoProc, Alive, Held, Types, ProcessesTypeOK
<1>3. Sound(p)'
    BY <1>2 DEF Sound, HoldsByPhase, WroteByPhase, NamedByItself, StaysNamed, Alive, Held
<1> QED BY <1>1, <1>3, OneSteps DEF Dies, files

\* or it goes on within its phase.
LEMMA PassingKeeps ==
    ASSUME Types, Ownership, NEW p \in Procs, UNCHANGED <<owner, files>>,
           \A c \in Clients : client'[c].pc \in Cleaning <=> client[c].pc \in Cleaning,
           \A q \in Procs \ {p} : proc'[q] = proc[q],
           proc'[p].wrote = proc[p].wrote,
           \/ proc'[p].pc = proc[p].pc
           \/ proc[p].pc \in {"spawned", "leaving"} /\ proc'[p].pc \in {"leaving", "reported"}
           \/ proc[p].pc = "bind" /\ proc'[p].pc = "armed"
           \/ proc[p].pc = "published" /\ proc'[p].pc = "serving"
           \/ /\ proc[p].pc \in {"setup", "bind", "armed", "recorded", "published", "serving", "closing"}
              /\ proc'[p].pc \in {"closing", "closed"}
    PROVE  Ownership'
<1>1. Sound(p)
    BY DEF Ownership
<1>2. Sound(p)'
    BY <1>1 DEF Sound, HoldsByPhase, WroteByPhase, NamedByItself, StaysNamed, Alive, Held, files
<1> QED BY <1>2, OneSteps DEF files

\* A signal ends the process, or is noted.
LEMMA SignalKeeps ==
    ASSUME Types, Ownership, NEW p \in Procs, Terminated(p), UNCHANGED files,
           \A c \in Clients : client'[c].pc \in Cleaning <=> client[c].pc \in Cleaning
    PROVE  Ownership'
<1>1. CASE proc[p].flag = "unset"
    BY <1>1, EndingKeeps DEF Terminated
<1>2. CASE proc[p].flag # "unset"
    <2>1. /\ \A q \in Procs \ {p} : proc'[q] = proc[q]
          /\ proc'[p].wrote = proc[p].wrote
          /\ proc'[p].pc = proc[p].pc
        BY <1>2, EntryType DEF Terminated, Types, ProcessesTypeOK, ProcTypes
    <2> QED BY <1>2, <2>1, PassingKeeps DEF Terminated
<1> QED BY <1>1, <1>2

\* So every step of a daemon keeps it,
LEMMA DaemonKeeps ==
    ASSUME Types, Ownership, NEW p \in Procs, DaemonStep(p)
    PROVE  Ownership'
<1>0. UNCHANGED client
    BY DEF DaemonStep
<1>1. CASE AcquireInstance(p) \/ ReleaseInstance(p)
    BY <1>0, <1>1, LockingKeeps
<1>2. CASE \/ RemoveStaleEndpoint(p) \/ WritePid(p) \/ WriteEndpoint(p) \/ Unpublish(p) \/ Unrecord(p)
    BY <1>0, <1>2, WritingKeeps
<1>3. CASE Exit(p)
    BY <1>0, <1>3, EndingKeeps DEF Exit
<1>4. CASE \/ Refused(p) \/ Listen(p) \/ StartCancelled(p) \/ StartsServing(p) \/ LauncherIsGone(p)
           \/ LateStop(p) \/ LeaveLoop(p) \/ CloseSocket(p) \/ Report(p)
    <2>1. /\ \A q \in Procs \ {p} : proc'[q] = proc[q]
          /\ proc'[p].wrote = proc[p].wrote
        BY <1>4, EntryType
        DEF Refused, Listen, StartCancelled, StartsServing, LauncherIsGone, LateStop, LeaveLoop,
            CloseSocket, Report, Moves, Types, ProcessesTypeOK, ProcTypes
    <2>2. \/ proc'[p].pc = proc[p].pc
          \/ proc[p].pc \in {"spawned", "leaving"} /\ proc'[p].pc \in {"leaving", "reported"}
          \/ proc[p].pc = "bind" /\ proc'[p].pc = "armed"
          \/ proc[p].pc = "published" /\ proc'[p].pc = "serving"
          \/ /\ proc[p].pc \in {"setup", "bind", "armed", "recorded", "published", "serving", "closing"}
             /\ proc'[p].pc \in {"closing", "closed"}
        BY <1>4, EntryType
        DEF Refused, Listen, StartCancelled, StartsServing, LauncherIsGone, LateStop, LeaveLoop,
            CloseSocket, Report, Moves, Types, ProcessesTypeOK, ProcTypes
    <2>3. UNCHANGED <<owner, files>>
        BY <1>4 DEF Refused, Listen, StartCancelled, StartsServing, LauncherIsGone, LateStop, LeaveLoop,
            CloseSocket, Report
    <2> QED BY <1>0, <2>1, <2>2, <2>3, PassingKeeps
<1> QED BY <1>1, <1>2, <1>3, <1>4 DEF DaemonStep

\* A new process is named by nobody.
LEMMA FreshKeeps ==
    ASSUME Types, Ownership, NEW p \in Procs, Fresh(p), UNCHANGED <<owner, files>>,
           NEW r, r.pc = "spawned", r.wrote = {}, proc' = [proc EXCEPT ![p] = r],
           \A c \in Clients : client'[c].pc \in Cleaning <=> client[c].pc \in Cleaning
    PROVE  Ownership'
<1>1. Sound(p) /\ proc'[p] = r /\ \A q \in Procs \ {p} : proc'[q] = proc[q]
    BY DEF Ownership, Types, ProcessesTypeOK
<1>2. Sound(p)'
    BY <1>1 DEF Fresh, Sound, HoldsByPhase, WroteByPhase, NamedByItself, StaysNamed, Alive, Held, files
<1> QED BY <1>1, <1>2, OneSteps DEF files

\* and so does what disturbs daemons.
LEMMA EnvironmentKeeps ==
    ASSUME Types, Ownership, NEW p \in Procs, ByHand(p) \/ ProcessFault(p)
    PROVE  Ownership'
<1>1. UNCHANGED client
    BY DEF ByHand, ProcessFault
<1>2. CASE ByHand(p)
    <2>1. PICK old \in BOOLEAN : proc' = [proc EXCEPT ![p] = [NoProc EXCEPT !.pc = "spawned", !.old = old]]
        BY <1>2 DEF ByHand, StartForeground
    <2> DEFINE r == [NoProc EXCEPT !.pc = "spawned", !.old = old]
    <2>2. r.pc = "spawned" /\ r.wrote = {}
        BY DEF NoProc
    <2> HIDE DEF r
    <2>3. proc' = [proc EXCEPT ![p] = r]
        BY <2>1 DEF r
    <2> QED BY <1>1, <1>2, <2>2, <2>3, FreshKeeps DEF ByHand, StartForeground
<1>3. CASE SetupFails(p)
    <2>1. /\ \A q \in Procs \ {p} : proc'[q] = proc[q]
          /\ proc'[p].wrote = proc[p].wrote
          /\ proc[p].pc \in {"setup", "bind", "armed", "recorded"} /\ proc'[p].pc = "closing"
        BY <1>3, EntryType DEF SetupFails, Types, ProcessesTypeOK, ProcTypes
    <2> QED BY <1>1, <1>3, <2>1, PassingKeeps DEF SetupFails
<1>4. CASE Killed(p)
    BY <1>1, <1>4, EndingKeeps DEF Killed
<1> QED BY <1>2, <1>3, <1>4 DEF ByHand, ProcessFault
-----------------------------------------------------------------------------
\* A client that does not clean disturbs no process' service.
LEMMA ClientKeeps ==
    ASSUME Types, Ownership, NEW c \in Clients, UNCHANGED <<owner, files>>,
           \A p \in Procs : Undisturbed(p, proc'[p]),
           client[c].pc \notin Cleaning, client'[c].pc \notin Cleaning,
           \A d \in Clients \ {c} : client'[d] = client[d]
    PROVE  Ownership'
BY OthersStay

\* When a client leaves, it only takes dead children along,
LEMMA OrphanedKeeps ==
    ASSUME Types, NEW c \in Clients, NEW p \in Procs
    PROVE  Undisturbed(p, Orphaned(c, proc)[p])
<1>1. proc[p] \in ProcTypes
    BY EntryType
<1>2. PICK r : r = Orphaned(c, proc)[p]
    OBVIOUS
<1>3. CASE r = proc[p]
    BY <1>2, <1>3 DEF Undisturbed
<1>4. CASE proc[p].pc = "zombie" /\ r = NoProc
    BY <1>2, <1>4 DEF Undisturbed, Alive, NoProc
<1>5. CASE r = [proc[p] EXCEPT !.parent = None]
    BY <1>1, <1>2, <1>5 DEF Undisturbed, ProcTypes
<1>6. \/ r = proc[p]
      \/ proc[p].pc = "zombie" /\ r = NoProc
      \/ r = [proc[p] EXCEPT !.parent = None]
    BY <1>2 DEF Orphaned
<1> QED BY <1>3, <1>4, <1>5, <1>6

\* so also when its command is over.
LEMMA AfterKeeps ==
    ASSUME Types, NEW c \in Clients, NEW o, NEW p \in Procs
    PROVE  Undisturbed(p, AfterCommand(c, o)[p])
<1>1. CASE AfterCommand(c, o) = proc
    BY <1>1 DEF Undisturbed
<1>2. CASE AfterCommand(c, o) = Orphaned(c, proc)
    BY <1>2, OrphanedKeeps
<1> QED BY <1>1, <1>2 DEF AfterCommand

\* A flag tells nothing about the phase.
LEMMA FlagsKeep ==
    ASSUME NEW procs \in [Procs -> ProcTypes], NEW q \in Procs, NEW p \in Procs,
           Undisturbed(p, procs[p])
    PROVE  /\ Undisturbed(p, [procs EXCEPT ![q].flag = "stop"][p])
           /\ Undisturbed(p, [procs EXCEPT ![q].late = TRUE][p])
<1>1. procs[p] \in ProcTypes
    OBVIOUS
<1>2. /\ [procs EXCEPT ![q].flag = "stop"][p].pc = procs[p].pc
      /\ [procs EXCEPT ![q].flag = "stop"][p].wrote = procs[p].wrote
      /\ [procs EXCEPT ![q].late = TRUE][p].pc = procs[p].pc
      /\ [procs EXCEPT ![q].late = TRUE][p].wrote = procs[p].wrote
    BY <1>1 DEF ProcTypes
<1> QED BY <1>2 DEF Undisturbed

\* nor does a stop that is queued.
LEMMA LateStopKeeps ==
    ASSUME Types, NEW c \in Clients, NEW procs \in [Procs -> ProcTypes], NEW p \in Procs,
           Undisturbed(p, procs[p])
    PROVE  Undisturbed(p, WithLateStop(c, procs)[p])
<1>1. CASE client[c].pc \in {"stop_wait", "old_wait"}
    <2>1. client[c].to \in Procs
        BY <1>1 DEF Types, CommandsTypeOK, Waits
    <2> QED BY <2>1, FlagsKeep DEF WithLateStop
<1>2. CASE client[c].pc \notin {"stop_wait", "old_wait"}
    BY <1>2 DEF WithLateStop
<1> QED BY <1>1, <1>2

\* and it cleans no more.
LEMMA OutcomeLeaves ==
    ASSUME Types, NEW c \in Clients, NEW o, Outcome(c, o)
    PROVE  client'[c].pc \notin Cleaning /\ \A d \in Clients \ {c} : client'[d] = client[d]
BY DEF Outcome, NoCommand, Cleaning, Types, CommandsTypeOK

\* So a command that ends keeps the ownership,
LEMMA ReturnsKeeps ==
    ASSUME Types, Ownership, NEW c \in Clients, NEW o, Returns(c, o), client[c].pc \notin Cleaning
    PROVE  Ownership'
BY AfterKeeps, OutcomeLeaves, ClientKeeps DEF Returns

\* A client that moves outside of its cleaning.
LEMMA WalksKeeps ==
    ASSUME Types, Ownership, NEW c \in Clients, UNCHANGED <<owner, files, proc>>,
           client[c].pc \notin Cleaning, client'[c].pc \notin Cleaning,
           \A d \in Clients \ {c} : client'[d] = client[d]
    PROVE  Ownership'
BY ClientKeeps DEF Undisturbed

\* in particular a step of its command
LEMMA GoesKeeps ==
    ASSUME Types, Ownership, NEW c \in Clients, NEW from, NEW to,
           from \notin Cleaning, to \notin Cleaning, Goes(c, from, to)
    PROVE  Ownership'
<1>1. client'[c].pc = to /\ \A d \in Clients \ {c} : client'[d] = client[d]
    BY ClientType DEF Goes, Types, CommandsTypeOK, ClientTypes
<1> QED BY <1>1, WalksKeeps DEF Goes, others

\* and the read of a PID.
LEMMA RemembersKeeps ==
    ASSUME Types, Ownership, NEW c \in Clients, NEW from, NEW to, NEW p,
           from \notin Cleaning, to \notin Cleaning, Remembers(c, from, to, p)
    PROVE  Ownership'
<1>1. client'[c].pc = to /\ \A d \in Clients \ {c} : client'[d] = client[d]
    BY ClientType DEF Remembers, Types, CommandsTypeOK, ClientTypes
<1> QED BY <1>1, WalksKeeps DEF Remembers, others

\* A client that leaves drops its lock.
LEMMA LeavesKeeps ==
    ASSUME Types, Ownership, NEW c \in Clients, UNCHANGED files,
           owner' = IF owner = c THEN None ELSE owner,
           \A p \in Procs : Undisturbed(p, proc'[p]),
           client'[c].pc \notin Cleaning,
           \A d \in Clients \ {c} : client'[d] = client[d]
    PROVE  Ownership'
<1>1. c \notin Procs /\ None \notin Procs \cup Clients
    BY ProcessesAssumption
<1>2. ASSUME NEW p \in Procs
      PROVE  Sound(p)'
    <2>1. Sound(p) /\ Undisturbed(p, proc'[p])
        BY DEF Ownership
    <2>2. owner' = p <=> owner = p
        BY <1>1
    <2> QED BY <2>1, <2>2 DEF Sound, Undisturbed, HoldsByPhase, WroteByPhase, NamedByItself, StaysNamed,
                        Alive, Held, files
<1>3. ASSUME NEW d \in Clients
      PROVE  client'[d].pc \in Cleaning <=> owner' = d
    BY <1>1 DEF Ownership
<1> QED BY <1>2, <1>3 DEF Ownership

\* While a client cleans, no process is in service.
LEMMA CleansKeeps ==
    ASSUME Types, Ownership, NEW c \in Clients, owner \in {None, c}, owner' = c, UNCHANGED proc,
           pidFile' \in {pidFile, None}, endpoint' \in {endpoint, None},
           client'[c].pc \in Cleaning,
           \A d \in Clients \ {c} : client'[d] = client[d]
    PROVE  Ownership'
<1>1. c \notin Procs /\ None \notin Procs \cup Clients
    BY ProcessesAssumption
<1>2. ASSUME NEW p \in Procs
      PROVE  Sound(p)'
    <2>1. Sound(p) /\ owner # p /\ owner' # p
        BY <1>1 DEF Ownership
    <2> QED BY <1>1, <2>1 DEF Sound, HoldsByPhase, WroteByPhase, NamedByItself, StaysNamed, Alive, Held
<1>3. ASSUME NEW d \in Clients
      PROVE  client'[d].pc \in Cleaning <=> owner' = d
    BY <1>1 DEF Ownership
<1> QED BY <1>2, <1>3 DEF Ownership
-----------------------------------------------------------------------------
\* Commands begin, get the lock, and are interrupted;
LEMMA CommandKeeps ==
    ASSUME Types, Ownership, NEW c \in Clients,
           (\E op \in Ops : Begin(c, op)) \/ Lock(c) \/ Interrupted(c)
    PROVE  Ownership'
<1>1. CASE \E op \in Ops : Begin(c, op)
    <2>1. /\ client[c].pc = "idle" /\ client'[c].pc = "lock"
          /\ \A d \in Clients \ {c} : client'[d] = client[d]
        BY <1>1 DEF Begin, NoCommand, Types, CommandsTypeOK
    <2> QED BY <1>1, <2>1, WalksKeeps DEF Begin, others, Cleaning
<1>2. CASE Lock(c)
    <2>1. client[c].pc = "lock" /\ client'[c].pc = FirstOf(client[c].op)
        BY <1>2, ClientType DEF Lock, Types, CommandsTypeOK, ClientTypes
    <2>2. client[c].pc \notin Cleaning /\ client'[c].pc \notin Cleaning
        BY <2>1 DEF FirstOf, Cleaning
    <2>3. \A d \in Clients \ {c} : client'[d] = client[d]
        BY <1>2 DEF Lock, Types, CommandsTypeOK
    <2> QED BY <1>2, <2>2, <2>3, WalksKeeps DEF Lock
<1>3. CASE Interrupted(c)
    <2>1. /\ client'[c].pc \notin Cleaning
          /\ \A d \in Clients \ {c} : client'[d] = client[d]
        BY <1>3 DEF Interrupted, NoCommand, Cleaning, Types, CommandsTypeOK
    <2>2. Orphaned(c, proc) \in [Procs -> ProcTypes]
        BY OrphanedType DEF Types, ProcessesTypeOK
    <2>3. \A p \in Procs : Undisturbed(p, proc'[p])
        BY <1>3, <2>2, OrphanedKeeps, LateStopKeeps DEF Interrupted
    <2> QED BY <1>3, <2>1, <2>3, LeavesKeeps DEF Interrupted
<1> QED BY <1>1, <1>2, <1>3

\* requests go out and are answered, or not;
LEMMA NotRunningKeeps ==
    ASSUME Types, Ownership, NEW c \in Clients, client[c].pc \in Requests \cup Waits, NotRunning(c)
    PROVE  Ownership'
<1>1. client[c].pc \notin Cleaning
    BY DEF Requests, Waits, Cleaning
<1>2. CASE client[c].pc \in {"verify", "verify_wait"}
    BY <1>1, <1>2, ReturnsKeeps DEF NotRunning
<1>3. CASE client[c].pc \notin {"verify", "verify_wait"}
    <2>1. /\ client'[c].pc \in {"probe", "clean", "process"}
          /\ \A d \in Clients \ {c} : client'[d] = client[d]
        BY <1>3, ClientType DEF NotRunning, Types, CommandsTypeOK, ClientTypes
    <2>2. proc \in [Procs -> ProcTypes] /\ \A p \in Procs : Undisturbed(p, proc[p])
        BY DEF Types, ProcessesTypeOK, Undisturbed
    <2>3. \A p \in Procs : Undisturbed(p, proc'[p])
        BY <1>3, <2>2, LateStopKeeps DEF NotRunning
    <2> QED BY <1>1, <1>3, <2>1, <2>3, ClientKeeps DEF NotRunning, Cleaning
<1> QED BY <1>2, <1>3

\* with whatever answer;
LEMMA RequestKeeps ==
    ASSUME Types, Ownership, NEW c \in Clients,
           Send(c) \/ Unreachable(c) \/ Reset(c) \/ TimesOut(c) \/ BadAnswer(c) \/ Pong(c) \/ Stops(c)
    PROVE  Ownership'
<1>1. client[c].pc \in Requests \cup Waits /\ client[c].pc \notin Cleaning
    BY DEF Send, Unreachable, Reset, TimesOut, BadAnswer, Pong, Stops, Requests, Waits, Cleaning
<1>2. CASE Unreachable(c) \/ Reset(c) \/ TimesOut(c)
    BY <1>1, <1>2, NotRunningKeeps DEF Unreachable, Reset, TimesOut
<1>3. CASE \E o \in {"ok", "error"} : Returns(c, o)
    BY <1>1, <1>3, ReturnsKeeps
<1>4. CASE Send(c)
    <2>1. /\ client'[c].pc = WaitOf(client[c].pc)
          /\ \A d \in Clients \ {c} : client'[d] = client[d]
        BY <1>4, ClientType DEF Send, Types, CommandsTypeOK, ClientTypes
    <2>2. client'[c].pc \notin Cleaning
        BY <2>1 DEF WaitOf, Cleaning
    <2> QED BY <1>1, <1>4, <2>1, <2>2, WalksKeeps DEF Send, others
<1>5. CASE /\ client' = [client EXCEPT ![c].pc = "old_read", ![c].to = None]
           /\ UNCHANGED others
    <2>1. /\ client'[c].pc = "old_read"
          /\ \A d \in Clients \ {c} : client'[d] = client[d]
        BY <1>5, ClientType DEF Types, CommandsTypeOK, ClientTypes
    <2> QED BY <1>1, <1>5, <2>1, WalksKeeps DEF others, Cleaning
<1>6. CASE Stops(c)
    <2> DEFINE q == client[c].to
    <2>1. q \in Procs
        BY <1>6 DEF Stops, Types, CommandsTypeOK, Waits
    <2>2. /\ client'[c].pc \notin Cleaning
          /\ \A d \in Clients \ {c} : client'[d] = client[d]
        <3>1. CASE Outcome(c, "ok")
            BY <3>1, OutcomeLeaves
        <3>2. CASE client' = [client EXCEPT ![c].pc = IF @ = "old_wait" THEN "old_exit" ELSE "stop_exit"]
            BY <3>2, ClientType DEF Types, CommandsTypeOK, ClientTypes, Cleaning
        <3> QED BY <1>6, <3>1, <3>2 DEF Stops
    <2>3. PICK procs \in [Procs -> ProcTypes] :
              /\ \A p \in Procs : Undisturbed(p, procs[p])
              /\ proc' = [procs EXCEPT ![q].flag = "stop"]
        <3>1. proc \in [Procs -> ProcTypes] /\ \A p \in Procs : Undisturbed(p, proc[p])
            BY DEF Types, ProcessesTypeOK, Undisturbed
        <3>2. /\ AfterCommand(c, "ok") \in [Procs -> ProcTypes]
              /\ \A p \in Procs : Undisturbed(p, AfterCommand(c, "ok")[p])
            BY AfterCommandType, AfterKeeps DEF Types
        <3> QED BY <1>6, <3>1, <3>2 DEF Stops
    <2>4. \A p \in Procs : Undisturbed(p, proc'[p])
        BY <2>1, <2>3, FlagsKeep
    <2> QED BY <1>1, <1>6, <2>2, <2>4, ClientKeeps DEF Stops
<1> QED BY <1>2, <1>3, <1>4, <1>5, <1>6 DEF BadAnswer, Pong

\* clients wait, and look at the files;
LEMMA LooksKeeps ==
    ASSUME Types, Ownership, NEW c \in Clients,
           \/ SeesExit(c) \/ GivesUp(c) \/ TermFailed(c)
           \/ Probe(c) \/ Unresponsive(c) \/ NoRecord(c) \/ ProbePid(c) \/ ReadOutdated(c)
           \/ ReadBeforeStop(c) \/ ReadProcess(c) \/ Occupied(c) \/ CannotLaunch(c)
           \/ ChildFailed(c) \/ NoReport(c)
    PROVE  Ownership'
<1>1. CASE Cleans(c) /\ client[c].pc \notin Cleaning
    <2>1. /\ client'[c].pc = "clean"
          /\ \A d \in Clients \ {c} : client'[d] = client[d]
        BY <1>1, ClientType DEF Cleans, Types, CommandsTypeOK, ClientTypes
    <2> QED BY <1>1, <2>1, WalksKeeps DEF Cleans, others, Cleaning
<1>2. CASE (\E o \in {"ok", "error"} : Returns(c, o)) /\ client[c].pc \notin Cleaning
    BY <1>2, ReturnsKeeps
<1>3. CASE /\ client[c].pc \in Exits
           /\ client' = [client EXCEPT ![c].pc = "kill"]
           /\ UNCHANGED others
    <2>1. /\ client'[c].pc = "kill" /\ client[c].pc \notin Cleaning
          /\ \A d \in Clients \ {c} : client'[d] = client[d]
        BY <1>3, ClientType DEF Types, CommandsTypeOK, ClientTypes, Exits, Cleaning
    <2> QED BY <1>3, <2>1, WalksKeeps DEF others, Cleaning
<1>4. CASE SeesExit(c) \/ GivesUp(c) \/ TermFailed(c)
    BY <1>1, <1>2, <1>3, <1>4 DEF SeesExit, GivesUp, TermFailed, Exits, Cleaning
<1>5. CASE Unresponsive(c) \/ Occupied(c) \/ CannotLaunch(c)
    BY <1>2, <1>5 DEF Unresponsive, Occupied, CannotLaunch, Cleaning
<1>6. CASE Probe(c) \/ NoRecord(c) \/ ProbePid(c) \/ ChildFailed(c) \/ NoReport(c)
    BY <1>6, GoesKeeps DEF Probe, NoRecord, ProbePid, ChildFailed, NoReport, Cleaning
<1>7. CASE ReadOutdated(c)
    BY <1>2, <1>7, RemembersKeeps DEF ReadOutdated, Cleaning
<1>8. CASE ReadBeforeStop(c) \/ ReadProcess(c)
    BY <1>8, RemembersKeeps DEF ReadBeforeStop, ReadProcess, Cleaning
<1> QED BY <1>4, <1>5, <1>6, <1>7, <1>8

\* they signal processes;
LEMMA SignalsKeep ==
    ASSUME Types, Ownership, NEW c \in Clients,
           Validate(c) \/ SendTerm(c) \/ SendKill(c) \/ TerminateChild(c) \/ KillChild(c)
    PROVE  Ownership'
<1>1. CASE Validate(c)
    <2>1. CASE \E o \in {"ok", "error"} : Returns(c, o)
        BY <1>1, <2>1, ReturnsKeeps DEF Validate, Cleaning
    <2>2. CASE Goes(c, "term", "term_failed")
        BY <2>2, GoesKeeps DEF Cleaning
    <2>3. ASSUME NEW to \in {"term_send", "kill_send"},
                 client' = [client EXCEPT ![c].target = ReadPid, ![c].pc = to], UNCHANGED others
          PROVE  Ownership'
        <3>1. /\ client'[c].pc = to /\ client[c].pc \notin Cleaning
              /\ \A d \in Clients \ {c} : client'[d] = client[d]
            BY <1>1, <2>3, ClientType DEF Validate, Types, CommandsTypeOK, ClientTypes, Cleaning
        <3> QED BY <2>3, <3>1, WalksKeeps DEF others, Cleaning
    <2> QED BY <1>1, <2>1, <2>2, <2>3 DEF Validate
<1>2. ASSUME NEW p \in Procs,
             client[c].pc \notin Cleaning, client'[c].pc \notin Cleaning,
             \A d \in Clients \ {c} : client'[d] = client[d],
             UNCHANGED files,
             Dies(p) \/ Terminated(p) \/ UNCHANGED <<proc, owner>>
      PROVE  Ownership'
    <2>1. \A d \in Clients : client'[d].pc \in Cleaning <=> client[d].pc \in Cleaning
        BY <1>2
    <2>2. CASE Dies(p) \/ Terminated(p)
        BY <1>2, <2>1, <2>2, EndingKeeps, SignalKeeps
    <2>3. CASE UNCHANGED <<proc, owner>>
        BY <1>2, <2>3, WalksKeeps
    <2> QED BY <1>2, <2>2, <2>3
<1>3. CASE SendTerm(c)
    <2>1. /\ client'[c].pc \notin Cleaning /\ client[c].pc \notin Cleaning
          /\ \A d \in Clients \ {c} : client'[d] = client[d]
        BY <1>3, ClientType DEF SendTerm, Types, CommandsTypeOK, ClientTypes, Cleaning
    <2>2. client[c].target \in Procs
        BY <1>3 DEF SendTerm, Types, CommandsTypeOK
    <2> QED BY <1>2, <1>3, <2>1, <2>2 DEF SendTerm
<1>4. CASE SendKill(c)
    <2>1. client[c].target \in Procs /\ client[c].pc \notin Cleaning
        BY <1>4 DEF SendKill, Types, CommandsTypeOK, Cleaning
    <2>2. CASE Returns(c, "error")
        BY <2>1, <2>2, ReturnsKeeps
    <2>3. CASE ~Returns(c, "error")
        <3>1. client' = [client EXCEPT ![c].target = None, ![c].pc = "kill_exit"]
            BY <1>4, <2>3 DEF SendKill
        <3>2. /\ client'[c].pc = "kill_exit"
              /\ \A d \in Clients \ {c} : client'[d] = client[d]
            BY <3>1, ClientType DEF Types, CommandsTypeOK, ClientTypes
        <3> QED BY <1>2, <1>4, <2>1, <2>3, <3>2 DEF SendKill, Cleaning
    <2> QED BY <2>2, <2>3
<1>5. CASE TerminateChild(c) \/ KillChild(c)
    <2>1. /\ client'[c].pc = "reap" /\ client[c].pc \in {"terminate", "reap"}
          /\ \A d \in Clients \ {c} : client'[d] = client[d]
        BY <1>5, ClientType DEF TerminateChild, KillChild, Types, CommandsTypeOK, ClientTypes
    <2>2. startup[c].child \in Procs
        BY <2>1 DEF Types, CommandsTypeOK
    <2> QED BY <1>2, <1>5, <2>1, <2>2 DEF TerminateChild, KillChild, Cleaning
<1> QED BY <1>1, <1>3, <1>4, <1>5

\* they clean up;
LEMMA CleaningKeeps ==
    ASSUME Types, Ownership, NEW c \in Clients,
           Clean(c) \/ CleanPid(c) \/ CleanEndpoint(c) \/ CleanDone(c)
    PROVE  Ownership'
<1>1. c \notin Procs /\ c # None
    BY ProcessesAssumption
<1>2. client[c].pc \in Cleaning <=> owner = c
    BY DEF Ownership
<1>3. CASE Clean(c) \/ CleanPid(c) \/ CleanEndpoint(c)
    <2>1. /\ client'[c].pc \in Cleaning
          /\ \A d \in Clients \ {c} : client'[d] = client[d]
        BY <1>3, ClientType DEF Clean, CleanPid, CleanEndpoint, Types, CommandsTypeOK, ClientTypes, Cleaning
    <2> QED BY <1>2, <1>3, <2>1, CleansKeeps DEF Clean, CleanPid, CleanEndpoint, Cleaning, files
<1>4. CASE CleanDone(c)
    <2>1. owner = c /\ owner' = None
        BY <1>2, <1>4 DEF CleanDone, Cleaning
    <2>2. /\ client'[c].pc \notin Cleaning
          /\ \A d \in Clients \ {c} : client'[d] = client[d]
        <3>1. CASE Outcome(c, "ok")
            BY <3>1, OutcomeLeaves
        <3>2. CASE client' = [client EXCEPT ![c].pc = "launch"]
            BY <3>2, ClientType DEF Types, CommandsTypeOK, ClientTypes, Cleaning
        <3> QED BY <1>4, <3>1, <3>2 DEF CleanDone
    <2>3. \A p \in Procs : Undisturbed(p, proc'[p])
        <3>1. CASE proc' = proc
            BY <3>1 DEF Undisturbed
        <3>2. CASE proc' = AfterCommand(c, "ok")
            BY <3>2, AfterKeeps
        <3> QED BY <1>4, <3>1, <3>2 DEF CleanDone
    <2> QED BY <1>4, <2>1, <2>2, <2>3, LeavesKeeps DEF CleanDone
<1> QED BY <1>3, <1>4

\* and they launch daemons.
LEMMA LaunchKeeps ==
    ASSUME Types, Ownership, NEW c \in Clients,
           (\E p \in Procs : Launch(c, p)) \/ ChildReady(c) \/ ReapChild(c)
    PROVE  Ownership'
<1>1. ASSUME NEW p \in Procs, Launch(c, p)
      PROVE  Ownership'
    <2>1. PICK r : r = [NoProc EXCEPT !.pc = "spawned", !.launched = TRUE, !.parent = c]
        OBVIOUS
    <2>2. r.pc = "spawned" /\ r.wrote = {}
        BY <2>1 DEF NoProc
    <2>3. /\ client'[c].pc = "startup" /\ client[c].pc = "launch"
          /\ \A d \in Clients \ {c} : client'[d] = client[d]
        BY <1>1, ClientType DEF Launch, Types, CommandsTypeOK, ClientTypes
    <2>4. \A d \in Clients : client'[d].pc \in Cleaning <=> client[d].pc \in Cleaning
        BY <2>3 DEF Cleaning
    <2> QED BY <1>1, <2>1, <2>2, <2>4, FreshKeeps DEF Launch
<1>2. CASE ChildReady(c)
    <2>1. /\ client'[c].pc = "verify" /\ client[c].pc = "startup"
          /\ \A d \in Clients \ {c} : client'[d] = client[d]
        BY <1>2, ClientType DEF ChildReady, Types, CommandsTypeOK, ClientTypes
    <2> QED BY <1>2, <2>1, WalksKeeps DEF ChildReady, Cleaning
<1>3. CASE ReapChild(c)
    <2>1. client[c].pc \notin Cleaning /\ startup[c].child \in Procs
        BY <1>3 DEF ReapChild, Types, CommandsTypeOK, Cleaning
    <2>2. client'[c].pc \notin Cleaning /\ \A d \in Clients \ {c} : client'[d] = client[d]
        BY <1>3, OutcomeLeaves DEF ReapChild
    <2>3. \A p \in Procs : Undisturbed(p, proc'[p])
        BY <1>3, <2>1 DEF ReapChild, Undisturbed, Exited, Alive, NoProc, Types, ProcessesTypeOK
    <2> QED BY <1>3, <2>1, <2>2, <2>3, ClientKeeps DEF ReapChild
<1> QED BY <1>1, <1>2, <1>3
-----------------------------------------------------------------------------
\* Every step keeps the ownership.
LEMMA NextKeepsOwnership ==
    ASSUME Types, Ownership, [Next]_vars
    PROVE  Ownership'
<1>1. CASE UNCHANGED vars
    BY <1>1, OthersStay DEF vars, Undisturbed, files
<1>2. ASSUME NEW c \in Clients,
             \/ ClientStep(c) \/ Patience(c) \/ Trouble(c) \/ Command(c) \/ Closed(c) \/ ClientFault(c)
      PROVE  Ownership'
    <2>1. CASE ClientStep(c)
        BY <2>1, CommandKeeps, RequestKeeps, LooksKeeps, SignalsKeep, CleaningKeeps, LaunchKeeps
        DEF ClientStep
    <2>2. CASE Patience(c) \/ Trouble(c)
        BY <2>2, RequestKeeps, LooksKeeps, SignalsKeep DEF Patience, Trouble
    <2>3. CASE Command(c) \/ Closed(c) \/ ClientFault(c)
        BY <2>3, CommandKeeps DEF Command, Closed, ClientFault
    <2> QED BY <1>2, <2>1, <2>2, <2>3
<1>3. CASE Next
    BY <1>2, <1>3, DaemonKeeps, EnvironmentKeeps DEF Next
<1> QED BY <1>1, <1>3

\* The directory's owner is known in every reachable state,
LEMMA AlwaysOwned == Spec => [](Types /\ Ownership)
<1>1. Init => Types /\ Ownership
    <2>1. TypeOK => Types
        BY DEF TypeOK, Types
    <2>2. Init => TypeOK
        BY LifecycleAssumption
        DEF Init, ProcessesInit, CommandsInit, TypeOK, ProcessesTypeOK, CommandsTypeOK,
            NoProc, ProcTypes, ProcSteps, NotListening, NoCommand, ClientTypes, ClientSteps, MaybeProc,
            Waits, Exits, ProcessSteps
    <2>3. Init => Ownership
        BY ProcessesAssumption
        DEF Init, ProcessesInit, CommandsInit, Ownership, Sound, HoldsByPhase, WroteByPhase, NamedByItself,
            StaysNamed, Alive, Held, Cleaning, NoProc, NoCommand
    <2> QED BY <2>1, <2>2, <2>3
<1>2. Types /\ Ownership /\ [Next]_vars => (Types /\ Ownership)'
    BY NextType, NextKeepsOwnership
<1> QED BY <1>1, <1>2, PTL DEF Spec

\* so the files name it or a process that has ended,
THEOREM FilesNameTheOwner == Spec => []RecordsAreCurrent
<1>1. Types /\ Ownership => RecordsAreCurrent
    BY OwnershipImplies
<1> QED BY <1>1, AlwaysOwned, PTL

\* and a daemon that serves is named by both files.
THEOREM TheServingAreFound == Spec => []ServingIsFound
<1>1. Types /\ Ownership => ServingIsFound
    BY OwnershipImplies
<1> QED BY <1>1, AlwaysOwned, PTL
-----------------------------------------------------------------------------
(***************************************************************************)
(* One command at a time                                                   *)
(***************************************************************************)

Outside  == {"idle", "lock"}
Starting == {"startup", "terminate", "reap"}

\* The lifecycle lock is with the client that is within its command, and only
\* who waits for a child listens for it.
Exclusive ==
    /\ \A c \in Clients : client[c].pc \notin Outside <=> launchLock = c
    /\ \A c \in Clients : startup[c].child # None => client[c].pc \in Starting

\* A client takes a step within its command, or outside of one;
LEMMA StepHolds ==
    ASSUME Types, Exclusive, NEW c \in Clients, UNCHANGED <<launchLock, startup>>,
           \A d \in Clients \ {c} : client'[d] = client[d],
           client'[c].pc \in Outside <=> client[c].pc \in Outside,
           client[c].pc \notin Starting \/ client'[c].pc \in Starting
    PROVE  Exclusive'
BY DEF Exclusive

\* it ends its command.
LEMMA EndHolds ==
    ASSUME Types, Exclusive, NEW c \in Clients, client[c].pc \notin Outside,
           launchLock' = None, client'[c].pc = "idle",
           \A d \in Clients \ {c} : client'[d] = client[d] /\ startup'[d] = startup[d],
           startup'[c].child = None
    PROVE  Exclusive'
<1>1. launchLock = c /\ c # None /\ None \notin Clients
    BY ProcessesAssumption DEF Exclusive
<1> QED BY <1>1 DEF Exclusive, Outside

\* The end as most commands have it: Returns.
LEMMA ReturnsHolds ==
    ASSUME Types, Exclusive, NEW c \in Clients, NEW o, Returns(c, o), client[c].pc \notin Outside
    PROVE  Exclusive'
<1>1. /\ launchLock' = None /\ client'[c].pc = "idle" /\ startup'[c].child = None
      /\ \A d \in Clients \ {c} : client'[d] = client[d] /\ startup'[d] = startup[d]
    BY DEF Returns, Outcome, NoCommand, NotListening, Types, ProcessesTypeOK, CommandsTypeOK
<1> QED BY <1>1, EndHolds

\* A command that has no listener and does not return: Outcome alone.
LEMMA OutcomeHolds ==
    ASSUME Types, Exclusive, NEW c \in Clients, NEW o, Outcome(c, o), launchLock' = None, UNCHANGED startup,
           client[c].pc \notin Outside \cup Starting
    PROVE  Exclusive'
<1>1. /\ client'[c].pc = "idle" /\ startup[c].child = None
      /\ \A d \in Clients \ {c} : client'[d] = client[d]
    BY DEF Outcome, NoCommand, Types, CommandsTypeOK, Exclusive
<1> QED BY <1>1, EndHolds

\* A step within the command from one place to another,
LEMMA GoesHolds ==
    ASSUME Types, Exclusive, NEW c \in Clients, NEW from, NEW to, Goes(c, from, to),
           from \notin Outside, to \notin Outside, from \notin Starting \/ to \in Starting
    PROVE  Exclusive'
<1>1. client'[c].pc = to /\ \A d \in Clients \ {c} : client'[d] = client[d]
    BY ClientType DEF Goes, Types, CommandsTypeOK, ClientTypes
<1> QED BY <1>1, StepHolds DEF Goes, others

\* or with a PID that was read.
LEMMA RemembersHolds ==
    ASSUME Types, Exclusive, NEW c \in Clients, NEW from, NEW to, NEW p, Remembers(c, from, to, p),
           from \notin Outside \cup Starting, to \notin Outside
    PROVE  Exclusive'
<1>1. client'[c].pc = to /\ \A d \in Clients \ {c} : client'[d] = client[d]
    BY ClientType DEF Remembers, Types, CommandsTypeOK, ClientTypes
<1> QED BY <1>1, StepHolds DEF Remembers, others

\* No daemon has a hand in this.
LEMMA DaemonHolds ==
    ASSUME Types, Exclusive, NEW p \in Procs, DaemonStep(p) \/ ByHand(p) \/ ProcessFault(p)
    PROVE  Exclusive'
<1>1. UNCHANGED <<client, launchLock>>
    BY DEF DaemonStep, ByHand, ProcessFault, AcquireInstance, Refused, RemoveStaleEndpoint, Listen,
           WritePid, WriteEndpoint, StartCancelled, StartsServing, LauncherIsGone, LateStop, LeaveLoop,
           CloseSocket, Unpublish, Unrecord, ReleaseInstance, Report, Exit, StartForeground, SetupFails, Killed
<1>2. \A c \in Clients : startup'[c].child = startup[c].child
    <2>1. CASE UNCHANGED startup
        BY <2>1
    <2>2. CASE StartsServing(p)
        BY <2>2 DEF StartsServing, Types, ProcessesTypeOK
    <2>3. CASE Report(p)
        BY <2>3 DEF Report
    <2> QED BY <2>1, <2>2, <2>3
            DEF DaemonStep, ByHand, ProcessFault, AcquireInstance, Refused, RemoveStaleEndpoint, Listen,
                WritePid, WriteEndpoint, StartCancelled, LauncherIsGone, LateStop, LeaveLoop,
                CloseSocket, Unpublish, Unrecord, ReleaseInstance, Exit, StartForeground, SetupFails, Killed
<1> QED BY <1>1, <1>2 DEF Exclusive

\* A request finds no daemon.
LEMMA NotRunningHolds ==
    ASSUME Types, Exclusive, NEW c \in Clients, client[c].pc \in Requests \cup Waits, NotRunning(c)
    PROVE  Exclusive'
<1>1. client[c].pc \notin Outside \cup Starting
    BY DEF Requests, Waits, Outside, Starting
<1>2. CASE client[c].pc \in {"verify", "verify_wait"}
    BY <1>1, <1>2, ReturnsHolds DEF NotRunning
<1>3. CASE client[c].pc \notin {"verify", "verify_wait"}
    <2>1. /\ client'[c].pc \in {"probe", "clean", "process"}
          /\ \A d \in Clients \ {c} : client'[d] = client[d]
        BY <1>3, ClientType DEF NotRunning, Types, CommandsTypeOK, ClientTypes
    <2> QED BY <1>1, <1>3, <2>1, StepHolds DEF NotRunning, Outside
<1> QED BY <1>2, <1>3

\* Clients give commands and lock, or are interrupted;
LEMMA CommandHolds ==
    ASSUME Types, Exclusive, NEW c \in Clients,
           (\E op \in Operations : Begin(c, op)) \/ Lock(c) \/ Interrupted(c)
    PROVE  Exclusive'
<1>1. ASSUME NEW op \in Operations, Begin(c, op)
      PROVE  Exclusive'
    <2>1. /\ client'[c].pc = "lock" /\ client[c].pc = "idle"
          /\ \A d \in Clients \ {c} : client'[d] = client[d]
        BY <1>1 DEF Begin, NoCommand, Types, CommandsTypeOK
    <2> QED BY <1>1, <2>1, StepHolds DEF Begin, others, Outside, Starting
<1>2. CASE Lock(c)
    <2>1. /\ client'[c].pc = FirstOf(client[c].op) /\ client[c].pc = "lock"
          /\ \A d \in Clients \ {c} : client'[d] = client[d]
        BY <1>2, ClientType DEF Lock, Types, CommandsTypeOK, ClientTypes
    <2>2. client'[c].pc \notin Outside
        BY <2>1 DEF FirstOf, Outside
    <2>3. launchLock = None /\ launchLock' = c /\ startup' = startup
        BY <1>2 DEF Lock
    <2>4. None \notin Clients
        BY ProcessesAssumption
    <2> QED BY <2>1, <2>2, <2>3, <2>4 DEF Exclusive, Outside, Starting
<1>3. CASE Interrupted(c)
    <2>1. /\ client'[c].pc = "idle" /\ startup'[c].child = None
          /\ \A d \in Clients \ {c} : client'[d] = client[d] /\ startup'[d] = startup[d]
          /\ launchLock' = IF launchLock = c THEN None ELSE launchLock
        BY <1>3 DEF Interrupted, NoCommand, NotListening, Types, ProcessesTypeOK, CommandsTypeOK
    <2>2. None \notin Clients
        BY ProcessesAssumption
    <2> QED BY <2>1, <2>2 DEF Exclusive, Outside
<1> QED BY <1>1, <1>2, <1>3

\* requests go out and are answered, or not;
LEMMA RequestHolds ==
    ASSUME Types, Exclusive, NEW c \in Clients,
           Send(c) \/ Unreachable(c) \/ Reset(c) \/ TimesOut(c) \/ BadAnswer(c) \/ Pong(c) \/ Stops(c)
    PROVE  Exclusive'
<1>0. client[c].pc \in Requests \cup Waits
    BY DEF Send, Unreachable, Reset, TimesOut, BadAnswer, Pong, Stops, Requests, Waits
<1>1. client[c].pc \notin Outside \cup Starting
    BY <1>0 DEF Requests, Waits, Outside, Starting
<1>2. CASE Unreachable(c) \/ Reset(c) \/ TimesOut(c)
    BY <1>0, <1>2, NotRunningHolds DEF Unreachable, Reset, TimesOut
<1>3. CASE \E o \in {"ok", "error"} : Returns(c, o)
    BY <1>1, <1>3, ReturnsHolds
<1>4. CASE Send(c)
    <2>1. /\ client'[c].pc = WaitOf(client[c].pc)
          /\ \A d \in Clients \ {c} : client'[d] = client[d]
        BY <1>4, ClientType DEF Send, Types, CommandsTypeOK, ClientTypes
    <2>2. client'[c].pc \notin Outside
        BY <2>1 DEF WaitOf, Outside
    <2> QED BY <1>1, <1>4, <2>1, <2>2, StepHolds DEF Send, others
<1>5. CASE /\ client' = [client EXCEPT ![c].pc = "old_read", ![c].to = None]
           /\ UNCHANGED others
    <2>1. /\ client'[c].pc = "old_read"
          /\ \A d \in Clients \ {c} : client'[d] = client[d]
        BY <1>5, ClientType DEF Types, CommandsTypeOK, ClientTypes
    <2> QED BY <1>1, <1>5, <2>1, StepHolds DEF others, Outside
<1>6. CASE Stops(c)
    <2>1. CASE Outcome(c, "ok") /\ launchLock' = None
        BY <1>1, <1>6, <2>1, OutcomeHolds DEF Stops
    <2>2. CASE /\ client' = [client EXCEPT ![c].pc = IF @ = "old_wait" THEN "old_exit" ELSE "stop_exit"]
               /\ UNCHANGED launchLock
        <3>1. /\ client'[c].pc \in {"old_exit", "stop_exit"}
              /\ \A d \in Clients \ {c} : client'[d] = client[d]
            BY <2>2, ClientType DEF Types, CommandsTypeOK, ClientTypes
        <3> QED BY <1>1, <1>6, <2>2, <3>1, StepHolds DEF Stops, Outside
    <2> QED BY <1>6, <2>1, <2>2 DEF Stops
<1> QED BY <1>2, <1>3, <1>4, <1>5, <1>6 DEF BadAnswer, Pong

\* clients wait, and look at the files;
LEMMA LooksHold ==
    ASSUME Types, Exclusive, NEW c \in Clients,
           \/ SeesExit(c) \/ GivesUp(c) \/ TermFailed(c)
           \/ Probe(c) \/ Unresponsive(c) \/ NoRecord(c) \/ ProbePid(c) \/ ReadOutdated(c)
           \/ ReadBeforeStop(c) \/ ReadProcess(c) \/ Occupied(c) \/ CannotLaunch(c)
           \/ ChildFailed(c) \/ NoReport(c)
    PROVE  Exclusive'
<1>1. CASE Cleans(c) /\ client[c].pc \notin Outside \cup Starting
    <2>1. /\ client'[c].pc = "clean"
          /\ \A d \in Clients \ {c} : client'[d] = client[d]
        BY <1>1, ClientType DEF Cleans, Types, CommandsTypeOK, ClientTypes
    <2> QED BY <1>1, <2>1, StepHolds DEF Cleans, others, Outside
<1>2. CASE (\E o \in {"ok", "error"} : Returns(c, o)) /\ client[c].pc \notin Outside
    BY <1>2, ReturnsHolds
<1>3. CASE /\ client[c].pc \in Exits
           /\ client' = [client EXCEPT ![c].pc = "kill"]
           /\ UNCHANGED others
    <2>1. /\ client'[c].pc = "kill" /\ client[c].pc \notin Outside \cup Starting
          /\ \A d \in Clients \ {c} : client'[d] = client[d]
        BY <1>3, ClientType DEF Types, CommandsTypeOK, ClientTypes, Exits, Outside, Starting
    <2> QED BY <1>3, <2>1, StepHolds DEF others, Outside
<1>4. CASE SeesExit(c) \/ GivesUp(c) \/ TermFailed(c)
    BY <1>1, <1>2, <1>3, <1>4 DEF SeesExit, GivesUp, TermFailed, Exits, Outside, Starting
<1>5. CASE Unresponsive(c) \/ Occupied(c) \/ CannotLaunch(c)
    BY <1>2, <1>5 DEF Unresponsive, Occupied, CannotLaunch, Outside
<1>6. CASE Probe(c) \/ NoRecord(c) \/ ProbePid(c) \/ ChildFailed(c) \/ NoReport(c)
    BY <1>6, GoesHolds DEF Probe, NoRecord, ProbePid, ChildFailed, NoReport, Outside, Starting
<1>7. CASE ReadOutdated(c)
    BY <1>2, <1>7, RemembersHolds DEF ReadOutdated, Outside, Starting
<1>8. CASE ReadBeforeStop(c) \/ ReadProcess(c)
    BY <1>8, RemembersHolds DEF ReadBeforeStop, ReadProcess, Outside, Starting
<1> QED BY <1>4, <1>5, <1>6, <1>7, <1>8

\* they signal processes;
LEMMA SignalsHold ==
    ASSUME Types, Exclusive, NEW c \in Clients,
           Validate(c) \/ SendTerm(c) \/ SendKill(c) \/ TerminateChild(c) \/ KillChild(c)
    PROVE  Exclusive'
<1>1. CASE Validate(c)
    <2>1. CASE \E o \in {"ok", "error"} : Returns(c, o)
        BY <1>1, <2>1, ReturnsHolds DEF Validate, Outside
    <2>2. CASE Goes(c, "term", "term_failed")
        BY <2>2, GoesHolds DEF Outside, Starting
    <2>3. ASSUME NEW to \in {"term_send", "kill_send"},
                 client' = [client EXCEPT ![c].target = ReadPid, ![c].pc = to], UNCHANGED others
          PROVE  Exclusive'
        <3>1. /\ client'[c].pc = to /\ client[c].pc \notin Outside \cup Starting
              /\ \A d \in Clients \ {c} : client'[d] = client[d]
            BY <1>1, <2>3, ClientType DEF Validate, Types, CommandsTypeOK, ClientTypes, Outside, Starting
        <3> QED BY <2>3, <3>1, StepHolds DEF others, Outside
    <2> QED BY <1>1, <2>1, <2>2, <2>3 DEF Validate
<1>2. CASE SendTerm(c)
    <2>1. /\ client'[c].pc \in {"term_failed", "term_exit"} /\ client[c].pc = "term_send"
          /\ \A d \in Clients \ {c} : client'[d] = client[d]
        BY <1>2, ClientType DEF SendTerm, Types, CommandsTypeOK, ClientTypes
    <2> QED BY <1>2, <2>1, StepHolds DEF SendTerm, Outside, Starting
<1>3. CASE SendKill(c)
    <2>1. CASE Returns(c, "error")
        BY <1>3, <2>1, ReturnsHolds DEF SendKill, Outside
    <2>2. CASE ~Returns(c, "error")
        <3>1. /\ client' = [client EXCEPT ![c].target = None, ![c].pc = "kill_exit"]
              /\ client[c].pc = "kill_send" /\ UNCHANGED <<launchLock, startup>>
            BY <1>3, <2>2 DEF SendKill
        <3>2. /\ client'[c].pc = "kill_exit"
              /\ \A d \in Clients \ {c} : client'[d] = client[d]
            BY <3>1, ClientType DEF Types, CommandsTypeOK, ClientTypes
        <3> QED BY <3>1, <3>2, StepHolds DEF Outside, Starting
    <2> QED BY <2>1, <2>2
<1>4. CASE TerminateChild(c) \/ KillChild(c)
    <2>1. /\ client'[c].pc = "reap" /\ client[c].pc \in {"terminate", "reap"}
          /\ \A d \in Clients \ {c} : client'[d] = client[d]
        BY <1>4, ClientType DEF TerminateChild, KillChild, Types, CommandsTypeOK, ClientTypes
    <2> QED BY <1>4, <2>1, StepHolds DEF TerminateChild, KillChild, Outside, Starting
<1> QED BY <1>1, <1>2, <1>3, <1>4

\* they clean up;
LEMMA CleaningHolds ==
    ASSUME Types, Exclusive, NEW c \in Clients,
           Clean(c) \/ CleanPid(c) \/ CleanEndpoint(c) \/ CleanDone(c)
    PROVE  Exclusive'
<1>1. client[c].pc \notin Outside \cup Starting
    BY DEF Clean, CleanPid, CleanEndpoint, CleanDone, Outside, Starting
<1>2. CASE Clean(c) \/ CleanPid(c) \/ CleanEndpoint(c)
    <2>1. /\ client'[c].pc \in {"clean_pid", "clean_endpoint", "clean_done"}
          /\ \A d \in Clients \ {c} : client'[d] = client[d]
        BY <1>2, ClientType DEF Clean, CleanPid, CleanEndpoint, Types, CommandsTypeOK, ClientTypes
    <2> QED BY <1>1, <1>2, <2>1, StepHolds DEF Clean, CleanPid, CleanEndpoint, Outside
<1>3. CASE CleanDone(c)
    <2>1. CASE client' = [client EXCEPT ![c].pc = "launch"] /\ UNCHANGED <<launchLock, startup>>
        <3>1. client'[c].pc = "launch" /\ \A d \in Clients \ {c} : client'[d] = client[d]
            BY <2>1, ClientType DEF Types, CommandsTypeOK, ClientTypes
        <3> QED BY <1>1, <2>1, <3>1, StepHolds DEF Outside
    <2>2. CASE Outcome(c, "ok") /\ launchLock' = None /\ UNCHANGED startup
        BY <1>1, <2>2, OutcomeHolds
    <2> QED BY <1>3, <2>1, <2>2 DEF CleanDone
<1> QED BY <1>2, <1>3

\* and they launch daemons.
LEMMA LaunchHolds ==
    ASSUME Types, Exclusive, NEW c \in Clients,
           (\E p \in Procs : Launch(c, p)) \/ ChildReady(c) \/ ReapChild(c)
    PROVE  Exclusive'
<1>1. CASE (\E p \in Procs : Launch(c, p)) \/ ChildReady(c)
    <2>1. /\ client'[c].pc \in {"startup", "verify"} /\ client[c].pc \in {"launch", "startup"}
          /\ client'[c].pc = "verify" => startup'[c].child = None
          /\ \A d \in Clients \ {c} : client'[d] = client[d] /\ startup'[d] = startup[d]
        BY <1>1, ClientType
        DEF Launch, ChildReady, NotListening, Types, ProcessesTypeOK, CommandsTypeOK, ClientTypes
    <2>2. launchLock' = launchLock
        BY <1>1 DEF Launch, ChildReady
    <2> QED BY <2>1, <2>2 DEF Exclusive, Outside, Starting
<1>2. CASE ReapChild(c)
    <2>1. /\ client[c].pc \notin Outside /\ client'[c].pc = "idle"
          /\ launchLock' = None /\ startup'[c].child = None
          /\ \A d \in Clients \ {c} : client'[d] = client[d] /\ startup'[d] = startup[d]
        BY <1>2 DEF ReapChild, Outcome, NoCommand, NotListening, Outside,
                    Types, ProcessesTypeOK, CommandsTypeOK
    <2> QED BY <2>1, EndHolds
<1> QED BY <1>1, <1>2
-----------------------------------------------------------------------------
\* Every step keeps the commands apart.
LEMMA NextHoldsExclusive ==
    ASSUME Types, Exclusive, [Next]_vars
    PROVE  Exclusive'
<1>1. CASE UNCHANGED vars
    BY <1>1 DEF vars, Exclusive
<1>2. ASSUME NEW c \in Clients,
             \/ ClientStep(c) \/ Patience(c) \/ Trouble(c) \/ Command(c) \/ Closed(c) \/ ClientFault(c)
      PROVE  Exclusive'
    <2>1. CASE ClientStep(c)
        BY <2>1, CommandHolds, RequestHolds, LooksHold, SignalsHold, CleaningHolds, LaunchHolds
        DEF ClientStep
    <2>2. CASE Patience(c) \/ Trouble(c)
        BY <2>2, RequestHolds, LooksHold, SignalsHold DEF Patience, Trouble
    <2>3. CASE Command(c) \/ Closed(c) \/ ClientFault(c)
        BY <2>3, LifecycleAssumption, CommandHolds DEF Command, Closed, ClientFault
    <2> QED BY <1>2, <2>1, <2>2, <2>3
<1>3. CASE Next
    BY <1>2, <1>3, DaemonHolds DEF Next
<1> QED BY <1>1, <1>3

\* The lock is with whom it is needed by, in every reachable state,
LEMMA AlwaysExclusive == Spec => [](Types /\ Ownership /\ Exclusive)
<1>1. Init => Exclusive
    BY ProcessesAssumption
    DEF Init, ProcessesInit, CommandsInit, Exclusive, Outside, NoCommand, NotListening
<1>2. Types /\ Ownership /\ Exclusive /\ [Next]_vars => Exclusive'
    BY NextHoldsExclusive
<1> QED BY <1>1, <1>2, AlwaysOwned, PTL DEF Spec

-----------------------------------------------------------------------------
\* A signal refuses no daemon its directory.
LEMMA SignalledStays ==
    ASSUME Types, NEW p \in Procs, proc[p].pc = "spawned",
           NEW q \in Procs, Dies(q) \/ Terminated(q)
    PROVE  proc'[p].pc # "leaving"
<1>1. proc \in [Procs -> ProcTypes] /\ proc[p] \in ProcTypes
    BY DEF Types, ProcessesTypeOK
<1>2. CASE Dies(q)
    BY <1>1, <1>2 DEF Dies, Ended, NoProc
<1>3. CASE proc' = [proc EXCEPT ![q].flag = "stop"]
    BY <1>1, <1>3 DEF ProcTypes
<1> QED BY <1>2, <1>3 DEF Terminated

\* A daemon is refused by nobody but itself, and because the directory is taken:
\* so it is for the steps of daemons,
LEMMA OnlyRefusal ==
    ASSUME Types, NEW p \in Procs, proc[p].pc = "spawned", proc'[p].pc = "leaving",
           NEW q \in Procs, DaemonStep(q) \/ ByHand(q) \/ ProcessFault(q)
    PROVE  owner # None
<1>1. proc \in [Procs -> ProcTypes] /\ proc[p] \in ProcTypes
    BY DEF Types, ProcessesTypeOK
<1>2. CASE Refused(q)
    BY <1>2 DEF Refused
<1>3. CASE Exit(q) \/ Killed(q)
    BY <1>3, SignalledStays DEF Exit, Killed
<1>4. CASE ByHand(q)
    BY <1>1, <1>4 DEF ByHand, StartForeground, NoProc
<1>5. CASE AcquireInstance(q) \/ RemoveStaleEndpoint(q) \/ StartCancelled(q) \/ StartsServing(q)
           \/ LeaveLoop(q) \/ Unpublish(q) \/ Unrecord(q) \/ ReleaseInstance(q) \/ Report(q)
    BY <1>1, <1>5 DEF AcquireInstance, RemoveStaleEndpoint, StartCancelled, StartsServing, LeaveLoop,
                      Unpublish, Unrecord, ReleaseInstance, Report, Moves, ProcTypes
<1>6. CASE \/ Listen(q) \/ WritePid(q) \/ WriteEndpoint(q) \/ LauncherIsGone(q) \/ LateStop(q)
           \/ CloseSocket(q) \/ SetupFails(q)
    <2>1. /\ proc[q].pc # "spawned"
          /\ \A r \in Procs \ {q} : proc'[r] = proc[r]
        BY <1>1, <1>6 DEF Listen, WritePid, WriteEndpoint, LauncherIsGone, LateStop, Answering,
                          CloseSocket, SetupFails
    <2> QED BY <2>1
<1> QED BY <1>2, <1>3, <1>4, <1>5, <1>6 DEF DaemonStep, ProcessFault

\* and the steps of clients refuse no daemon: they leave its phase,
LEMMA UndisturbedStays ==
    ASSUME NEW p \in Procs, proc[p].pc = "spawned", Undisturbed(p, proc'[p])
    PROVE  proc'[p].pc # "leaving"
BY DEF Undisturbed, Alive

\* or end.
LEMMA ReturnStays ==
    ASSUME Types, NEW p \in Procs, proc[p].pc = "spawned", NEW c \in Clients,
           \/ \E o \in {"ok", "error"} : Returns(c, o)
           \/ Interrupted(c)
           \/ NotRunning(c)
    PROVE  proc'[p].pc # "leaving"
<1>1. CASE \E o \in {"ok", "error"} : Returns(c, o)
    <2>1. PICK o \in {"ok", "error"} : Returns(c, o)
        BY <1>1
    <2> QED BY <2>1, AfterKeeps, UndisturbedStays DEF Returns
<1>2. CASE Interrupted(c)
    <2>1. Orphaned(c, proc) \in [Procs -> ProcTypes]
        BY OrphanedType DEF Types, ProcessesTypeOK
    <2> QED BY <1>2, <2>1, OrphanedKeeps, LateStopKeeps, UndisturbedStays DEF Interrupted
<1>3. CASE proc' = WithLateStop(c, proc)
    <2>1. proc \in [Procs -> ProcTypes] /\ Undisturbed(p, proc[p])
        BY DEF Types, ProcessesTypeOK, Undisturbed
    <2> QED BY <1>3, <2>1, LateStopKeeps, UndisturbedStays
<1> QED BY <1>1, <1>2, <1>3 DEF NotRunning

\* So every step of a client.
LEMMA ClientRefusesNobody ==
    ASSUME Types, NEW p \in Procs, proc[p].pc = "spawned", NEW c \in Clients,
           \/ ClientStep(c) \/ Patience(c) \/ Trouble(c) \/ Command(c) \/ Closed(c) \/ ClientFault(c)
    PROVE  proc'[p].pc # "leaving"
<1>1. CASE UNCHANGED proc
    BY <1>1
<1>2. CASE \/ \E o \in {"ok", "error"} : Returns(c, o)
           \/ Interrupted(c)
           \/ NotRunning(c)
    BY <1>2, ReturnStays
<1>3. CASE Stops(c)
    <2>1. client[c].to \in Procs
        BY <1>3 DEF Stops, Types, CommandsTypeOK, Waits
    <2>2. PICK procs \in [Procs -> ProcTypes] :
              Undisturbed(p, procs[p]) /\ proc' = [procs EXCEPT ![client[c].to].flag = "stop"]
        <3>1. proc \in [Procs -> ProcTypes] /\ Undisturbed(p, proc[p])
            BY DEF Types, ProcessesTypeOK, Undisturbed
        <3>2. AfterCommand(c, "ok") \in [Procs -> ProcTypes] /\ Undisturbed(p, AfterCommand(c, "ok")[p])
            BY AfterCommandType, AfterKeeps DEF Types
        <3> QED BY <1>3, <3>1, <3>2 DEF Stops
    <2> QED BY <2>1, <2>2, FlagsKeep, UndisturbedStays
<1>4. CASE SendTerm(c) \/ SendKill(c)
    <2>1. client[c].target \in Procs
        BY <1>4 DEF SendTerm, SendKill, Types, CommandsTypeOK
    <2> QED BY <1>1, <1>2, <1>4, <2>1, SignalledStays DEF SendTerm, SendKill
<1>5. CASE TerminateChild(c) \/ KillChild(c)
    <2>1. startup[c].child \in Procs
        BY <1>5 DEF TerminateChild, KillChild, Types, CommandsTypeOK
    <2> QED BY <1>5, <2>1, SignalledStays DEF TerminateChild, KillChild
<1>6. CASE CleanDone(c)
    <2>1. CASE proc' = AfterCommand(c, "ok")
        BY <2>1, AfterKeeps, UndisturbedStays
    <2> QED BY <1>1, <1>6, <2>1 DEF CleanDone
<1>7. CASE (\E q \in Procs : Launch(c, q)) \/ ReapChild(c)
    <2>1. ASSUME NEW q, NEW r, proc' = [proc EXCEPT ![q] = r], r.pc \in {"spawned", "dead"}
          PROVE  proc'[p].pc # "leaving"
        BY <2>1 DEF Types, ProcessesTypeOK
    <2>2. CASE ReapChild(c)
        <3>1. NoProc.pc = "dead"
            BY DEF NoProc
        <3> QED BY <2>1, <2>2, <3>1 DEF ReapChild
    <2>3. ASSUME NEW q \in Procs, Launch(c, q)
          PROVE  proc'[p].pc # "leaving"
        <3>1. PICK r : r = [NoProc EXCEPT !.pc = "spawned", !.launched = TRUE, !.parent = c]
            OBVIOUS
        <3>2. r.pc = "spawned"
            BY <3>1 DEF NoProc
        <3> QED BY <2>1, <2>3, <3>1, <3>2 DEF Launch
    <2> QED BY <1>7, <2>2, <2>3
<1>8. CASE \/ Send(c) \/ Unreachable(c) \/ Reset(c) \/ TimesOut(c) \/ BadAnswer(c) \/ Pong(c)
           \/ SeesExit(c) \/ GivesUp(c) \/ Lock(c) \/ \E op \in Ops : Begin(c, op)
    BY <1>1, <1>2, <1>8
    DEF Send, Unreachable, Reset, TimesOut, BadAnswer, Pong, SeesExit, GivesUp, Cleans, Lock, Begin, others
<1>9. CASE \/ Probe(c) \/ Unresponsive(c) \/ NoRecord(c) \/ ProbePid(c) \/ ReadOutdated(c)
           \/ ReadBeforeStop(c) \/ ReadProcess(c) \/ Validate(c) \/ TermFailed(c)
           \/ Clean(c) \/ Occupied(c) \/ CleanPid(c) \/ CleanEndpoint(c)
           \/ ChildReady(c) \/ ChildFailed(c) \/ NoReport(c) \/ CannotLaunch(c)
    BY <1>1, <1>2, <1>9
    DEF Probe, Unresponsive, NoRecord, ProbePid, ReadOutdated, ReadBeforeStop, ReadProcess, Validate,
        TermFailed, Clean, Occupied, CleanPid, CleanEndpoint, ChildReady, ChildFailed, NoReport,
        CannotLaunch, Cleans, Goes, Remembers, others
<1>10. CASE ClientStep(c)
    BY <1>3, <1>4, <1>5, <1>6, <1>7, <1>8, <1>9, <1>10 DEF ClientStep
<1>11. CASE Patience(c) \/ Trouble(c)
    BY <1>5, <1>8, <1>9, <1>11 DEF Patience, Trouble
<1>12. CASE Command(c) \/ Closed(c) \/ ClientFault(c)
    BY <1>2, <1>8, <1>12 DEF Command, Closed, ClientFault
<1> QED BY <1>10, <1>11, <1>12

\* so no launcher's daemon meets a client that cleans up.
THEOREM NoCleanerIsInTheWay == Spec => RefusedByDaemon
<1> DEFINE Meets == \A p \in Procs :
                       /\ proc[p].pc = "spawned" /\ proc'[p].pc = "leaving"
                       /\ \E c \in Clients : startup[c].child = p
                       => owner \in Procs
<1>1. Types /\ Ownership /\ Exclusive /\ [Next]_vars => [Meets]_vars
    <2> SUFFICES ASSUME Types, Ownership, Exclusive, [Next]_vars,
                        NEW p \in Procs, proc[p].pc = "spawned", proc'[p].pc = "leaving",
                        NEW c \in Clients, startup[c].child = p
                 PROVE  owner \in Procs
        OBVIOUS
    <2>1. client[c].pc \in Starting /\ launchLock = c
        BY ProcessesAssumption DEF Exclusive, Starting, Outside
    <2>2. owner \notin Clients
        BY <2>1 DEF Ownership, Exclusive, Starting, Outside, Cleaning
    <2>3. owner # None
        BY OnlyRefusal, ClientRefusesNobody DEF Next, vars
    <2> QED BY <2>2, <2>3 DEF Types, ProcessesTypeOK
<1> QED BY <1>1, AlwaysExclusive, PTL DEF Spec, RefusedByDaemon
-----------------------------------------------------------------------------
(***************************************************************************)
(* What a command finds, and achieves, when nothing disturbs it            *)
(***************************************************************************)

\* At most this process is alive.
Only(q) == \A p \in Procs : Alive(p) => p = q
Nobody  == \A p \in Procs : Exited(p)

\* The child is on its way to serve, alone, and reports when it does.
GoesWell(c) ==
    LET p == startup[c].child
    IN  /\ Only(p)
        /\ proc[p].launched /\ ~proc[p].failed /\ ~proc[p].old /\ ~proc[p].late
        /\ \/ proc[p].pc \in {"spawned", "setup", "bind"} /\ proc[p].flag = "unset"
           \/ proc[p].pc \in {"armed", "recorded", "published", "serving"} /\ proc[p].flag = "run"
        /\ startup[c].word = IF proc[p].pc = "serving" THEN "ready" ELSE "none"

EnsureOnly == {"ping", "ping_wait", "old_read", "old_stop", "old_wait", "probe", "probe_both", "probe_pid",
               "launch", "startup", "verify", "verify_wait"}
StopOnly   == {"stop_read", "stop", "stop_wait", "stop_exit"}
Quiet      == {"ping", "stop_read", "process", "old_read", "old_stop", "stop", "term", "term_send", "verify"}
                \cup Waits
Empty      == {"probe", "probe_both", "probe_pid", "term_failed", "clean", "clean_pid", "clean_endpoint",
               "clean_done", "launch"}
Ending     == {"stop_exit", "old_exit", "term_exit"}
Failing    == {"lock", "terminate", "reap", "kill", "kill_send", "kill_exit"}

\* What is alive at each place of a command.
FindsAt(c, r) ==
    /\ r.pc \in Quiet => Settled
    /\ r.pc \in Empty => Nobody
    /\ r.pc \in Waits => Answering(r.to)
    /\ r.pc \in {"stop_wait", "old_wait"} => r.pid = r.to
    /\ r.pc = "verify_wait" => ~proc[r.to].old
    /\ r.pc = "verify" => \E p \in Procs : Answering(p) /\ ~proc[p].old
    /\ r.pc = "old_read" => \E p \in Procs : Answering(p)
    /\ r.pc = "old_stop" => Answering(r.pid)
    /\ r.pc \in {"stop", "term", "term_send"} \cup Ending => Only(r.pid)
    /\ r.pc = "term_send" => Only(r.target)
    /\ r.pc = "startup" => GoesWell(c)
    /\ r.pc \notin Failing
    /\ r.pc \in EnsureOnly => r.op = "ensure"
    /\ r.pc \in StopOnly => r.op = "stop"

Finds(c) == FindsAt(c, client[c])

\* A command has no outcome before its end, and who is left alone finds that.
Calm ==
    /\ calm \subseteq Clients
    /\ \A c \in Clients : client[c].pc # "idle" => client[c].outcome = "none"
    /\ \A c \in calm : client[c].pc = "idle" \/ Finds(c)

\* What is achieved at the end.
Achieves(c) ==
    /\ client[c].op = "ensure" =>
          \/ /\ client'[c].outcome = "ok"
             /\ \E p \in Procs : Answering(p)' /\ ~proc'[p].old /\ endpoint' = p
          \/ \E p \in Procs : pidFile = p /\ proc[p].pc = "zombie"
    /\ client[c].op \in {"stop", "repair"} =>
          client'[c].outcome = "ok" /\ \A p \in Procs : Exited(p)'

GoesOn(c) == IF client'[c].pc = "idle" THEN Achieves(c) ELSE Finds(c)'

\* There is one daemon at most that answers, and both files name it.
LEMMA OneAnswers ==
    ASSUME Types, Ownership, NEW p \in Procs, Answering(p)
    PROVE  /\ endpoint = p /\ pidFile = p /\ owner = p /\ p # None /\ Alive(p)
           /\ Settled => Only(p)
<1>1. /\ endpoint = p /\ pidFile = p /\ owner = p /\ Alive(p)
    BY DEF Ownership, Sound, HoldsByPhase, StaysNamed, Answering, Held, Alive
<1>2. ASSUME Settled, NEW q \in Procs, Alive(q)
      PROVE  q = p
    <2>1. Answering(q)
        BY <1>2 DEF Settled
    <2>2. owner = q
        BY <2>1 DEF Ownership, Sound, HoldsByPhase, Answering, Held
    <2> QED BY <1>1, <2>2
<1> QED BY <1>1, <1>2, ProcessesAssumption DEF Only

\* Whoever listens is alive, so a quiet machine's endpoint answers or nobody is there.
LEMMA QuietEndpoint ==
    ASSUME Types, Ownership, Settled
    PROVE  /\ Reachable => endpoint \in Procs /\ Answering(endpoint) /\ Only(endpoint)
           /\ ~Reachable => Nobody
<1>1. ASSUME Reachable
      PROVE  endpoint \in Procs /\ Answering(endpoint) /\ Only(endpoint)
    <2>1. endpoint \in Procs /\ Alive(endpoint)
        BY <1>1 DEF Reachable, Listening, Alive, Types, ProcessesTypeOK
    <2>2. Answering(endpoint)
        BY <2>1 DEF Settled
    <2> QED BY <2>1, <2>2, OneAnswers
<1>2. ASSUME NEW p \in Procs, Alive(p)
      PROVE  Reachable
    <2>1. Answering(p)
        BY <1>2 DEF Settled
    <2>2. endpoint = p /\ p # None
        BY <2>1, OneAnswers
    <2> QED BY <2>1, <2>2 DEF Reachable, Listening, Answering
<1> QED BY <1>1, <1>2 DEF Nobody, Exited

\* A quiet daemon stays as it is,
LEMMA QuietRests ==
    ASSUME Types, Settled, NEW p \in Procs, DaemonStep(p)
    PROVE  FALSE
<1>1. Alive(p)
    BY DEF DaemonStep, AcquireInstance, Refused, RemoveStaleEndpoint, Listen, WritePid, WriteEndpoint,
           StartCancelled, StartsServing, LauncherIsGone, LateStop, LeaveLoop, CloseSocket, Unpublish,
           Unrecord, ReleaseInstance, Report, Exit, Moves, Alive, Answering
<1>2. proc[p].pc = "serving" /\ proc[p].flag = "run" /\ ~proc[p].late
    BY <1>1 DEF Settled, Answering
<1> QED BY <1>2
        DEF DaemonStep, AcquireInstance, Refused, RemoveStaleEndpoint, Listen, WritePid, WriteEndpoint,
            StartCancelled, StartsServing, LauncherIsGone, LateStop, LeaveLoop, CloseSocket, Unpublish,
            Unrecord, ReleaseInstance, Report, Exit, Moves

\* and none comes to life by itself.
LEMMA NobodyRises ==
    ASSUME Types, NEW p \in Procs, DaemonStep(p), NEW q \in Procs, Alive(q)'
    PROVE  Alive(q)
<1>1. proc \in [Procs -> ProcTypes]
    BY DEF Types, ProcessesTypeOK
<1>2. Alive(p)
    BY DEF DaemonStep, AcquireInstance, Refused, RemoveStaleEndpoint, Listen, WritePid, WriteEndpoint,
           StartCancelled, StartsServing, LauncherIsGone, LateStop, LeaveLoop, CloseSocket, Unpublish,
           Unrecord, ReleaseInstance, Report, Exit, Moves, Alive, Answering
<1>3. q # p => proc'[q] = proc[q]
    BY <1>1
    DEF DaemonStep, AcquireInstance, Refused, RemoveStaleEndpoint, Listen, WritePid, WriteEndpoint,
        StartCancelled, StartsServing, LauncherIsGone, LateStop, LeaveLoop, CloseSocket, Unpublish,
        Unrecord, ReleaseInstance, Report, Exit, Moves, Dies
<1> QED BY <1>2, <1>3 DEF Alive

\* A daemon's step is nothing to the clients' memory.
LEMMA DaemonLeaves ==
    ASSUME NEW p \in Procs, DaemonStep(p)
    PROVE  UNCHANGED <<client, launchLock, calm>>
BY DEF DaemonStep, AcquireInstance, Refused, RemoveStaleEndpoint, Listen, WritePid, WriteEndpoint,
       StartCancelled, StartsServing, LauncherIsGone, LateStop, LeaveLoop, CloseSocket, Unpublish,
       Unrecord, ReleaseInstance, Report, Exit, Ordinary

\* The child takes its next step towards its service.
LEMMA ChildGoesOn ==
    ASSUME Types, Ownership, Exclusive, NEW c \in Clients, client[c].pc = "startup",
           GoesWell(c), NEW p \in Procs, DaemonStep(p)
    PROVE  GoesWell(c)'
<1>1. startup[c].child = p
    <2>1. Alive(p)
        BY DEF DaemonStep, AcquireInstance, Refused, RemoveStaleEndpoint, Listen, WritePid, WriteEndpoint,
               StartCancelled, StartsServing, LauncherIsGone, LateStop, LeaveLoop, CloseSocket, Unpublish,
               Unrecord, ReleaseInstance, Report, Exit, Moves, Alive, Answering
    <2> QED BY <2>1 DEF GoesWell, Only
<1>2. ASSUME NEW d \in Clients, startup[d].child = p
      PROVE  d = c
    <2>1. launchLock = c /\ client[d].pc \notin Outside
        BY <1>2, ProcessesAssumption DEF Exclusive, Starting, Outside
    <2> QED BY <2>1 DEF Exclusive
<1>3. proc[p].pc = "spawned" => owner = None
    <2> SUFFICES ASSUME proc[p].pc = "spawned", owner # None
                 PROVE  FALSE
        OBVIOUS
    <2>1. CASE owner \in Clients
        <3>1. client[owner].pc \in Cleaning /\ launchLock = c
            BY <2>1 DEF Ownership, Exclusive, Outside
        <3>2. owner = c
            BY <2>1, <3>1 DEF Exclusive, Cleaning, Outside
        <3> QED BY <3>1, <3>2 DEF Cleaning
    <2>2. CASE owner \in Procs
        <3>1. proc[owner].pc \in Held
            BY <2>2 DEF Ownership, Sound, HoldsByPhase
        <3>2. owner = p
            BY <1>1, <2>2, <3>1 DEF GoesWell, Only, Alive, Held
        <3> QED BY <3>1, <3>2 DEF Held
    <2> QED BY <2>1, <2>2 DEF Types, ProcessesTypeOK
<1>4. proc \in [Procs -> ProcTypes] /\ startup[c] \in [child : Procs \cup {None}, word : {"none", "ready", "error"}]
    BY DEF Types, ProcessesTypeOK
<1>5. \A q \in Procs : Alive(q)' => Alive(q)
    BY NobodyRises
<1>6. \/ AcquireInstance(p) \/ RemoveStaleEndpoint(p) \/ Listen(p) \/ WritePid(p) \/ WriteEndpoint(p)
      \/ StartsServing(p)
    BY <1>1, <1>3
    DEF GoesWell, DaemonStep, Refused, StartCancelled, LauncherIsGone, LateStop,
        LeaveLoop, CloseSocket, Unpublish, Unrecord, ReleaseInstance, Report, Exit, Moves, Answering
<1>7. /\ startup'[c].child = p
      /\ startup'[c].word = IF proc'[p].pc = "serving" THEN "ready" ELSE "none"
    <2>1. CASE StartsServing(p)
        <3>1. PICK d \in Clients : startup[d].child = p /\ startup' = [startup EXCEPT ![d].word = "ready"]
            BY <1>1, <2>1 DEF StartsServing, GoesWell
        <3>2. d = c
            BY <1>2, <3>1
        <3>3. proc'[p].pc = "serving"
            BY <1>4, <2>1 DEF StartsServing, Moves, ProcTypes
        <3> QED BY <1>1, <3>1, <3>2, <3>3 DEF Types, ProcessesTypeOK
    <2>2. CASE ~StartsServing(p)
        <3>1. UNCHANGED startup /\ proc'[p].pc # "serving" /\ proc[p].pc # "serving"
            BY <1>4, <1>6, <2>2
            DEF AcquireInstance, RemoveStaleEndpoint, Listen, WritePid, WriteEndpoint, Moves, ProcTypes
        <3> QED BY <1>1, <3>1 DEF GoesWell
    <2> QED BY <2>1, <2>2
<1>8. /\ proc'[p].launched /\ ~proc'[p].failed /\ ~proc'[p].old /\ ~proc'[p].late
      /\ \/ proc'[p].pc \in {"spawned", "setup", "bind"} /\ proc'[p].flag = "unset"
         \/ proc'[p].pc \in {"armed", "recorded", "published", "serving"} /\ proc'[p].flag = "run"
    <2>1. /\ proc[p].launched /\ ~proc[p].failed /\ ~proc[p].old /\ ~proc[p].late
          /\ \/ proc[p].pc \in {"spawned", "setup", "bind"} /\ proc[p].flag = "unset"
             \/ proc[p].pc \in {"armed", "recorded", "published", "serving"} /\ proc[p].flag = "run"
        BY <1>1 DEF GoesWell
    <2> QED BY <1>4, <1>6, <2>1
            DEF AcquireInstance, RemoveStaleEndpoint, Listen, WritePid, WriteEndpoint, StartsServing,
                Moves, ProcTypes
<1>9. Only(p)'
    BY <1>1, <1>5 DEF GoesWell, Only
<1> QED BY <1>7, <1>8, <1>9 DEF GoesWell

\* What a client finds stays as long as only daemons take steps.
LEMMA DaemonFinds ==
    ASSUME Types, Ownership, Exclusive, NEW c \in Clients, Finds(c), NEW p \in Procs, DaemonStep(p)
    PROVE  Finds(c)'
<1>1. client' = client
    BY DaemonLeaves
<1>2. \A q \in Procs : Alive(q)' => Alive(q)
    BY NobodyRises
<1>3. ~Settled
    BY QuietRests
<1>4. ~Nobody
    BY <1>3 DEF Nobody, Exited, Settled
<1>5. client[c].pc \notin Quiet \cup Empty \cup Waits \cup Failing
    BY <1>3, <1>4 DEF Finds, FindsAt, Quiet
<1>6. CASE client[c].pc = "startup"
    <2>1. GoesWell(c)'
        BY <1>6, ChildGoesOn DEF Finds, FindsAt
    <2> QED BY <1>1, <1>6, <2>1 DEF Finds, FindsAt, Quiet, Empty, Waits, Ending, Failing, StopOnly
<1>7. CASE client[c].pc # "startup"
    <2>1. client[c].pc \in Ending => Only(client[c].pid)
        BY DEF Finds, FindsAt
    <2>2. client[c].pc \in Ending => Only(client[c].pid)'
        BY <1>1, <1>2, <2>1 DEF Only
    <2> QED BY <1>1, <1>5, <1>7, <2>2 DEF Finds, FindsAt, Quiet, Empty, Waits
<1> QED BY <1>6, <1>7

\* A client's step leaves the others' memory alone, and keeps the command until its end.
LEMMA ClientLeaves ==
    ASSUME Types, NEW c \in Clients, ClientStep(c) \/ Patience(c) \/ Trouble(c)
    PROVE  /\ \A d \in Clients \ {c} : client'[d] = client[d]
           /\ client[c].pc # "idle"
           /\ client'[c].pc # "idle" =>
                 client'[c].op = client[c].op /\ client'[c].outcome = client[c].outcome
           /\ Lock(c) \/ client[c].pc # "lock"
<1> DEFINE Keeps == /\ \A d \in Clients \ {c} : client'[d] = client[d]
                    /\ client'[c].pc # "idle" =>
                          client'[c].op = client[c].op /\ client'[c].outcome = client[c].outcome
<1>1. client[c] \in ClientTypes /\ client \in [Clients -> ClientTypes]
    BY DEF Types, CommandsTypeOK
<1>2. ASSUME NEW o, Outcome(c, o)
      PROVE  Keeps
    BY <1>1, <1>2 DEF Outcome, NoCommand
<1>3. ASSUME NEW from, NEW to, Goes(c, from, to)
      PROVE  Keeps
    BY <1>1, <1>3 DEF Goes, ClientTypes
<1>4. ASSUME NEW from, NEW to, NEW p, Remembers(c, from, to, p)
      PROVE  Keeps
    BY <1>1, <1>4 DEF Remembers, ClientTypes
<1>5. ASSUME Cleans(c)
      PROVE  Keeps
    BY <1>1, <1>5 DEF Cleans, ClientTypes
<1>6. ASSUME NotRunning(c)
      PROVE  Keeps
    BY <1>1, <1>2, <1>6 DEF NotRunning, Returns, ClientTypes
<1>7. ASSUME \/ Send(c) \/ Unreachable(c) \/ Reset(c) \/ TimesOut(c) \/ BadAnswer(c)
             \/ Pong(c) \/ Stops(c) \/ SeesExit(c) \/ GivesUp(c)
      PROVE  Keeps /\ client[c].pc \notin Outside
    <2>1. Keeps
        BY <1>1, <1>2, <1>5, <1>6, <1>7
        DEF Send, Unreachable, Reset, TimesOut, BadAnswer, Pong, Stops, SeesExit, GivesUp, Returns, ClientTypes
    <2>2. client[c].pc \notin Outside
        BY <1>7 DEF Send, Unreachable, Reset, TimesOut, BadAnswer, Pong, Stops, SeesExit, GivesUp,
                    Requests, Waits, Exits, Outside
    <2> QED BY <2>1, <2>2
<1>8. ASSUME \/ Probe(c) \/ Unresponsive(c) \/ NoRecord(c) \/ ProbePid(c) \/ ReadOutdated(c)
             \/ ReadBeforeStop(c) \/ ReadProcess(c) \/ TermFailed(c) \/ Occupied(c) \/ ChildFailed(c)
             \/ NoReport(c) \/ CannotLaunch(c)
      PROVE  Keeps /\ client[c].pc \notin Outside
    <2>1. Keeps
        BY <1>2, <1>3, <1>4, <1>5, <1>8
        DEF Probe, Unresponsive, NoRecord, ProbePid, ReadOutdated, ReadBeforeStop, ReadProcess, TermFailed,
            Occupied, ChildFailed, NoReport, CannotLaunch, Returns
    <2>2. client[c].pc \notin Outside
        BY <1>8 DEF Probe, Unresponsive, NoRecord, ProbePid, ReadOutdated, ReadBeforeStop, ReadProcess,
                    TermFailed, Occupied, ChildFailed, NoReport, CannotLaunch,
                    Goes, Remembers, Outside
    <2> QED BY <2>1, <2>2
<1>9. ASSUME Validate(c) \/ SendTerm(c) \/ SendKill(c) \/ TerminateChild(c) \/ ReapChild(c) \/ KillChild(c)
      PROVE  Keeps /\ client[c].pc \notin Outside
    <2>1. Keeps
        BY <1>1, <1>2, <1>3, <1>9 DEF Validate, SendTerm, SendKill, TerminateChild, ReapChild, KillChild, Returns,
                                    ClientTypes
    <2>2. client[c].pc \notin Outside
        BY <1>9 DEF Validate, SendTerm, SendKill, TerminateChild, ReapChild, KillChild, Outside
    <2> QED BY <2>1, <2>2
<1>10. ASSUME \/ Clean(c) \/ CleanPid(c) \/ CleanEndpoint(c) \/ CleanDone(c)
              \/ (\E p \in Procs : Launch(c, p)) \/ ChildReady(c)
      PROVE  Keeps /\ client[c].pc \notin Outside
    <2>1. Keeps
        BY <1>1, <1>2, <1>10 DEF Clean, CleanPid, CleanEndpoint, CleanDone, Launch, ChildReady, ClientTypes
    <2>2. client[c].pc \notin Outside
        BY <1>10 DEF Clean, CleanPid, CleanEndpoint, CleanDone, Launch, ChildReady, Outside
    <2> QED BY <2>1, <2>2
<1>11. CASE Lock(c)
    BY <1>1, <1>11 DEF Lock, ClientTypes
<1> QED BY <1>7, <1>8, <1>9, <1>10, <1>11 DEF ClientStep, Patience, Trouble, Outside

\* A daemon that is alive loses its parent at most when a client ends.
LEMMA LivingStay ==
    ASSUME Types, NEW c \in Clients, NEW p \in Procs, proc'[p] \in {proc[p], Orphaned(c, proc)[p]}
    PROVE  /\ proc'[p].launched = proc[p].launched \/ ~Alive(p)
           /\ proc'[p].failed = proc[p].failed \/ ~Alive(p)
           /\ proc'[p].old = proc[p].old \/ ~Alive(p)
           /\ proc'[p].late = proc[p].late \/ ~Alive(p)
           /\ proc'[p].flag = proc[p].flag \/ ~Alive(p)
           /\ proc'[p].pc = proc[p].pc \/ ~(Alive(p) \/ Alive(p)')
<1>1. proc[p] \in ProcTypes
    BY EntryType
<1>2. PICK r : r = Orphaned(c, proc)[p]
    OBVIOUS
<1>3. \/ r = proc[p]
      \/ proc[p].pc = "zombie" /\ r = NoProc
      \/ r = [proc[p] EXCEPT !.parent = None]
    BY <1>2 DEF Orphaned
<1>4. proc'[p] \in {proc[p], r}
    BY <1>2
<1>5. CASE r = proc[p]
    BY <1>4, <1>5
<1>6. CASE proc[p].pc = "zombie" /\ r = NoProc
    BY <1>4, <1>6 DEF Alive, NoProc
<1>7. CASE r = [proc[p] EXCEPT !.parent = None]
    BY <1>1, <1>4, <1>7 DEF ProcTypes
<1> QED BY <1>3, <1>5, <1>6, <1>7

\* An application that is closed changes nothing for a command that another one gave.
LEMMA ClosedFinds ==
    ASSUME Types, Exclusive, NEW c \in Clients, Finds(c), NEW d \in Clients \ {c}, Closed(d)
    PROVE  Finds(c)' /\ client'[c] = client[c]
<1>1. client'[c] = client[c] /\ startup'[c] = startup[c] /\ proc' = Orphaned(d, proc)
    BY DEF Closed, Interrupted, WithLateStop, Types, ProcessesTypeOK, CommandsTypeOK
<1>2. ASSUME NEW p \in Procs
      PROVE  /\ proc'[p].launched = proc[p].launched \/ ~Alive(p)
             /\ proc'[p].failed = proc[p].failed \/ ~Alive(p)
             /\ proc'[p].old = proc[p].old \/ ~Alive(p)
             /\ proc'[p].late = proc[p].late \/ ~Alive(p)
             /\ proc'[p].flag = proc[p].flag \/ ~Alive(p)
             /\ proc'[p].pc = proc[p].pc \/ ~(Alive(p) \/ Alive(p)')
    BY <1>1, LivingStay
<1>3. ASSUME NEW p \in Procs
      PROVE  /\ Alive(p)' <=> Alive(p)
             /\ Answering(p) => Answering(p)'
             /\ Answering(p) => proc'[p].late = proc[p].late /\ proc'[p].old = proc[p].old
    BY <1>2 DEF Alive, Answering
<1>4. Settled => Settled'
    BY <1>3 DEF Settled
<1>5. Nobody => Nobody'
    BY <1>3 DEF Nobody, Exited
<1>6. \A q : Only(q) => Only(q)'
    BY <1>3 DEF Only
<1>7. client[c].pc = "startup" /\ GoesWell(c) => GoesWell(c)'
    <2> SUFFICES ASSUME client[c].pc = "startup", GoesWell(c)
                 PROVE  GoesWell(c)'
        OBVIOUS
    <2> DEFINE p == startup[c].child
    <2>1. p \in Procs /\ startup'[c].child = p
        BY <1>1 DEF Types, CommandsTypeOK
    <2>2. Alive(p)
        BY DEF GoesWell, Alive
    <2>3. Only(p)'
        BY <1>1, <1>3 DEF GoesWell, Only
    <2>4. /\ proc'[p].pc = proc[p].pc /\ proc'[p].launched = proc[p].launched
          /\ proc'[p].failed = proc[p].failed /\ proc'[p].late = proc[p].late
          /\ proc'[p].old = proc[p].old /\ proc'[p].flag = proc[p].flag
        BY <1>2, <2>1, <2>2
    <2> QED BY <1>1, <2>3, <2>4 DEF GoesWell
<1>8. /\ client[c].pc \in Waits => client[c].to \in Procs
      /\ client[c].pc = "old_stop" => client[c].pid \in Procs
    BY DEF Types, CommandsTypeOK
<1>9. FindsAt(c, client[c])
    BY DEF Finds
<1>10. PICK r : r = client[c]
    OBVIOUS
<1>11. FindsAt(c, r)'
    <2>1. /\ r.pc \in Waits => Answering(r.to)'
          /\ r.pc = "verify_wait" => ~proc'[r.to].old
          /\ r.pc = "old_stop" => Answering(r.pid)'
          /\ r.pc \in {"verify", "old_read"} => \E p \in Procs : Answering(p)'
          /\ r.pc = "verify" => \E p \in Procs : Answering(p)' /\ ~proc'[p].old
        BY <1>3, <1>8, <1>9, <1>10 DEF FindsAt, Waits
    <2>2. /\ r.pc \in {"stop", "term", "term_send"} \cup Ending => Only(r.pid)'
          /\ r.pc = "term_send" => Only(r.target)'
        BY <1>6, <1>9, <1>10 DEF FindsAt
    <2> QED BY <1>4, <1>5, <1>7, <1>9, <1>10, <2>1, <2>2 DEF FindsAt
<1> QED BY <1>1, <1>10, <1>11 DEF Finds

\* When a command ends, whoever was alive is, and answers if it did.
LEMMA EndLeaves ==
    ASSUME Types, NEW c \in Clients, NEW o, proc' = AfterCommand(c, o), NEW p \in Procs
    PROVE  /\ Alive(p)' <=> Alive(p)
           /\ Answering(p) => Answering(p)' /\ proc'[p].old = proc[p].old
<1>1. proc'[p] \in {proc[p], Orphaned(c, proc)[p]}
    BY DEF AfterCommand
<1> QED BY <1>1, LivingStay DEF Alive, Answering

\* The next place of a command, reached without a change of the processes.
LEMMA StepFinds ==
    ASSUME Types, NEW c \in Clients, NEW r, client' = [client EXCEPT ![c] = r], UNCHANGED proc,
           r.pc \notin {"idle", "startup"}, FindsAt(c, r)
    PROVE  GoesOn(c)
<1>1. client'[c] = r
    BY DEF Types, CommandsTypeOK
<1>2. FindsAt(c, r)'
    BY DEF FindsAt, Settled, Nobody, Only, Exited, Alive, Answering
<1>3. Finds(c)'
    BY <1>1, <1>2 DEF Finds, FindsAt
<1> QED BY <1>1, <1>3 DEF GoesOn

\* Where the lifecycle lock is taken on a quiet machine, the command begins.
LEMMA LockFinds ==
    ASSUME Types, NEW c \in Clients, Lock(c), Settled
    PROVE  GoesOn(c)
<1> DEFINE r == [client[c] EXCEPT !.pc = FirstOf(client[c].op)]
<1>1. client' = [client EXCEPT ![c] = r] /\ UNCHANGED proc
    BY DEF Lock
<1>2. r.pc = FirstOf(client[c].op) /\ r.op = client[c].op
    BY ClientType DEF ClientTypes
<1>3. \/ r.pc = "ping" /\ r.op = "ensure"
      \/ r.pc = "stop_read" /\ r.op = "stop"
      \/ r.pc = "process"
    BY <1>2 DEF FirstOf
<1>4. FindsAt(c, r)
    BY <1>3 DEF FindsAt, Quiet, Empty, Waits, Ending, Failing, EnsureOnly, StopOnly
<1> HIDE DEF r
<1> QED BY <1>1, <1>3, <1>4, StepFinds

\* A request goes to the daemon that answers,
LEMMA SendFinds ==
    ASSUME Types, Ownership, NEW c \in Clients, Finds(c), Send(c)
    PROVE  GoesOn(c)
<1> DEFINE r == [client[c] EXCEPT !.pc = WaitOf(client[c].pc), !.to = endpoint]
<1>1. client' = [client EXCEPT ![c] = r] /\ UNCHANGED proc
    BY DEF Send, others
<1>2. r.pc = WaitOf(client[c].pc) /\ r.op = client[c].op /\ r.pid = client[c].pid /\ r.to = endpoint
    BY ClientType DEF ClientTypes
<1>3. Settled
    BY DEF Finds, FindsAt, Send, Requests, Quiet
<1>4. endpoint \in Procs /\ Answering(endpoint) /\ Only(endpoint) /\ Alive(endpoint)
    BY <1>3, QuietEndpoint DEF Send, Answering, Alive
<1>5. client[c].pc \in {"stop", "old_stop"} => client[c].pid = endpoint
    <2>1. client[c].pc = "stop" => Only(client[c].pid)
        BY DEF Finds, FindsAt
    <2>2. client[c].pc = "old_stop" => client[c].pid \in Procs /\ Answering(client[c].pid)
        BY DEF Finds, FindsAt, Types, CommandsTypeOK
    <2> QED BY <1>4, <2>1, <2>2, OneAnswers DEF Only
<1>6. client[c].pc = "verify" => ~proc[endpoint].old
    <2>1. client[c].pc = "verify" => \E p \in Procs : Answering(p) /\ ~proc[p].old
        BY DEF Finds, FindsAt
    <2> QED BY <2>1, OneAnswers
<1>7. client[c].op = IF client[c].pc = "stop" THEN "stop" ELSE "ensure"
    BY DEF Finds, FindsAt, Send, Requests, EnsureOnly, StopOnly
<1>8. \/ client[c].pc = "ping" /\ r.pc = "ping_wait"
      \/ client[c].pc = "verify" /\ r.pc = "verify_wait"
      \/ client[c].pc = "stop" /\ r.pc = "stop_wait"
      \/ client[c].pc = "old_stop" /\ r.pc = "old_wait"
    BY <1>2 DEF Send, Requests, WaitOf
<1> HIDE DEF r
<1>9. FindsAt(c, r)
    BY <1>2, <1>3, <1>4, <1>5, <1>6, <1>7, <1>8
    DEF FindsAt, Quiet, Empty, Waits, Ending, Failing, EnsureOnly, StopOnly
<1> QED BY <1>1, <1>8, <1>9, StepFinds

\* and finds none only where there is none.
LEMMA UnreachableFinds ==
    ASSUME Types, Ownership, NEW c \in Clients, Finds(c), Unreachable(c) \/ Reset(c)
    PROVE  GoesOn(c)
<1>1. ~Reset(c)
    BY DEF Reset, Finds, FindsAt, Listening, Answering
<1>2. Settled /\ ~Reachable /\ client[c].pc \in Requests
    BY <1>1 DEF Unreachable, Finds, FindsAt, Requests, Quiet
<1>3. Nobody
    BY <1>2, QuietEndpoint
<1>4. client[c].pc \notin {"verify", "old_stop"}
    <2>1. client[c].pc = "old_stop" => client[c].pid \in Procs /\ Answering(client[c].pid)
        BY DEF Finds, FindsAt, Types, CommandsTypeOK
    <2>2. client[c].pc = "verify" => \E p \in Procs : Answering(p)
        BY DEF Finds, FindsAt
    <2> QED BY <1>3, <2>1, <2>2 DEF Nobody, Exited, Alive, Answering
<1>5. client[c].op = IF client[c].pc = "stop" THEN "stop" ELSE "ensure"
    BY <1>2 DEF Finds, FindsAt, Requests, EnsureOnly, StopOnly
<1> DEFINE step == IF client[c].op = "ensure" THEN "probe"
                   ELSE IF client[c].pid = None THEN "clean" ELSE "process"
           r == [client[c] EXCEPT !.to = None, !.pid = None, !.pc = step]
<1>6. client' = [client EXCEPT ![c] = r] /\ UNCHANGED proc
    BY <1>1, <1>2, <1>4 DEF Unreachable, NotRunning, WithLateStop, Requests
<1>7. r.pc = step /\ r.op = client[c].op
    BY ClientType DEF ClientTypes
<1>8. Settled
    BY <1>2
<1> HIDE DEF r
<1>9. FindsAt(c, r)
    BY <1>3, <1>5, <1>7, <1>8 DEF FindsAt, Quiet, Empty, Waits, Ending, Failing, EnsureOnly, StopOnly
<1> QED BY <1>6, <1>7, <1>9, StepFinds

\* The daemon's answer ends a start, or has an older daemon replaced.
LEMMA PongFinds ==
    ASSUME Types, Ownership, NEW c \in Clients, Finds(c), Pong(c)
    PROVE  GoesOn(c)
<1>0. PICK p : p = client[c].to
    OBVIOUS
<1>1. p \in Procs /\ Answering(p) /\ client[c].op = "ensure" /\ Settled
    BY <1>0 DEF Pong, Finds, FindsAt, Types, CommandsTypeOK, EnsureOnly, Quiet, Waits
<1>2. CASE ~proc[p].old
    <2>1. /\ client'[c].pc = "idle" /\ client'[c].outcome = "ok"
          /\ proc' = AfterCommand(c, "ok") /\ endpoint' = endpoint
        BY <1>0, <1>2 DEF Pong, Returns, Outcome, NoCommand, files, Types, CommandsTypeOK
    <2>2. Answering(p)' /\ ~proc'[p].old
        BY <1>1, <1>2, <2>1, EndLeaves
    <2>3. endpoint' = p
        BY <1>1, <2>1, OneAnswers
    <2> QED BY <1>1, <2>1, <2>2, <2>3 DEF GoesOn, Achieves
<1>3. CASE proc[p].old
    <2> DEFINE r == [client[c] EXCEPT !.pc = "old_read", !.to = None]
    <2>1. client[c].pc = "ping_wait"
        BY <1>0, <1>3 DEF Pong, Finds, FindsAt
    <2>2. client' = [client EXCEPT ![c] = r] /\ UNCHANGED proc
        BY <1>0, <1>3, <2>1 DEF Pong, others
    <2>3. r.pc = "old_read" /\ r.op = "ensure"
        BY <1>1, ClientType DEF ClientTypes
    <2> HIDE DEF r
    <2>4. FindsAt(c, r)
        BY <1>1, <2>3 DEF FindsAt, Quiet, Empty, Waits, Ending, Failing, EnsureOnly, StopOnly
    <2> QED BY <2>2, <2>3, <2>4, StepFinds
<1> QED BY <1>2, <1>3

\* The daemon that is told to stop is the one whose end is then waited for,
LEMMA StopsFinds ==
    ASSUME Types, Ownership, NEW c \in Clients, Finds(c), Stops(c)
    PROVE  GoesOn(c)
<1>0. PICK p : p = client[c].to
    OBVIOUS
<1>1. /\ p \in Procs /\ p # None /\ client[c].pid = p /\ Only(p)
      /\ client[c].pc = "stop_wait" => client[c].op = "stop"
    <2>1. p \in Procs /\ Answering(p) /\ Settled /\ client[c].pid = p
        BY <1>0 DEF Stops, Finds, FindsAt, Types, CommandsTypeOK, Waits, Quiet
    <2>2. client[c].pc = "stop_wait" => client[c].op = "stop"
        BY DEF Finds, FindsAt, StopOnly
    <2> QED BY <2>1, <2>2, OneAnswers
<1>2. /\ client' = [client EXCEPT ![c].pc = IF @ = "old_wait" THEN "old_exit" ELSE "stop_exit"]
      /\ proc' = [proc EXCEPT ![p].flag = "stop"]
    BY <1>0, <1>1 DEF Stops
<1>3. \A q \in Procs : Alive(q)' <=> Alive(q)
    BY <1>1, <1>2 DEF Alive, Types, ProcessesTypeOK, ProcTypes
<1>4. /\ client'[c].pid = p /\ client'[c].op = client[c].op
      /\ \/ client'[c].pc = "old_exit"
         \/ client'[c].pc = "stop_exit" /\ client[c].op = "stop"
    BY <1>1, <1>2, ClientType DEF Stops, Types, CommandsTypeOK, ClientTypes
<1>5. Only(p)'
    BY <1>1, <1>3, <1>4 DEF Only
<1>6. PICK r : r = client'[c]
    OBVIOUS
<1>7. FindsAt(c, r)'
    BY <1>4, <1>5, <1>6 DEF FindsAt, Only, Quiet, Empty, Waits, Ending, Failing, EnsureOnly, StopOnly
<1> QED BY <1>4, <1>6, <1>7 DEF GoesOn, Finds

\* and with its end there is none.
LEMMA ExitFinds ==
    ASSUME Types, NEW c \in Clients, Finds(c), SeesExit(c) \/ TermFailed(c)
    PROVE  GoesOn(c)
<1>1. Nobody
    <2>1. CASE SeesExit(c)
        <3>1. client[c].pc \in Ending
            BY <2>1 DEF SeesExit, Finds, FindsAt, Exits, Ending, Failing
        <3> QED BY <2>1, <3>1 DEF SeesExit, Finds, FindsAt, Only, Nobody, Exited
    <2>2. CASE TermFailed(c)
        BY <2>2 DEF TermFailed, Finds, FindsAt, Empty
    <2> QED BY <2>1, <2>2
<1>2. CASE Cleans(c)
    <2> DEFINE r == [client[c] EXCEPT !.pc = "clean", !.to = None, !.pid = None]
    <2>1. client' = [client EXCEPT ![c] = r] /\ UNCHANGED proc
        BY <1>2 DEF Cleans, others
    <2>2. r.pc = "clean"
        BY ClientType DEF ClientTypes
    <2> HIDE DEF r
    <2>3. FindsAt(c, r)
        BY <1>1, <2>2 DEF FindsAt, Quiet, Empty, Waits, Ending, Failing, EnsureOnly, StopOnly
    <2> QED BY <2>1, <2>2, <2>3, StepFinds
<1>3. CASE client[c].pc = "stop_exit" /\ Returns(c, "ok")
    <2>1. /\ client'[c].pc = "idle" /\ client'[c].outcome = "ok"
          /\ proc' = AfterCommand(c, "ok") /\ client[c].op = "stop"
        BY <1>3 DEF Returns, Outcome, NoCommand, Types, CommandsTypeOK, Finds, FindsAt, StopOnly
    <2>2. \A p \in Procs : Exited(p)'
        BY <1>1, <2>1, EndLeaves DEF Nobody, Exited
    <2> QED BY <2>1, <2>2 DEF GoesOn, Achieves
<1>4. TermFailed(c) => Exited(client[c].pid)
    BY <1>1 DEF TermFailed, Nobody, Types, CommandsTypeOK, ProcessSteps
<1> QED BY <1>2, <1>3, <1>4 DEF SeesExit, TermFailed

\* What a start looks at when nobody answered: at worst a zombie is named.
LEMMA ProbeFinds ==
    ASSUME Types, NEW c \in Clients, Finds(c), Probe(c) \/ Unresponsive(c) \/ NoRecord(c) \/ ProbePid(c)
    PROVE  GoesOn(c)
<1>1. Nobody /\ client[c].op = "ensure"
    BY DEF Probe, Unresponsive, NoRecord, ProbePid, Goes, Finds, FindsAt, Empty, EnsureOnly
<1>2. ASSUME NEW from, NEW to \in {"probe_both", "probe_pid", "process", "clean"}, Goes(c, from, to)
      PROVE  GoesOn(c)
    <2> DEFINE r == [client[c] EXCEPT !.pc = to]
    <2>1. client' = [client EXCEPT ![c] = r] /\ UNCHANGED proc
        BY <1>2 DEF Goes, others
    <2>2. r.pc = to /\ r.op = "ensure"
        BY <1>1, ClientType DEF ClientTypes
    <2>3. Settled
        BY <1>1 DEF Nobody, Exited, Settled
    <2> HIDE DEF r
    <2>4. FindsAt(c, r)
        BY <1>1, <2>2, <2>3 DEF FindsAt, Quiet, Empty, Waits, Ending, Failing, EnsureOnly, StopOnly
    <2> QED BY <2>1, <2>2, <2>4, StepFinds
<1>3. CASE Unresponsive(c)
    <2>1. pidFile \in Procs /\ proc[pidFile].pc = "zombie"
        BY <1>1, <1>3 DEF Unresponsive, ReadPid, Nobody, Exited, Alive, Types, ProcessesTypeOK
    <2>2. client'[c].pc = "idle"
        BY <1>3 DEF Unresponsive, Returns, Outcome, NoCommand, Types, CommandsTypeOK
    <2> QED BY <1>1, <2>1, <2>2 DEF GoesOn, Achieves
<1> QED BY <1>2, <1>3 DEF Probe, NoRecord, ProbePid

\* Whatever is alive is what the PID file names, and so what is remembered.
LEMMA ReadFinds ==
    ASSUME Types, Ownership, NEW c \in Clients, Finds(c), ReadOutdated(c) \/ ReadBeforeStop(c) \/ ReadProcess(c)
    PROVE  GoesOn(c)
<1>1. Settled /\ client[c].pc \in {"old_read", "stop_read", "process"}
    BY DEF ReadOutdated, ReadBeforeStop, ReadProcess, Remembers, Finds, FindsAt, Quiet
<1>2. ASSUME NEW p \in Procs, Alive(p)
      PROVE  ReadPid = p
    <2>1. Answering(p) /\ pidFile = p /\ p # None
        BY <1>1, <1>2, OneAnswers DEF Settled
    <2> QED BY <2>1 DEF ReadPid, Answering
<1>3. Only(ReadPid)
    BY <1>2 DEF Only
<1>4. client[c].pc = "old_read" => client[c].op = "ensure" /\ Answering(ReadPid) /\ ReadPid # None
    <2>1. client[c].pc = "old_read" => client[c].op = "ensure" /\ \E p \in Procs : Answering(p)
        BY DEF Finds, FindsAt, EnsureOnly
    <2> QED BY <1>2, <2>1, ProcessesAssumption DEF Answering, Alive
<1>5. client[c].pc = "stop_read" => client[c].op = "stop"
    BY DEF Finds, FindsAt, StopOnly
<1>6. \/ Remembers(c, "old_read", "old_stop", ReadPid)
      \/ Remembers(c, "stop_read", "stop", ReadPid)
      \/ Remembers(c, "process", IF ReadPid = None THEN "clean" ELSE "term", ReadPid)
    BY <1>4 DEF ReadOutdated, ReadBeforeStop, ReadProcess
<1>7. PICK to : /\ Remembers(c, client[c].pc, to, ReadPid)
                /\ \/ client[c].pc = "old_read" /\ to = "old_stop"
                   \/ client[c].pc = "stop_read" /\ to = "stop"
                   \/ to = "clean" /\ ReadPid = None
                   \/ to = "term"
    BY <1>6 DEF Remembers
<1> DEFINE r == [client[c] EXCEPT !.pc = to, !.pid = ReadPid]
<1>8. client' = [client EXCEPT ![c] = r] /\ UNCHANGED proc
    BY <1>7 DEF Remembers, others
<1>9. r.pc = to /\ r.pid = ReadPid /\ r.op = client[c].op
    BY ClientType DEF ClientTypes
<1>10. ReadPid = None => Nobody
    BY <1>2, ProcessesAssumption DEF Nobody, Exited
<1> HIDE DEF r
<1>11. FindsAt(c, r)
    BY <1>1, <1>3, <1>4, <1>5, <1>7, <1>9, <1>10
    DEF FindsAt, Quiet, Empty, Waits, Ending, Failing, EnsureOnly, StopOnly
<1> QED BY <1>7, <1>8, <1>9, <1>11, StepFinds

\* Nobody has the directory when nobody is alive and no other client is at work.
LEMMA NobodyOwns ==
    ASSUME Types, Ownership, Exclusive, Nobody, NEW c \in Clients, client[c].pc \notin Outside \cup Cleaning
    PROVE  owner = None
<1>1. ASSUME owner \in Procs
      PROVE  FALSE
    BY <1>1 DEF Ownership, Sound, HoldsByPhase, Held, Nobody, Exited, Alive
<1>2. ASSUME owner \in Clients
      PROVE  FALSE
    <2>1. client[owner].pc \in Cleaning
        BY <1>2 DEF Ownership
    <2>2. launchLock = owner /\ launchLock = c
        BY <1>2, <2>1 DEF Exclusive, Cleaning, Outside
    <2> QED BY <2>1, <2>2
<1> QED BY <1>1, <1>2 DEF Types, ProcessesTypeOK

\* A record is validated: what is signalled is what is waited for, if it is alive,
LEMMA ValidateFinds ==
    ASSUME Types, Ownership, NEW c \in Clients, Finds(c), Validate(c)
    PROVE  GoesOn(c)
<1>1. client[c].pc = "term" /\ Settled /\ Only(client[c].pid)
    BY DEF Validate, Finds, FindsAt, Quiet, Failing
<1>2. ASSUME NEW p \in Procs, Alive(p)
      PROVE  ReadPid = p
    <2>1. Answering(p) /\ pidFile = p /\ p # None
        BY <1>1, <1>2, OneAnswers DEF Settled
    <2> QED BY <2>1 DEF ReadPid, Answering
<1>3. CASE ReadPid # None
    <2> DEFINE r == [client[c] EXCEPT !.target = ReadPid, !.pc = "term_send"]
    <2>1. client' = [client EXCEPT ![c] = r] /\ UNCHANGED proc
        BY <1>1, <1>3 DEF Validate, others
    <2>2. r.pc = "term_send" /\ r.pid = client[c].pid /\ r.target = ReadPid
        BY ClientType DEF ClientTypes
    <2> HIDE DEF r
    <2>3. Only(r.target)
        BY <1>2, <2>2 DEF Only
    <2>4. FindsAt(c, r)
        BY <1>1, <2>2, <2>3 DEF FindsAt, Quiet, Empty, Waits, Ending, Failing, EnsureOnly, StopOnly
    <2> QED BY <2>1, <2>2, <2>4, StepFinds
<1>4. CASE ReadPid = None
    <2> DEFINE r == [client[c] EXCEPT !.pc = "term_failed"]
    <2>1. client' = [client EXCEPT ![c] = r] /\ UNCHANGED proc
        BY <1>1, <1>4 DEF Validate, Goes, others
    <2>2. r.pc = "term_failed"
        BY ClientType DEF ClientTypes
    <2>3. Nobody
        BY <1>2, <1>4, ProcessesAssumption DEF Nobody, Exited
    <2> HIDE DEF r
    <2>4. FindsAt(c, r)
        BY <2>2, <2>3 DEF FindsAt, Quiet, Empty, Waits, Ending, Failing, EnsureOnly, StopOnly
    <2> QED BY <2>1, <2>2, <2>4, StepFinds
<1> QED BY <1>3, <1>4

\* and the signal reaches a daemon that handles it, a zombie, or nobody.
LEMMA TermFinds ==
    ASSUME Types, NEW c \in Clients, Finds(c), SendTerm(c)
    PROVE  GoesOn(c)
<1>0. PICK p : p = client[c].target
    OBVIOUS
<1>1. /\ p \in Procs /\ Settled /\ Only(p) /\ Only(client[c].pid)
      /\ client[c].pc = "term_send"
    BY <1>0 DEF SendTerm, Finds, FindsAt, Quiet, Types, CommandsTypeOK
<1>2. PICK r : r = client'[c]
    OBVIOUS
<1>3. r.pid = client[c].pid /\ r.pc = IF proc[p].pc = "dead" THEN "term_failed" ELSE "term_exit"
    BY <1>0, <1>2, ClientType DEF SendTerm, Types, CommandsTypeOK, ClientTypes
<1>4. \A q \in Procs : Alive(q)' <=> Alive(q)
    <2>1. CASE Alive(p)
        <3>1. proc[p].flag = "run"
            BY <1>1, <2>1 DEF Settled, Answering
        <3>2. proc' = [proc EXCEPT ![p].flag = "stop"]
            BY <1>0, <2>1, <3>1 DEF SendTerm, Terminated
        <3> QED BY <1>1, <3>2 DEF Alive, Types, ProcessesTypeOK, ProcTypes
    <2>2. CASE ~Alive(p)
        BY <1>0, <2>2 DEF SendTerm, Alive
    <2> QED BY <2>1, <2>2
<1>5. Only(r.pid)'
    BY <1>1, <1>3, <1>4 DEF Only
<1>6. r.pc = "term_failed" => Nobody'
    BY <1>1, <1>3, <1>4 DEF Only, Nobody, Exited, Alive
<1>7. FindsAt(c, r)'
    BY <1>3, <1>5, <1>6 DEF FindsAt, Quiet, Empty, Waits, Ending, Failing, EnsureOnly, StopOnly
<1> QED BY <1>2, <1>3, <1>7 DEF GoesOn, Finds

\* The files of nobody are removed, and a stop has come to its end.
LEMMA CleanFinds ==
    ASSUME Types, Ownership, Exclusive, NEW c \in Clients, Finds(c),
           Clean(c) \/ Occupied(c) \/ CleanPid(c) \/ CleanEndpoint(c) \/ CleanDone(c)
    PROVE  GoesOn(c)
<1>1. Nobody
    BY DEF Clean, Occupied, CleanPid, CleanEndpoint, CleanDone, Finds, FindsAt, Empty
<1>2. ~Occupied(c)
    BY <1>1, NobodyOwns DEF Occupied, Outside, Cleaning
<1>3. ASSUME NEW to \in {"clean_pid", "clean_endpoint", "clean_done", "launch"},
             to = "launch" => client[c].op = "ensure",
             client' = [client EXCEPT ![c].pc = to], UNCHANGED proc
      PROVE  GoesOn(c)
    <2> DEFINE r == [client[c] EXCEPT !.pc = to]
    <2>1. client' = [client EXCEPT ![c] = r]
        BY <1>3
    <2>2. r.pc = to /\ r.op = client[c].op
        BY ClientType DEF ClientTypes
    <2> HIDE DEF r
    <2>3. FindsAt(c, r)
        BY <1>1, <1>3, <2>2 DEF FindsAt, Quiet, Empty, Waits, Ending, Failing, EnsureOnly, StopOnly
    <2> QED BY <1>3, <2>1, <2>2, <2>3, StepFinds
<1>4. CASE CleanDone(c) /\ client[c].op # "ensure"
    <2>1. /\ client'[c].pc = "idle" /\ client'[c].outcome = "ok" /\ proc' = AfterCommand(c, "ok")
        BY <1>4 DEF CleanDone, Outcome, NoCommand, Types, CommandsTypeOK
    <2>2. \A p \in Procs : Exited(p)'
        BY <1>1, <2>1, EndLeaves DEF Nobody, Exited
    <2> QED BY <1>4, <2>1, <2>2 DEF GoesOn, Achieves
<1> QED BY <1>2, <1>3, <1>4 DEF Clean, CleanPid, CleanEndpoint, CleanDone

\* A daemon is launched where there is none, and serves when it says so.
LEMMA LaunchFinds ==
    ASSUME Types, NEW c \in Clients, Finds(c),
           (\E p \in Procs : Launch(c, p)) \/ ChildReady(c) \/ ChildFailed(c)
    PROVE  GoesOn(c)
<1>1. ASSUME NEW p \in Procs, Launch(c, p)
      PROVE  GoesOn(c)
    <2>1. Nobody /\ client[c].op = "ensure"
        BY <1>1 DEF Launch, Finds, FindsAt, Empty, EnsureOnly
    <2>2. PICK q : q = [NoProc EXCEPT !.pc = "spawned", !.launched = TRUE, !.parent = c]
        OBVIOUS
    <2>3. /\ q.pc = "spawned" /\ q.launched /\ ~q.failed /\ ~q.old /\ ~q.late /\ q.flag = "unset"
        BY <2>2 DEF NoProc
    <2>4. proc'[p] = q /\ \A s \in Procs \ {p} : proc'[s] = proc[s]
        BY <1>1, <2>2 DEF Launch, Types, ProcessesTypeOK
    <2>5. startup'[c].child = p /\ startup'[c].word = "none"
        BY <1>1 DEF Launch, Types, ProcessesTypeOK
    <2>6. Only(p)'
        BY <2>1, <2>4 DEF Only, Nobody, Exited, Alive
    <2>7. GoesWell(c)'
        BY <2>3, <2>4, <2>5, <2>6 DEF GoesWell, Only
    <2>8. client'[c].pc = "startup" /\ client'[c].op = "ensure"
        BY <1>1, <2>1, ClientType DEF Launch, Types, CommandsTypeOK, ClientTypes
    <2> QED BY <2>7, <2>8
            DEF GoesOn, Finds, FindsAt, Quiet, Empty, Waits, Ending, Failing, EnsureOnly, StopOnly
<1>2. CASE ChildReady(c)
    <2> DEFINE r == [client[c] EXCEPT !.pc = "verify"]
               p == startup[c].child
    <2>1. client' = [client EXCEPT ![c] = r] /\ UNCHANGED proc
        BY <1>2 DEF ChildReady
    <2>2. GoesWell(c) /\ client[c].op = "ensure" /\ p \in Procs
        BY <1>2 DEF ChildReady, Finds, FindsAt, EnsureOnly, Types, CommandsTypeOK
    <2>3. Answering(p) /\ ~proc[p].old /\ Only(p) /\ ~proc[p].late
        BY <1>2, <2>2 DEF ChildReady, GoesWell, Answering
    <2>4. Settled
        BY <2>3 DEF Settled, Only
    <2>5. r.pc = "verify" /\ r.op = "ensure"
        BY <2>2, ClientType DEF ClientTypes
    <2> HIDE DEF r
    <2>6. FindsAt(c, r)
        BY <2>2, <2>3, <2>4, <2>5 DEF FindsAt, Quiet, Empty, Waits, Ending, Failing, EnsureOnly, StopOnly
    <2> QED BY <2>1, <2>5, <2>6, StepFinds
<1>3. ~ChildFailed(c)
    BY DEF ChildFailed, Goes, Finds, FindsAt, GoesWell
<1> QED BY <1>1, <1>2, <1>3
-----------------------------------------------------------------------------
\* So a command that nothing disturbs goes on to what it promises.
LEMMA CommandGoesOn ==
    ASSUME Types, Ownership, Exclusive, NEW c \in Clients, ClientStep(c), ~Lock(c), Finds(c)
    PROVE  GoesOn(c)
<1>1. ~(SendKill(c) \/ TerminateChild(c) \/ ReapChild(c))
    BY DEF SendKill, TerminateChild, ReapChild, Finds, FindsAt, Failing
<1> QED BY <1>1, SendFinds, UnreachableFinds, PongFinds, StopsFinds, ExitFinds, ProbeFinds, ReadFinds,
           ValidateFinds, TermFinds, CleanFinds, LaunchFinds
        DEF ClientStep

\* A step of a command is one of the client that has the lifecycle lock.
LEMMA OneCommand ==
    ASSUME Types, Exclusive, NEW c \in Clients, client[c].pc \notin Outside, NEW d \in Clients, ClientStep(d)
    PROVE  d = c
<1>1. launchLock = c /\ c # None
    BY ProcessesAssumption DEF Exclusive
<1>2. ~Lock(d)
    BY <1>1 DEF Lock
<1>3. client[d].pc \notin Outside
    BY <1>2, ClientLeaves DEF Outside
<1> QED BY <1>1, <1>3 DEF Exclusive

\* Every step leaves who is undisturbed where it should be, or at its end.
LEMMA NextCalm ==
    ASSUME Types, Ownership, Exclusive, Calm, [Next]_vars
    PROVE  /\ Calm'
           /\ \A c \in calm' : client[c].pc # "idle" /\ client'[c].pc = "idle" => Achieves(c)
           /\ \A c \in Clients :
                 client'[c].outcome # client[c].outcome /\ client[c].pc # "idle" => client'[c].pc = "idle"
<1> DEFINE Goal == /\ Calm'
                   /\ \A c \in calm' : client[c].pc # "idle" /\ client'[c].pc = "idle" => Achieves(c)
                   /\ \A c \in Clients :
                         client'[c].outcome # client[c].outcome /\ client[c].pc # "idle" => client'[c].pc = "idle"
<1>0. client \in [Clients -> ClientTypes] /\ calm \subseteq Clients
    BY DEF Types, CommandsTypeOK, Calm
<1>1. ASSUME UNCHANGED vars
      PROVE  Goal
    <2>1. \A c \in Clients : Finds(c) => Finds(c)'
        BY <1>1 DEF vars, files, Finds, FindsAt, Settled, Nobody, Only, GoesWell, Exited, Alive, Answering
    <2> QED BY <1>0, <1>1, <2>1 DEF vars, Calm
<1>2. ASSUME NEW p \in Procs, DaemonStep(p)
      PROVE  Goal
    <2>1. UNCHANGED <<client, calm>>
        BY <1>2, DaemonLeaves
    <2>2. \A c \in Clients : Finds(c) => Finds(c)'
        BY <1>2, DaemonFinds
    <2> QED BY <1>0, <2>1, <2>2 DEF Calm
<1>3. ASSUME NEW p \in Procs, ByHand(p) \/ ProcessFault(p)
      PROVE  Goal
    <2>1. calm' = {} /\ UNCHANGED client
        BY <1>3 DEF ByHand, ProcessFault, Fault
    <2> QED BY <2>1 DEF Calm
<1>4. ASSUME NEW d \in Clients, ClientStep(d)
      PROVE  Goal
    <2>1. /\ \A c \in Clients \ {d} : client'[c] = client[c]
          /\ client[d].pc # "idle"
          /\ client'[d].pc # "idle" =>
                client'[d].op = client[d].op /\ client'[d].outcome = client[d].outcome
          /\ Lock(d) \/ (client[d].pc # "lock" /\ calm' = calm)
        BY <1>4, ClientLeaves DEF ClientStep, Ordinary
    <2>2. calm' \subseteq Clients /\ \A c \in calm' \ {d} : c \in calm
        BY <1>0, <1>4, <2>1 DEF ClientStep, Ordinary
    <2>3. ASSUME NEW c \in calm' \ {d}
          PROVE  client[c].pc = "idle" /\ client'[c].pc = "idle"
        <3>1. client[c].pc # "idle" => client[c].pc \notin Outside
            BY <2>2, <2>3 DEF Calm, Finds, FindsAt, Failing, Outside
        <3> QED BY <1>4, <2>1, <2>2, <3>1, OneCommand
    <2>4. ASSUME d \in calm'
          PROVE  GoesOn(d)
        <3>1. CASE Lock(d)
            <4>1. Settled
                BY <1>4, <2>1, <2>4, <3>1, <1>0 DEF ClientStep, Calm, Lock, Finds, FindsAt, Failing, Ordinary
            <4> QED BY <3>1, <4>1, LockFinds
        <3>2. CASE ~Lock(d)
            <4>1. d \in calm /\ Finds(d)
                BY <2>1, <2>4, <3>2 DEF Calm
            <4> QED BY <1>4, <3>2, <4>1, CommandGoesOn
        <3> QED BY <3>1, <3>2
    <2>5. \A c \in Clients : client'[c].pc # "idle" => client'[c].outcome = "none"
        BY <2>1 DEF Calm
    <2> QED BY <2>1, <2>2, <2>3, <2>4, <2>5 DEF Calm, GoesOn
<1>5. ASSUME NEW d \in Clients, Patience(d) \/ Trouble(d)
      PROVE  Goal
    <2>1. /\ \A c \in Clients \ {d} : client'[c] = client[c]
          /\ client[d].pc # "idle"
          /\ client'[d].pc # "idle" => client'[d].outcome = client[d].outcome
        BY <1>5, ClientLeaves
    <2>2. calm' = {}
        BY <1>5 DEF Patience, Trouble, Disturbing
    <2> QED BY <2>1, <2>2 DEF Calm
<1>6. ASSUME NEW d \in Clients, Command(d)
      PROVE  Goal
    <2>1. /\ client'[d].outcome = "none" /\ client[d].pc = "idle" /\ client'[d].pc = "lock"
          /\ \A c \in Clients \ {d} : client'[c] = client[c]
          /\ calm' = calm \ {d} /\ UNCHANGED <<proc, startup>>
        BY <1>0, <1>6 DEF Command, Begin, NoCommand, others
    <2>2. \A c \in calm' : Finds(c) => Finds(c)'
        BY <1>0, <2>1 DEF Finds, FindsAt, Settled, Nobody, Only, GoesWell, Exited, Alive, Answering
    <2> QED BY <1>0, <2>1, <2>2 DEF Calm
<1>7. ASSUME NEW d \in Clients, Closed(d) \/ ClientFault(d)
      PROVE  Goal
    <2>1. /\ client'[d].pc = "idle"
          /\ \A c \in Clients \ {d} : client'[c] = client[c]
        BY <1>0, <1>7 DEF Closed, ClientFault, Interrupted, NoCommand
    <2>2. CASE Closed(d)
        <3>1. \A c \in Clients \ {d} : Finds(c) => Finds(c)'
            BY <2>2, ClosedFinds
        <3>2. calm' = calm /\ client[d].pc = "idle"
            BY <2>2 DEF Closed, Ordinary
        <3> QED BY <1>0, <2>1, <3>1, <3>2 DEF Calm
    <2>3. CASE ClientFault(d)
        <3>1. calm' = {}
            BY <2>3 DEF ClientFault, Fault
        <3> QED BY <2>1, <3>1 DEF Calm
    <2> QED BY <1>7, <2>2, <2>3
<1> QED BY <1>1, <1>2, <1>3, <1>4, <1>5, <1>6, <1>7 DEF Next

\* So it is in every reachable state,
LEMMA AlwaysCalm == Spec => [](Types /\ Ownership /\ Exclusive /\ Calm)
<1>1. Init => Calm
    BY DEF Init, CommandsInit, Calm, NoCommand
<1>2. Types /\ Ownership /\ Exclusive /\ Calm /\ [Next]_vars => Calm'
    BY NextCalm
<1> QED BY <1>1, <1>2, AlwaysExclusive, PTL DEF Spec

\* and a command that ends has achieved what it promises.
LEMMA CommandAchieves ==
    ASSUME Types, Ownership, Exclusive, Calm, [Next]_vars, NEW c \in calm', NEW op, Completes(c, op)
    PROVE  Achieves(c) /\ client[c].op = op
<1>1. c \in Clients /\ client[c].pc # "idle" /\ client[c].outcome = "none"
    BY NextCalm DEF Calm, Completes
<1>2. client'[c].outcome # client[c].outcome
    BY <1>1 DEF Completes
<1> QED BY <1>1, <1>2, NextCalm DEF Completes

\* For all processes, clients and files left behind: a start that nothing
\* disturbs finds or starts a daemon of its version, or is stopped by a zombie
\* (launcher.py:41-77, lifecycle.py:104-115).
THEOREM StartsWork == Spec => EnsureWorks
<1>1. Types /\ Ownership /\ Exclusive /\ Calm /\ [Next]_vars =>
         [\A c \in calm' : Completes(c, "ensure") =>
            \/ /\ client'[c].outcome = "ok"
               /\ \E p \in Procs : Answering(p)' /\ ~proc'[p].old /\ endpoint' = p
            \/ \E p \in Procs : pidFile = p /\ proc[p].pc = "zombie"]_vars
    BY CommandAchieves DEF Achieves
<1> QED BY <1>1, AlwaysCalm, PTL DEF Spec, EnsureWorks

\* Under the same conditions a stop and a repair leave no daemon, whatever the
\* files named before (lifecycle.py:36-101, daemon_cmd.py:63-74 and 103-111).
THEOREM StopsWork == Spec => StopWorks
<1>1. Types /\ Ownership /\ Exclusive /\ Calm /\ [Next]_vars =>
         [\A c \in calm' : Completes(c, "stop") \/ Completes(c, "repair") =>
            /\ client'[c].outcome = "ok"
            /\ \A p \in Procs : Exited(p)']_vars
    BY CommandAchieves DEF Achieves
<1> QED BY <1>1, AlwaysCalm, PTL DEF Spec, StopWorks
=============================================================================
