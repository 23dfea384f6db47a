------------------------------ MODULE Process ------------------------------
(***************************************************************************)
(* task/process.c and task/task.c above the file layer: createProcess      *)
(* opens the program, makes a task of it and lists the process.  A handle  *)
(* that createProcess has opened is known to nobody else: callers work     *)
(* with the others.                                                        *)
(***************************************************************************)
EXTENDS Vfsl

CONSTANT MAX_PROCESSES  \* BOBAOS_MAX_PROCESSES

VARIABLES
    processList,    \* The ids of the processes that are listed.
    nextProcessId,
    abandoned       \* Handles opened by createProcess.

procVars == <<processList, nextProcessId, abandoned>>

ProcInit == Init /\ processList = << >> /\ nextProcessId = 0 /\ abandoned = {}

NULL == "null"

(* createNewTaskFrame fills a frame and then returns NULL, without memory  *)
(* it returns NULL as well.                                                *)
createNewTaskFrame == NULL

(* Mutant: the id is not given back.                                       *)
MutIdAfterError(id) == id

IdAfterError(id) == id - 1

(* createTaskFromBinFile has opened the file, and does not close it if     *)
(* there is no memory for the task, or no frame.                           *)
createProcess(p, h) ==
    /\ fopen(p, <<"r">>, h)
    /\ abandoned' = abandoned \cup {h}
    /\ IF createNewTaskFrame # NULL /\ Len(processList) < MAX_PROCESSES
       THEN /\ processList' = Append(processList, nextProcessId)
            /\ nextProcessId' = nextProcessId + 1
       ELSE /\ nextProcessId' = IdAfterError(nextProcessId + 1)
            /\ UNCHANGED processList

(* The file cannot be opened, or is open already.                          *)
createProcessRefused(p) ==
    /\ fopenRefused(p) \/ (Sane /\ checkIfFileIsOpenString(p) /\ UNCHANGED vars)
    /\ nextProcessId' = IdAfterError(nextProcessId + 1)
    /\ UNCHANGED <<processList, abandoned>>

ProcNext ==
    \/ Calls(Open \ abandoned) /\ UNCHANGED procVars
    \/ \E p \in Paths : createProcessRefused(p) \/ \E h \in Handles : createProcess(p, h)

ProcSpec == ProcInit /\ [][ProcNext]_<<vars, procVars>>
-----------------------------------------------------------------------------
(* However many calls of createProcess fail, at whatever step, ids are     *)
(* given out without a gap: a process has its place in the list as its id  *)
(* (process.c, createProcess).                                             *)
PidsDense ==
    /\ processList \in Seq(Nat)
    /\ nextProcessId = Len(processList)
    /\ \A i \in DOMAIN processList : processList[i] = i - 1

(* The handle createProcess opened stays open, for reading: nobody else    *)
(* has it (task.c, createTaskFromBinFile).                                 *)
ProgramsHeld == \A h \in abandoned : h \in Open /\ handle[h].mode = {"r"}

(* The list of processes and the files behind them, whatever call fails.   *)
ProcessInv == PidsDense /\ ProgramsHeld

(* A file a program was started from is never written: its handle is open  *)
(* for reading, and no other handle on it can be had until the table has   *)
(* been read through NULL (task.c, createTaskFromBinFile;                  *)
(* virtualFilesystemLayer.c, fopen).                                       *)
ProgramsNotWritten ==
    [][null = {} => \A h \in abandoned :
                       disk'[handle[h].path] = disk[handle[h].path]]_<<vars, procVars>>
=============================================================================
