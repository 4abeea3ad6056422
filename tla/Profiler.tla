------------------------------ MODULE Profiler ------------------------------
(***************************************************************************)
(* The CPU profiler of the admin API: Performance.StartCPUProfiler and     *)
(* StopCPUProfiler (src/api/admin/performance.go, lines 27-90).  The one    *)
(* field cpuProfileFile is read and written without a lock, so calls from  *)
(* concurrent API requests interleave at every access to it.  pprof keeps  *)
(* its own state behind its own lock: StartCPUProfile fails while a        *)
(* profile is running, StopCPUProfile stops whatever runs.                 *)
(*                                                                         *)
(* MemoryProfile and LockProfile dump to their own files and share only   *)
(* the process's file table with them.  Each caller runs one call at a    *)
(* time; its program counter names the next statement.  A file is a slot  *)
(* of a file table of MaxFiles entries, reused once nothing refers to it;  *)
(* os.Create fails when the table is full.                                 *)
(***************************************************************************)
EXTENDS Naturals

CONSTANTS
    CpuCallers,   \* goroutines calling StartCPUProfiler / StopCPUProfiler
    DumpCallers,  \* goroutines calling MemoryProfile / LockProfile
    MaxFiles,     \* size of the file table
    Nil           \* the nil *os.File

Callers == CpuCallers \cup DumpCallers

VARIABLES
    field,      \* p.cpuProfileFile
    running,    \* the file pprof writes the profile to, or Nil
    open,       \* files opened and not closed
    pc,         \* pc[c]: the next statement of caller c
    file        \* file[c]: the local variable `file` of caller c

vars == <<field, running, open, pc, file>>

Files == 1 .. MaxFiles

\* Files nothing refers to any more, which os.Create may hand out again.
Free == Files \ (open \cup {field, running} \cup {file[c] : c \in Callers})

\* os.Create(path) for caller c, going on to statement next: a free file,
\* or the error returned as is.
Create(c, next) ==
    \/ \E f \in Free :
          /\ open' = open \cup {f}
          /\ file' = [file EXCEPT ![c] = f]
          /\ pc' = [pc EXCEPT ![c] = next]
    \/ /\ pc' = [pc EXCEPT ![c] = "idle"]
       /\ UNCHANGED <<open, file>>

-----------------------------------------------------------------------------
\* An API request makes a call.
Call(c) ==
    /\ pc[c] = "idle"
    /\ \E f \in IF c \in CpuCallers THEN {"start", "stop"} ELSE {"mem", "lock"} :
          pc' = [pc EXCEPT ![c] = f]
    /\ file' = [file EXCEPT ![c] = Nil]
    /\ UNCHANGED <<field, running, open>>

\* if p.cpuProfileFile != nil { return errCPUProfilerRunning }
StartCheck(c) ==
    /\ pc[c] = "start"
    /\ pc' = [pc EXCEPT ![c] = IF field # Nil THEN "idle" ELSE "create"]
    /\ UNCHANGED <<field, running, open, file>>

\* file, err := os.Create(cpuProfileFile); an error is returned as is.
StartCreate(c) ==
    /\ pc[c] = "create"
    /\ Create(c, "pprofStart")
    /\ UNCHANGED <<field, running>>

\* pprof.StartCPUProfile(file): on error the file is closed and the error
\* returned.
StartProfile(c) ==
    /\ pc[c] = "pprofStart"
    /\ IF running = Nil
          THEN /\ running' = file[c]
               /\ pc' = [pc EXCEPT ![c] = "setField"]
               /\ UNCHANGED open
          ELSE /\ open' = open \ {file[c]}
               /\ pc' = [pc EXCEPT ![c] = "idle"]
               /\ UNCHANGED running
    /\ UNCHANGED <<field, file>>

\* runtime.SetMutexProfileFraction(1); p.cpuProfileFile = file
StartSetField(c) ==
    /\ pc[c] = "setField"
    /\ field' = file[c]
    /\ pc' = [pc EXCEPT ![c] = "idle"]
    /\ UNCHANGED <<running, open, file>>

\* if p.cpuProfileFile == nil { return errCPUProfilerNotRunning }
StopCheck(c) ==
    /\ pc[c] = "stop"
    /\ pc' = [pc EXCEPT ![c] = IF field = Nil THEN "idle" ELSE "pprofStop"]
    /\ UNCHANGED <<field, running, open, file>>

\* pprof.StopCPUProfile()
StopProfile(c) ==
    /\ pc[c] = "pprofStop"
    /\ running' = Nil
    /\ pc' = [pc EXCEPT ![c] = "close"]
    /\ UNCHANGED <<field, open, file>>

\* err := p.cpuProfileFile.Close(): the field is read again; Close of a nil
\* *os.File returns ErrInvalid.
StopClose(c) ==
    /\ pc[c] = "close"
    /\ open' = open \ {field}
    /\ pc' = [pc EXCEPT ![c] = "clearField"]
    /\ UNCHANGED <<field, running, file>>

\* Bug variant of StopClear: the field is left set.
StopClearKeep(c) ==
    /\ pc[c] = "clearField"
    /\ pc' = [pc EXCEPT ![c] = "idle"]
    /\ UNCHANGED <<field, running, open, file>>

\* p.cpuProfileFile = nil
StopClear(c) ==
    /\ pc[c] = "clearField"
    /\ field' = Nil
    /\ pc' = [pc EXCEPT ![c] = "idle"]
    /\ UNCHANGED <<running, open, file>>

\* MemoryProfile and LockProfile: os.Create(memProfileFile) or
\* os.Create(lockProfileFile); an error is returned as is.
MemoryCreate(c) ==
    /\ pc[c] = "mem"
    /\ Create(c, "write")
    /\ UNCHANGED <<field, running>>

LockCreate(c) ==
    /\ pc[c] = "lock"
    /\ Create(c, "write")
    /\ UNCHANGED <<field, running>>

\* pprof.WriteHeapProfile(file) or pprof.Lookup("mutex").WriteTo(file, 1):
\* on error the file is closed and the error returned.
WriteProfile(c) ==
    /\ pc[c] = "write"
    /\ \/ pc' = [pc EXCEPT ![c] = "closeDump"] /\ UNCHANGED open
       \/ pc' = [pc EXCEPT ![c] = "idle"] /\ open' = open \ {file[c]}
    /\ UNCHANGED <<field, running, file>>

\* return file.Close()
CloseProfile(c) ==
    /\ pc[c] = "closeDump"
    /\ open' = open \ {file[c]}
    /\ pc' = [pc EXCEPT ![c] = "idle"]
    /\ UNCHANGED <<field, running, file>>

-----------------------------------------------------------------------------
Init ==
    /\ field = Nil
    /\ running = Nil
    /\ open = {}
    /\ pc = [c \in Callers |-> "idle"]
    /\ file = [c \in Callers |-> Nil]

Next ==
    \E c \in Callers :
        \/ Call(c)
        \/ StartCheck(c) \/ StartCreate(c) \/ StartProfile(c) \/ StartSetField(c)
        \/ StopCheck(c) \/ StopProfile(c) \/ StopClose(c) \/ StopClear(c)
        \/ MemoryCreate(c) \/ LockCreate(c) \/ WriteProfile(c) \/ CloseProfile(c)

Spec == Init /\ [][Next]_vars

-----------------------------------------------------------------------------
\* Between calls, cpuProfileFile is the file pprof is writing, nil exactly
\* when no profile runs, and no other file is left open by a profiler
\* call, CPU, memory or lock: StartCPUProfiler and StopCPUProfiler can
\* always be called again with effect, and no file descriptor leaks.
ProfilerStateAgrees ==
    (\A c \in Callers : pc[c] = "idle") =>
        /\ field = running
        /\ open = IF running = Nil THEN {} ELSE {running}

=============================================================================
