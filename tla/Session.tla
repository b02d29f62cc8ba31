----------------------------- MODULE Session -----------------------------
(***************************************************************************)
(* Processes that share one chain file (main.go, AcquireFileLock, Release, *)
(* Save and Load of chain/chain.go, RunREPL and the commands of cli.go as  *)
(* far as the file is concerned): the lock file, the temporary file and    *)
(* the rename, what a failing step leaves behind, and what remains after a *)
(* process dies or the machine loses power.                                *)
(*                                                                         *)
(* A chain is the set of the updates that were applied to it and are in it,*)
(* and, as history, the set of those that were replaced when a fork was    *)
(* adopted.  An update is named by the process that made it and a number.  *)
(***************************************************************************)
EXTENDS Integers, FiniteSets

CONSTANTS
    OneShots,      \* processes given a command on the command line
    Repls,         \* interactive processes
    MaxCommands,   \* bound: state-changing commands per process
    Torn,          \* the content of a file that is not fully written
    Absent,        \* no such file, or no lock holder
    PowerMayFail   \* whether the machine may lose power

ASSUME CommandsAssumption == MaxCommands \in Nat
ASSUME PowerAssumption == PowerMayFail \in BOOLEAN
ASSUME ProcessAssumption == OneShots \cap Repls = {} /\ Absent \notin OneShots \cup Repls

Processes == OneShots \cup Repls
Updates   == Processes \X (1 .. MaxCommands)

Chains == [has : SUBSET Updates, gone : SUBSET Updates]

ASSUME ContentAssumption == Torn # Absent /\ \A chain \in Chains : chain \notin {Torn, Absent}

VARIABLES
    pc,       \* where each process is
    mem,      \* the chain each process holds
    after,    \* what a process does once its Save is over
    commands, \* how many updates each process has made
    lock,     \* who created the lock file that exists
    tmp,      \* the temporary file
    file,     \* the chain file, as processes see it
    disk      \* what the chain file's name surely leads to after a power loss

procVars == <<pc, mem, after, commands>>
vars == <<procVars, lock, tmp, file, disk>>

File(content, synced) == [content |-> content, synced |-> synced]
NoFile == File(Absent, TRUE)

Chain(has, gone) == [has |-> has, gone |-> gone]
NewChain == Chain({}, {})

Goto(p, label) == pc' = [pc EXCEPT ![p] = label]

(* fatal: os.Exit(1), which runs no deferred call. *)
Fatal(p) == Goto(p, "failed")

Ended == {"done", "failed", "killed", "interrupted"}
InSession == {"load", "create", "ready", "open", "write", "sync", "rename", "release"}

-----------------------------------------------------------------------------
(* The lock *)

(* Mutant: O_CREATE without O_EXCL.  No specification uses a mutant: each says  *)
(* what the definition after it might have got wrong (see README).              *)
AcquireLockShared(p) ==
    /\ pc[p] = "lock"
    /\ lock' = p
    /\ Goto(p, "load")
    /\ UNCHANGED <<mem, after, commands, tmp, file, disk>>

(* AcquireFileLock: O_CREATE with O_EXCL succeeds for one process only. *)
AcquireLock(p) ==
    /\ pc[p] = "lock"
    /\ lock = Absent
    /\ lock' = p
    /\ Goto(p, "load")
    /\ UNCHANGED <<mem, after, commands, tmp, file, disk>>

(* Mutant: the deadline is not looked at while the lock file is there. *)
LockTimeoutUnreached(p) ==
    /\ pc[p] = "lock"
    /\ lock = Absent
    /\ Fatal(p)
    /\ UNCHANGED <<mem, after, commands, lock, tmp, file, disk>>

(* The deadline has passed and the lock file is there: give up. *)
LockTimeout(p) ==
    /\ pc[p] = "lock"
    /\ lock # Absent
    /\ Fatal(p)
    /\ UNCHANGED <<mem, after, commands, lock, tmp, file, disk>>

(* The deferred Release of a main that returns. *)
ReleaseLock(p) ==
    /\ pc[p] = "release"
    /\ lock' = Absent
    /\ Goto(p, "done")
    /\ UNCHANGED <<mem, after, commands, tmp, file, disk>>

-----------------------------------------------------------------------------
(* Opening the chain *)

(* Flags that are refused once the lock is held (lines 136 to 150). *)
RefuseFlags(p) ==
    /\ pc[p] = "load"
    /\ Fatal(p)
    /\ UNCHANGED <<mem, after, commands, lock, tmp, file, disk>>

LoadChain(p) ==
    /\ pc[p] = "load"
    /\ file.content # Absent
    /\ IF file.content = Torn
       THEN Fatal(p) /\ UNCHANGED mem
       ELSE Goto(p, "ready") /\ mem' = [mem EXCEPT ![p] = file.content]
    /\ UNCHANGED <<after, commands, lock, tmp, file, disk>>

(* Mutant: any error of Load leads to a new chain. *)
LoadErrorIgnored(p) ==
    /\ pc[p] = "load"
    /\ Goto(p, "create")
    /\ UNCHANGED <<mem, after, commands, lock, tmp, file, disk>>

LoadMissing(p) ==
    /\ pc[p] = "load"
    /\ file.content = Absent
    /\ Goto(p, "create")
    /\ UNCHANGED <<mem, after, commands, lock, tmp, file, disk>>

(* Mining genesis, and the save of the new chain. *)
CreateChain(p) ==
    /\ pc[p] = "create"
    /\ mem' = [mem EXCEPT ![p] = NewChain]
    /\ after' = [after EXCEPT ![p] = "created"]
    /\ Goto(p, "open")
    /\ UNCHANGED <<commands, lock, tmp, file, disk>>

CreateFails(p) ==
    /\ pc[p] = "create"
    /\ Fatal(p)
    /\ UNCHANGED <<mem, after, commands, lock, tmp, file, disk>>

-----------------------------------------------------------------------------
(* Commands *)

(* Mutant: an update takes the number of the one before. *)
RunCommandStale(p) ==
    /\ pc[p] = "ready" /\ commands[p] < MaxCommands
    /\ commands' = [commands EXCEPT ![p] = @ + 1]
    /\ mem' = [mem EXCEPT ![p].has = @ \cup {<<p, commands[p]>>}]
    /\ after' = [after EXCEPT ![p] = "run"]
    /\ Goto(p, "open")
    /\ UNCHANGED <<lock, tmp, file, disk>>

(***************************************************************************)
(* A command that succeeds: it changes nothing, adds to the chain, or, as  *)
(* resolvefork does, replaces it by one that may lack any of what it had.  *)
(* resolvefork and save also save by themselves first.                     *)
(***************************************************************************)
RunCommand(p) ==
    /\ pc[p] = "ready"
    /\ \/ UNCHANGED <<mem, commands>>
       \/ /\ commands[p] < MaxCommands
          /\ commands' = [commands EXCEPT ![p] = @ + 1]
          /\ \E kept \in SUBSET mem[p].has :
                mem' = [mem EXCEPT ![p] = Chain(kept \cup {<<p, commands'[p]>>},
                                                mem[p].gone \cup (mem[p].has \ kept))]
    /\ \E next \in {"run", "again"} : after' = [after EXCEPT ![p] = next]
    /\ Goto(p, "open")
    /\ UNCHANGED <<lock, tmp, file, disk>>

(* A command that fails changes nothing; the prompt goes on without a save. *)
CommandFails(p) ==
    /\ pc[p] = "ready"
    /\ IF p \in OneShots THEN Fatal(p) ELSE UNCHANGED pc
    /\ UNCHANGED <<mem, after, commands, lock, tmp, file, disk>>

(* exit, quit or the end of the input. *)
LeavePrompt(p) ==
    /\ pc[p] = "ready" /\ p \in Repls
    /\ Goto(p, "release")
    /\ UNCHANGED <<mem, after, commands, lock, tmp, file, disk>>

-----------------------------------------------------------------------------
(* Save *)

OpenTemporary(p) ==
    /\ pc[p] = "open"
    /\ tmp' = File(Torn, FALSE)
    /\ Goto(p, "write")
    /\ UNCHANGED <<mem, after, commands, lock, file, disk>>

WriteTemporary(p) ==
    /\ pc[p] = "write"
    /\ tmp' = File(mem[p], FALSE)
    /\ Goto(p, "sync")
    /\ UNCHANGED <<mem, after, commands, lock, file, disk>>

(* Mutant: no file.Sync. *)
SyncTemporarySkipped(p) ==
    /\ pc[p] = "sync"
    /\ Goto(p, "rename")
    /\ UNCHANGED <<mem, after, commands, lock, tmp, file, disk>>

SyncTemporary(p) ==
    /\ pc[p] = "sync"
    /\ tmp' = File(tmp.content, TRUE)
    /\ Goto(p, "rename")
    /\ UNCHANGED <<mem, after, commands, lock, file, disk>>

(* What follows a Save: a one-shot process is over after its one command. *)
NextAfter(p) ==
    CASE after[p] = "again" -> "open"
      [] after[p] = "run" /\ p \in OneShots -> "release"
      [] OTHER -> "ready"

(* Rename replaces the file at once; the directory is not synced. *)
RenameTemporary(p) ==
    /\ pc[p] = "rename"
    /\ file' = tmp
    /\ tmp' = NoFile
    /\ Goto(p, NextAfter(p))
    /\ after' = [after EXCEPT ![p] = "run"]
    /\ UNCHANGED <<mem, commands, lock, disk>>

(* Mutant: a failing save is a warning, of a one-shot process too. *)
SaveFailsUnnoticed(p) ==
    /\ pc[p] \in {"open", "write", "sync", "rename"}
    /\ tmp' = IF pc[p] = "open" THEN tmp ELSE NoFile
    /\ Goto(p, NextAfter(p))
    /\ UNCHANGED <<mem, after, commands, lock, file, disk>>

(***************************************************************************)
(* A failing step of Save: the temporary file is removed, unless it could  *)
(* not even be opened.  At the prompt that is an error or a warning, and   *)
(* the chain in memory stays; for main, which saves a chain it created and *)
(* the chain of a one-shot command, it is fatal.                           *)
(***************************************************************************)
SaveFails(p) ==
    /\ pc[p] \in {"open", "write", "sync", "rename"}
    /\ tmp' = IF pc[p] = "open" THEN tmp ELSE NoFile
    /\ IF p \in OneShots \/ after[p] = "created"
       THEN Fatal(p)
       ELSE Goto(p, "ready")
    /\ UNCHANGED <<mem, after, commands, lock, file, disk>>

-----------------------------------------------------------------------------
(* Failures, and the operator *)

Alive(p) == pc[p] \notin Ended \cup {"idle"}

Dies(p, how) ==
    /\ Alive(p)
    /\ Goto(p, how)
    /\ UNCHANGED <<mem, after, commands, lock, tmp, file, disk>>

Kill(p) == Dies(p, "killed")

(* Ctrl+C: no handler is installed, so the default action ends the process. *)
Interrupt(p) == Dies(p, "interrupted")

(***************************************************************************)
(* Power loss: every process is gone.  A file that was not synced may be   *)
(* torn, and the rename may or may not have reached the disk.              *)
(***************************************************************************)
Survives(f) == IF f.synced THEN {f} ELSE {f, File(Torn, TRUE)}

PowerLoss ==
    /\ PowerMayFail
    /\ \E p \in Processes : Alive(p)
    /\ pc' = [p \in Processes |-> IF Alive(p) THEN "killed" ELSE pc[p]]
    /\ file' \in Survives(file) \cup {disk}
    /\ disk' = file'
    /\ tmp' \in Survives(tmp) \cup {NoFile}
    /\ UNCHANGED <<mem, after, commands, lock>>

(* The kernel writes the directory back. *)
WriteBack ==
    /\ disk # file
    /\ disk' = file
    /\ UNCHANGED <<procVars, lock, tmp, file>>

(* README: a stale lock file "needs manual deletion". *)
DeleteStaleLock ==
    /\ lock # Absent
    /\ ~Alive(lock)
    /\ lock' = Absent
    /\ UNCHANGED <<procVars, tmp, file, disk>>

Start(p) ==
    /\ pc[p] = "idle"
    /\ Goto(p, "lock")
    /\ UNCHANGED <<mem, after, commands, lock, tmp, file, disk>>

-----------------------------------------------------------------------------
Init ==
    /\ pc = [p \in Processes |-> "idle"]
    /\ mem = [p \in Processes |-> NewChain]
    /\ after = [p \in Processes |-> "run"]
    /\ commands = [p \in Processes |-> 0]
    /\ lock = Absent
    /\ tmp = NoFile
    /\ file = NoFile
    /\ disk = NoFile

(* What a process does while it is alive and well. *)
Step(p) ==
    \/ AcquireLock(p) \/ LockTimeout(p) \/ ReleaseLock(p)
    \/ RefuseFlags(p) \/ LoadChain(p) \/ LoadMissing(p)
    \/ CreateChain(p) \/ CreateFails(p)
    \/ RunCommand(p) \/ CommandFails(p) \/ LeavePrompt(p)
    \/ OpenTemporary(p) \/ WriteTemporary(p) \/ SyncTemporary(p)
    \/ RenameTemporary(p) \/ SaveFails(p)

Next ==
    \/ \E p \in Processes : Start(p) \/ Step(p) \/ Kill(p) \/ Interrupt(p)
    \/ PowerLoss
    \/ WriteBack
    \/ DeleteStaleLock

Spec == Init /\ [][Next]_vars

(* A one-shot process that can take a step takes one.  A prompt waits for its   *)
(* user, who may never come back, and users need not start processes.           *)
FairSpec == Spec /\ \A p \in OneShots : WF_vars(Step(p))

-----------------------------------------------------------------------------
(* Properties *)

Labels == Ended \cup InSession \cup {"idle", "lock"}
Contents == {Torn, Absent} \cup Chains

(* Every variable has its type. *)
TypeOK ==
    /\ pc \in [Processes -> Labels]
    /\ mem \in [Processes -> Chains]
    /\ after \in [Processes -> {"created", "run", "again"}]
    /\ commands \in [Processes -> 0 .. MaxCommands]
    /\ lock \in Processes \cup {Absent}
    /\ tmp \in [content : Contents, synced : BOOLEAN]
    /\ file \in [content : Contents, synced : BOOLEAN]
    /\ disk \in [content : Contents, synced : BOOLEAN]

(* The lock admits one process at a time to the chain file, although stale      *)
(* locks are deleted by hand and processes die anywhere.                        *)
MutualExclusion ==
    \A p, q \in Processes : pc[p] \in InSession /\ pc[q] \in InSession => p = q

(* README: "a crash mid-write can never leave a corrupt chain.json behind":     *)
(* whatever dies when, power included, the file is a chain some process saved.  *)
FileIntact == file.content # Torn /\ disk.content # Torn

Saved(f) == IF f.content = Absent THEN NewChain ELSE f.content

(* A chain that came from another: what is missing in it was replaced.          *)
ComesFrom(chain, old) ==
    /\ old.has \subseteq chain.has \cup chain.gone
    /\ old.gone \subseteq chain.gone

(* README: no process clobbers another's writes: as long as the power stays on, *)
(* an update that reached the file leaves it only when a process that had it    *)
(* before its eyes adopted a fork, never because a save took no notice of it.   *)
NoLostUpdate ==
    [][ComesFrom(Saved(file'), Saved(file)) \/ \A p \in Processes : ~Alive(p)']_vars

(* A one-shot process that ends well has its whole chain in the file.           *)
SuccessIsSaved ==
    \A p \in OneShots : pc[p] = "release" => mem[p] = file.content

(* A one-shot process ends, if only because the lock stays taken.               *)
OneShotEnds == \A p \in OneShots : (pc[p] = "lock") ~> (pc[p] \in Ended)

(* README: "Ctrl+C / exit / a normal crash-with-unwind all release it via       *)
(* defer": only a killed process leaves its lock file behind.                   *)
StaleLockOnlyAfterKill ==
    lock # Absent => Alive(lock) \/ pc[lock] = "killed"
==========================================================================
