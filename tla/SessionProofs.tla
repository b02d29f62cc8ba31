-------------------------- MODULE SessionProofs --------------------------
(***************************************************************************)
(* Proofs about Session, for any number of processes and commands: the     *)
(* types, mutual exclusion, the integrity of the chain file, and that no   *)
(* update is lost.                                                         *)
(***************************************************************************)
EXTENDS Session, TLAPS

(* The process that is past AcquireFileLock is the one that made the lock file. *)
HoldsLock == \A p \in Processes : pc[p] \in InSession => lock = p

(* What the steps of Save have put into the temporary file so far.              *)
TemporaryMatches ==
    \A p \in Processes :
        /\ pc[p] = "sync" => tmp.content = mem[p]
        /\ pc[p] = "rename" => tmp = File(mem[p], TRUE)

(* The chain file, and what a power loss leaves of it, is whole and synced.     *)
FilesWhole ==
    /\ file.content # Torn /\ file.synced
    /\ disk.content # Torn /\ disk.synced

(* A process that has opened the chain has everything the file has, or has      *)
(* replaced it.                                                                 *)
Opened == {"ready", "open", "write", "sync", "rename", "release"}

MemoryCoversFile ==
    \A p \in Processes :
        /\ pc[p] = "create" => file.content = Absent
        /\ pc[p] \in Opened => ComesFrom(mem[p], Saved(file))

IInv ==
    /\ TypeOK
    /\ HoldsLock
    /\ TemporaryMatches
    /\ FilesWhole
    /\ MemoryCoversFile
    /\ SuccessIsSaved

-----------------------------------------------------------------------------
(* Chains                                                                       *)

LEMMA ChainTyped ==
    ASSUME NEW has \in SUBSET Updates, NEW gone \in SUBSET Updates
    PROVE  Chain(has, gone) \in Chains /\ Chain(has, gone).has = has /\ Chain(has, gone).gone = gone
BY DEF Chain, Chains

LEMMA NewChainTyped == NewChain \in Chains
BY ChainTyped DEF NewChain

(* What a command makes of a chain comes from it.                               *)
LEMMA CommandComesFrom ==
    ASSUME NEW chain \in Chains, NEW kept \in SUBSET chain.has, NEW update \in Updates,
           NEW result, result = Chain(kept \cup {update}, chain.gone \cup (chain.has \ kept))
    PROVE  result \in Chains /\ ComesFrom(result, chain)
<1> DEFINE has == kept \cup {update}
           gone == chain.gone \cup (chain.has \ kept)
<1>1. /\ has \in SUBSET Updates /\ gone \in SUBSET Updates
      /\ chain.has \subseteq has \cup gone /\ chain.gone \subseteq gone
  BY DEF Chains
<1> HIDE DEF has, gone
<1>2. result \in Chains /\ result.has = has /\ result.gone = gone
  BY <1>1, ChainTyped DEF has, gone
<1> QED
  BY <1>1, <1>2 DEF ComesFrom

LEMMA ComesFromSteps ==
    ASSUME NEW chain, NEW old, NEW new, ComesFrom(chain, old), ComesFrom(new, chain)
    PROVE  ComesFrom(new, old)
BY DEF ComesFrom

LEMMA ComesFromItself == ASSUME NEW chain PROVE ComesFrom(chain, chain)
BY DEF ComesFrom

LEMMA NothingComesFromNew == ASSUME NEW chain PROVE ComesFrom(chain, NewChain)
BY DEF ComesFrom, NewChain, Chain

(* The chain of a process after a command.                                      *)
LEMMA CommandMemory ==
    ASSUME TypeOK, NEW p \in Processes, RunCommand(p)
    PROVE  /\ commands' \in [Processes -> 0 .. MaxCommands] /\ mem' \in [Processes -> Chains]
           /\ ComesFrom(mem'[p], mem[p])
<1>1. mem \in [Processes -> Chains] /\ commands \in [Processes -> 0 .. MaxCommands]
  BY DEF TypeOK
<1>2. CASE UNCHANGED <<mem, commands>>
  BY <1>1, <1>2, ComesFromItself
<1>3. ASSUME commands[p] < MaxCommands, commands' = [commands EXCEPT ![p] = @ + 1],
             NEW kept \in SUBSET mem[p].has,
             mem' = [mem EXCEPT ![p] = Chain(kept \cup {<<p, commands'[p]>>},
                                             mem[p].gone \cup (mem[p].has \ kept))]
      PROVE  /\ commands' \in [Processes -> 0 .. MaxCommands] /\ mem' \in [Processes -> Chains]
             /\ ComesFrom(mem'[p], mem[p])
  <2> DEFINE update == <<p, commands'[p]>>
             result == Chain(kept \cup {update}, mem[p].gone \cup (mem[p].has \ kept))
  <2>1. commands' \in [Processes -> 0 .. MaxCommands] /\ commands'[p] \in 1 .. MaxCommands
    BY <1>1, <1>3, CommandsAssumption
  <2>2. update \in Updates
    BY <2>1 DEF Updates
  <2>3. mem[p] \in Chains
    BY <1>1
  <2> HIDE DEF update
  <2>4. result \in Chains /\ ComesFrom(result, mem[p])
    BY <2>2, <2>3, CommandComesFrom
  <2>5. mem' = [mem EXCEPT ![p] = result]
    BY <1>3 DEF update
  <2> HIDE DEF result
  <2>6. mem' \in [Processes -> Chains] /\ mem'[p] = result
    BY <1>1, <2>4, <2>5
  <2> QED
    BY <2>1, <2>4, <2>6
<1> QED
  BY <1>2, <1>3 DEF RunCommand

-----------------------------------------------------------------------------
(* The initial state satisfies the inductive invariant: nothing exists yet.     *)
LEMMA InitIInv == Init => IInv
<1> SUFFICES ASSUME Init PROVE IInv
  OBVIOUS
<1>1. TypeOK
  BY CommandsAssumption, NewChainTyped
  DEF Init, TypeOK, NoFile, File, Contents, Labels, Ended
<1>2. HoldsLock /\ TemporaryMatches /\ MemoryCoversFile /\ SuccessIsSaved
  BY ProcessAssumption
  DEF Init, HoldsLock, TemporaryMatches, MemoryCoversFile, SuccessIsSaved,
      InSession, Opened, Processes
<1>3. FilesWhole
  BY ContentAssumption DEF Init, FilesWhole, NoFile, File
<1> QED
  BY <1>1, <1>2, <1>3 DEF IInv

(* Every action keeps the types: a chain is a set of updates, a file holds one. *)
LEMMA NextTypeOK == TypeOK /\ [Next]_vars => TypeOK'
<1> SUFFICES ASSUME TypeOK, [Next]_vars PROVE TypeOK'
  OBVIOUS
<1> USE CommandsAssumption DEF TypeOK
<1>0. NoFile \in [content : Contents, synced : BOOLEAN]
  BY DEF NoFile, File, Contents
<1>1. ASSUME NEW p \in Processes, Start(p) PROVE TypeOK'
  BY <1>1 DEF Start, Goto, Labels, InSession
<1>2. ASSUME NEW p \in Processes, Step(p) PROVE TypeOK'
  <2>1. CASE AcquireLock(p) \/ LockTimeout(p) \/ ReleaseLock(p)
    BY <2>1 DEF AcquireLock, LockTimeout, ReleaseLock, Fatal, Goto, Labels, InSession, Ended
  <2>2. CASE RefuseFlags(p) \/ LoadMissing(p) \/ CreateFails(p)
    BY <2>2 DEF RefuseFlags, LoadMissing, CreateFails, Fatal, Goto, Labels, InSession, Ended
  <2>3. CASE LoadChain(p)
    <3>1. file.content \in Chains \cup {Torn}
      BY <2>3 DEF LoadChain, Contents
    <3> QED
      BY <2>3, <3>1 DEF LoadChain, Fatal, Goto, Labels, InSession, Ended
  <2>4. CASE CreateChain(p)
    BY <2>4, NewChainTyped DEF CreateChain, Goto, Labels, InSession
  <2>5. CASE RunCommand(p)
    <3>1. commands' \in [Processes -> 0 .. MaxCommands] /\ mem' \in [Processes -> Chains]
      BY <1>2, <2>5, CommandMemory
    <3> QED
      BY <2>5, <3>1 DEF RunCommand, Goto, Labels, InSession
  <2>6. CASE CommandFails(p) \/ LeavePrompt(p)
    BY <2>6 DEF CommandFails, LeavePrompt, Fatal, Goto, Labels, InSession, Ended
  <2>7. CASE OpenTemporary(p) \/ WriteTemporary(p) \/ SyncTemporary(p)
    <3>1. pc' \in [Processes -> Labels]
      BY <2>7 DEF OpenTemporary, WriteTemporary, SyncTemporary, Goto, Labels, InSession
    <3>2. PICK c \in {Torn, mem[p], tmp.content}, s \in BOOLEAN : tmp' = File(c, s)
      BY <2>7 DEF OpenTemporary, WriteTemporary, SyncTemporary
    <3>3. c \in Contents
      BY <3>2 DEF Contents
    <3>4. tmp' \in [content : Contents, synced : BOOLEAN]
      BY <3>2, <3>3 DEF File
    <3> QED
      BY <2>7, <3>1, <3>4 DEF OpenTemporary, WriteTemporary, SyncTemporary
  <2>8. CASE RenameTemporary(p)
    <3>1. pc' \in [Processes -> Labels]
      BY <2>8 DEF RenameTemporary, NextAfter, Goto, Labels, InSession
    <3> QED
      BY <1>0, <2>8, <3>1 DEF RenameTemporary
  <2>9. CASE SaveFails(p)
    <3>1. tmp' = tmp \/ tmp' = NoFile
      BY <2>9 DEF SaveFails
    <3>2. tmp' \in [content : Contents, synced : BOOLEAN]
      BY <1>0, <3>1
    <3> QED
      BY <2>9, <3>2 DEF SaveFails, Fatal, Goto, Labels, InSession, Ended
  <2> QED
    BY <1>2, <2>1, <2>2, <2>3, <2>4, <2>5, <2>6, <2>7, <2>8, <2>9 DEF Step
<1>3. ASSUME NEW p \in Processes, Kill(p) \/ Interrupt(p) PROVE TypeOK'
  BY <1>3 DEF Kill, Interrupt, Dies, Goto, Labels, Ended
<1>4. CASE PowerLoss
  <2>1. pc' \in [Processes -> Labels]
    BY <1>4 DEF PowerLoss, Labels, Ended
  <2>2. \A f \in [content : Contents, synced : BOOLEAN] :
           Survives(f) \subseteq [content : Contents, synced : BOOLEAN]
    <3>1. File(Torn, TRUE) \in [content : Contents, synced : BOOLEAN]
      BY DEF File, Contents
    <3> QED
      BY <3>1 DEF Survives
  <2> QED
    BY <1>0, <1>4, <2>1, <2>2 DEF PowerLoss
<1>5. CASE WriteBack
  BY <1>5 DEF WriteBack, procVars
<1>6. CASE DeleteStaleLock
  BY <1>6 DEF DeleteStaleLock, procVars
<1>7. CASE UNCHANGED vars
  BY <1>7 DEF vars, procVars
<1> QED
  BY <1>1, <1>2, <1>3, <1>4, <1>5, <1>6, <1>7 DEF Next

(* The lock is taken only when it is free and freed only by its holder, or by   *)
(* hand when the holder is dead.                                                *)
LEMMA NextHoldsLock == TypeOK /\ HoldsLock /\ [Next]_vars => HoldsLock'
<1> SUFFICES ASSUME TypeOK, HoldsLock, [Next]_vars PROVE HoldsLock'
  OBVIOUS
<1> USE ProcessAssumption DEF TypeOK, HoldsLock, InSession
<1>1. ASSUME NEW p \in Processes, Start(p) PROVE HoldsLock'
  BY <1>1 DEF Start, Goto
<1>2. ASSUME NEW p \in Processes, Step(p) PROVE HoldsLock'
  <2>1. CASE AcquireLock(p)
    BY <2>1 DEF AcquireLock, Goto, Processes
  <2>2. CASE LockTimeout(p)
    BY <2>2 DEF LockTimeout, Fatal, Goto
  <2>3. CASE ReleaseLock(p)
    BY <2>3 DEF ReleaseLock, Goto, Processes
  <2>4. CASE RefuseFlags(p) \/ LoadMissing(p) \/ CreateFails(p) \/ LoadChain(p) \/ CreateChain(p)
    BY <2>4 DEF RefuseFlags, LoadMissing, CreateFails, LoadChain, CreateChain, Fatal, Goto
  <2>5. CASE RunCommand(p) \/ CommandFails(p) \/ LeavePrompt(p)
    BY <2>5 DEF RunCommand, CommandFails, LeavePrompt, Fatal, Goto
  <2>6. CASE OpenTemporary(p) \/ WriteTemporary(p) \/ SyncTemporary(p)
    BY <2>6 DEF OpenTemporary, WriteTemporary, SyncTemporary, Goto
  <2>7. CASE RenameTemporary(p) \/ SaveFails(p)
    BY <2>7 DEF RenameTemporary, SaveFails, NextAfter, Fatal, Goto
  <2> QED
    BY <1>2, <2>1, <2>2, <2>3, <2>4, <2>5, <2>6, <2>7 DEF Step
<1>3. ASSUME NEW p \in Processes, Kill(p) \/ Interrupt(p) PROVE HoldsLock'
  BY <1>3 DEF Kill, Interrupt, Dies, Goto
<1>4. CASE PowerLoss
  BY <1>4 DEF PowerLoss, Alive, Ended
<1>5. CASE WriteBack
  BY <1>5 DEF WriteBack, procVars
<1>6. CASE DeleteStaleLock
  BY <1>6 DEF DeleteStaleLock, procVars, Alive, Ended
<1>7. CASE UNCHANGED vars
  BY <1>7 DEF vars, procVars
<1> QED
  BY <1>1, <1>2, <1>3, <1>4, <1>5, <1>6, <1>7 DEF Next

(* Only the holder of the lock writes the temporary file, so it has what the    *)
(* holder put there.                                                            *)
LEMMA NextTemporary == IInv /\ [Next]_vars => TemporaryMatches'
<1> SUFFICES ASSUME IInv, [Next]_vars PROVE TemporaryMatches'
  OBVIOUS
<1> USE DEF IInv, TypeOK, HoldsLock, TemporaryMatches, InSession
<1>1. ASSUME NEW p \in Processes, Start(p) PROVE TemporaryMatches'
  BY <1>1 DEF Start, Goto
<1>2. ASSUME NEW p \in Processes, Step(p) PROVE TemporaryMatches'
  <2>1. CASE AcquireLock(p) \/ LockTimeout(p) \/ ReleaseLock(p)
    BY <2>1 DEF AcquireLock, LockTimeout, ReleaseLock, Fatal, Goto
  <2>2. CASE RefuseFlags(p) \/ LoadMissing(p) \/ CreateFails(p) \/ LoadChain(p) \/ CreateChain(p)
    BY <2>2 DEF RefuseFlags, LoadMissing, CreateFails, LoadChain, CreateChain, Fatal, Goto
  <2>3. CASE RunCommand(p) \/ CommandFails(p) \/ LeavePrompt(p)
    BY <2>3 DEF RunCommand, CommandFails, LeavePrompt, Fatal, Goto
  <2>4. CASE OpenTemporary(p)
    BY <2>4 DEF OpenTemporary, Goto
  <2>5. CASE WriteTemporary(p)
    BY <2>5 DEF WriteTemporary, File, Goto
  <2>6. CASE SyncTemporary(p)
    BY <2>6 DEF SyncTemporary, File, Goto
  <2>7. CASE RenameTemporary(p)
    BY <2>7 DEF RenameTemporary, NextAfter, Goto
  <2>8. CASE SaveFails(p)
    BY <2>8 DEF SaveFails, Fatal, Goto
  <2> QED
    BY <1>2, <2>1, <2>2, <2>3, <2>4, <2>5, <2>6, <2>7, <2>8 DEF Step
<1>3. ASSUME NEW p \in Processes, Kill(p) \/ Interrupt(p) PROVE TemporaryMatches'
  BY <1>3 DEF Kill, Interrupt, Dies, Goto
<1>4. CASE PowerLoss
  BY <1>4 DEF PowerLoss, Alive, Ended
<1>5. CASE WriteBack \/ DeleteStaleLock
  BY <1>5 DEF WriteBack, DeleteStaleLock, procVars
<1>6. CASE UNCHANGED vars
  BY <1>6 DEF vars, procVars
<1> QED
  BY <1>1, <1>2, <1>3, <1>4, <1>5, <1>6 DEF Next

(* The chain file is only replaced by a temporary file that was written and     *)
(* synced, so that not even a power loss can tear it.                           *)
LEMMA NextFilesWhole == IInv /\ [Next]_vars => FilesWhole'
<1> SUFFICES ASSUME IInv, [Next]_vars PROVE FilesWhole'
  OBVIOUS
<1> USE DEF IInv, TypeOK, TemporaryMatches, FilesWhole
<1>1. ASSUME NEW p \in Processes, Start(p) \/ Kill(p) \/ Interrupt(p) PROVE FilesWhole'
  BY <1>1 DEF Start, Kill, Interrupt, Dies
<1>2. ASSUME NEW p \in Processes, Step(p) PROVE FilesWhole'
  <2>1. CASE RenameTemporary(p)
    <3>1. file' = File(mem[p], TRUE)
      BY <2>1 DEF RenameTemporary
    <3>2. mem[p] \in Chains
      OBVIOUS
    <3> QED
      BY <2>1, <3>1, <3>2, ContentAssumption DEF RenameTemporary, File
  <2>2. CASE ~RenameTemporary(p)
    BY <1>2, <2>2 DEF Step, AcquireLock, LockTimeout, ReleaseLock, RefuseFlags, LoadChain,
       LoadMissing, CreateChain, CreateFails, RunCommand, CommandFails, LeavePrompt,
       OpenTemporary, WriteTemporary, SyncTemporary, SaveFails
  <2> QED
    BY <2>1, <2>2
<1>3. CASE PowerLoss
  <2>1. file' \in {file, disk} /\ disk' = file'
    BY <1>3 DEF PowerLoss, Survives
  <2> QED
    BY <2>1
<1>4. CASE WriteBack \/ DeleteStaleLock
  BY <1>4 DEF WriteBack, DeleteStaleLock
<1>5. CASE UNCHANGED vars
  BY <1>5 DEF vars
<1> QED
  BY <1>1, <1>2, <1>3, <1>4, <1>5 DEF Next

(* A process that has loaded or created the chain keeps up with the file: only  *)
(* it can save, and it only adds to its chain.                                  *)
LEMMA NextMemory == IInv /\ [Next]_vars => MemoryCoversFile'
<1> SUFFICES ASSUME IInv, [Next]_vars PROVE MemoryCoversFile'
  OBVIOUS
<1> USE DEF IInv, TypeOK, HoldsLock, TemporaryMatches, MemoryCoversFile, InSession, Opened
<1>1. ASSUME NEW p \in Processes, Start(p) PROVE MemoryCoversFile'
  BY <1>1 DEF Start, Goto
<1>2. ASSUME NEW p \in Processes, Step(p) PROVE MemoryCoversFile'
  <2>1. CASE AcquireLock(p) \/ LockTimeout(p) \/ ReleaseLock(p)
    BY <2>1 DEF AcquireLock, LockTimeout, ReleaseLock, Fatal, Goto
  <2>2. CASE RefuseFlags(p) \/ LoadMissing(p) \/ CreateFails(p)
    BY <2>2 DEF RefuseFlags, LoadMissing, CreateFails, Fatal, Goto
  <2>3. CASE LoadChain(p)
    BY <2>3, ComesFromItself DEF LoadChain, Fatal, Goto, Saved
  <2>4. CASE CreateChain(p)
    BY <2>4, NothingComesFromNew DEF CreateChain, Goto, Saved
  <2>5. CASE RunCommand(p)
    <3>1. ComesFrom(mem'[p], mem[p])
      BY <1>2, <2>5, CommandMemory
    <3>2. \A q \in Processes \ {p} : mem'[q] = mem[q] /\ pc'[q] = pc[q]
      BY <2>5 DEF RunCommand, Goto
    <3>3. pc[p] = "ready" /\ pc'[p] = "open" /\ file' = file
      BY <2>5 DEF RunCommand, Goto
    <3>4. ComesFrom(mem'[p], Saved(file))
      BY <3>1, <3>3, ComesFromSteps
    <3> QED
      BY <3>2, <3>3, <3>4
  <2>6. CASE CommandFails(p) \/ LeavePrompt(p)
    BY <2>6 DEF CommandFails, LeavePrompt, Fatal, Goto
  <2>7. CASE OpenTemporary(p) \/ WriteTemporary(p) \/ SyncTemporary(p)
    BY <2>7 DEF OpenTemporary, WriteTemporary, SyncTemporary, Goto
  <2>8. CASE RenameTemporary(p)
    <3>1. file' = File(mem[p], TRUE) /\ Saved(file') = mem[p]
      BY <2>8, ContentAssumption DEF RenameTemporary, File, Saved
    <3>2. \A q \in Processes \ {p} : pc[q] \notin InSession
      BY <2>8, ProcessAssumption DEF RenameTemporary
    <3>3. \A q \in Processes \ {p} : pc'[q] \notin InSession
      BY <2>8, <3>2 DEF RenameTemporary, Goto
    <3>4. pc'[p] # "create"
      BY <2>8 DEF RenameTemporary, NextAfter, Goto
    <3>5. ComesFrom(mem'[p], Saved(file'))
      BY <2>8, <3>1, ComesFromItself DEF RenameTemporary
    <3> QED
      BY <3>3, <3>4, <3>5
  <2>9. CASE SaveFails(p)
    BY <2>9 DEF SaveFails, Fatal, Goto
  <2> QED
    BY <1>2, <2>1, <2>2, <2>3, <2>4, <2>5, <2>6, <2>7, <2>8, <2>9 DEF Step
<1>3. ASSUME NEW p \in Processes, Kill(p) \/ Interrupt(p) PROVE MemoryCoversFile'
  BY <1>3 DEF Kill, Interrupt, Dies, Goto
<1>4. CASE PowerLoss
  BY <1>4 DEF PowerLoss, Alive, Ended
<1>5. CASE WriteBack \/ DeleteStaleLock
  BY <1>5 DEF WriteBack, DeleteStaleLock, procVars
<1>6. CASE UNCHANGED vars
  BY <1>6 DEF vars, procVars
<1> QED
  BY <1>1, <1>2, <1>3, <1>4, <1>5, <1>6 DEF Next

(* A one-shot process comes to its end through a Save of its whole chain, and   *)
(* nobody else can touch the file before it lets go of the lock.                *)
LEMMA NextSuccess == IInv /\ [Next]_vars => SuccessIsSaved'
<1> SUFFICES ASSUME IInv, [Next]_vars PROVE SuccessIsSaved'
  OBVIOUS
<1> USE ProcessAssumption
    DEF IInv, TypeOK, HoldsLock, TemporaryMatches, SuccessIsSaved, InSession, Processes
<1>1. ASSUME NEW p \in Processes, Start(p) PROVE SuccessIsSaved'
  BY <1>1 DEF Start, Goto
<1>2. ASSUME NEW p \in Processes, Step(p) PROVE SuccessIsSaved'
  <2>1. CASE AcquireLock(p) \/ LockTimeout(p) \/ ReleaseLock(p)
    BY <2>1 DEF AcquireLock, LockTimeout, ReleaseLock, Fatal, Goto
  <2>2. CASE RefuseFlags(p) \/ LoadMissing(p) \/ CreateFails(p) \/ LoadChain(p) \/ CreateChain(p)
    BY <2>2 DEF RefuseFlags, LoadMissing, CreateFails, LoadChain, CreateChain, Fatal, Goto
  <2>3. CASE RunCommand(p)
    BY <2>3 DEF RunCommand, Goto
  <2>4. CASE CommandFails(p) \/ LeavePrompt(p)
    BY <2>4 DEF CommandFails, LeavePrompt, Fatal, Goto
  <2>5. CASE OpenTemporary(p) \/ WriteTemporary(p) \/ SyncTemporary(p)
    BY <2>5 DEF OpenTemporary, WriteTemporary, SyncTemporary, Goto
  <2>6. CASE RenameTemporary(p)
    <3>1. file'.content = mem'[p]
      BY <2>6 DEF RenameTemporary, File
    <3>2. \A q \in Processes \ {p} : pc'[q] \notin InSession
      BY <2>6 DEF RenameTemporary, Goto
    <3> QED
      BY <3>1, <3>2
  <2>7. CASE SaveFails(p)
    BY <2>7 DEF SaveFails, Fatal, Goto
  <2> QED
    BY <1>2, <2>1, <2>2, <2>3, <2>4, <2>5, <2>6, <2>7 DEF Step
<1>3. ASSUME NEW p \in Processes, Kill(p) \/ Interrupt(p) PROVE SuccessIsSaved'
  BY <1>3 DEF Kill, Interrupt, Dies, Goto
<1>4. CASE PowerLoss
  BY <1>4 DEF PowerLoss, Alive, Ended
<1>5. CASE WriteBack \/ DeleteStaleLock
  BY <1>5 DEF WriteBack, DeleteStaleLock, procVars
<1>6. CASE UNCHANGED vars
  BY <1>6 DEF vars, procVars
<1> QED
  BY <1>1, <1>2, <1>3, <1>4, <1>5, <1>6 DEF Next

(* The invariant is inductive.                                                  *)
THEOREM InductiveInvariant == Spec => []IInv
<1>1. Init => IInv
  BY InitIInv
<1>2. IInv /\ [Next]_vars => IInv'
  BY NextTypeOK, NextHoldsLock, NextTemporary, NextFilesWhole, NextMemory, NextSuccess
  DEF IInv
<1> QED
  BY <1>1, <1>2, PTL DEF Spec

-----------------------------------------------------------------------------
(* Every variable keeps its type, for any number of processes and commands.     *)
THEOREM TypeCorrect == Spec => []TypeOK
<1>1. IInv => TypeOK
  BY DEF IInv
<1> QED
  BY InductiveInvariant, <1>1, PTL

(* AcquireFileLock lets one process at a time to the chain file, even as stale  *)
(* locks of dead processes are deleted by hand.                                 *)
THEOREM OneAtATime == Spec => []MutualExclusion
<1>1. IInv => MutualExclusion
  BY DEF IInv, HoldsLock, MutualExclusion
<1> QED
  BY InductiveInvariant, <1>1, PTL

(* Writing a temporary file, syncing it and renaming it keeps the chain file    *)
(* whole whatever dies when.                                                    *)
THEOREM FileNeverTorn == Spec => []FileIntact
<1>1. IInv => FileIntact
  BY DEF IInv, FilesWhole, FileIntact
<1> QED
  BY InductiveInvariant, <1>1, PTL

(* A one-shot command that reports success has saved all it did.                *)
THEOREM SuccessMeansSaved == Spec => []SuccessIsSaved
<1>1. IInv => SuccessIsSaved
  BY DEF IInv
<1> QED
  BY InductiveInvariant, <1>1, PTL

(* No update that reached the chain file is lost from it while the power stays  *)
(* on, but those that a process replaced by a fork once it had loaded them: the *)
(* lock keeps the cycle of loading, changing and saving indivisible.            *)
THEOREM UpdatesAreKept == Spec => NoLostUpdate
<1>1. IInv /\ [Next]_vars
         => [ComesFrom(Saved(file'), Saved(file)) \/ \A p \in Processes : ~Alive(p)']_vars
  <2> SUFFICES ASSUME IInv, Next
               PROVE  file' = file \/ ComesFrom(Saved(file'), Saved(file))
                         \/ \A p \in Processes : ~Alive(p)'
    BY ComesFromItself DEF vars
  <2>1. ASSUME NEW p \in Processes, RenameTemporary(p) PROVE ComesFrom(Saved(file'), Saved(file))
    <3>1. ComesFrom(mem[p], Saved(file))
      BY <2>1 DEF IInv, MemoryCoversFile, Opened, RenameTemporary
    <3>2. file' = File(mem[p], TRUE) /\ mem[p] # Absent
      BY <2>1, ContentAssumption DEF IInv, TypeOK, TemporaryMatches, RenameTemporary
    <3> QED
      BY <3>1, <3>2 DEF Saved, File
  <2>2. CASE PowerLoss
    BY <2>2 DEF PowerLoss, Alive, Ended
  <2>3. CASE ~PowerLoss /\ \A p \in Processes : ~RenameTemporary(p)
    BY <2>3 DEF Next, Step, Start, Kill, Interrupt, Dies, WriteBack, DeleteStaleLock,
       AcquireLock, LockTimeout, ReleaseLock, RefuseFlags, LoadChain,
       LoadMissing, CreateChain, CreateFails, RunCommand, CommandFails, LeavePrompt,
       OpenTemporary, WriteTemporary, SyncTemporary, SaveFails
  <2> QED
    BY <2>1, <2>2, <2>3
<1> QED
  BY InductiveInvariant, <1>1, PTL DEF Spec, NoLostUpdate
==========================================================================
