----------------------------- MODULE MountProofs -----------------------------
(***************************************************************************)
(* Proofs about Mount for any set of streams and any number of signals and *)
(* uses of `clickfs umount`.                                               *)
(***************************************************************************)
EXTENDS Mount, TLAPS

-----------------------------------------------------------------------------
(* The invariant behind CleanExit: what each step of run_mount leaves to    *)
(* the next one.                                                            *)

\* The kernel's mount exists only while mount2 serves it, or without a server
\* after a signal has killed a process without AutoUnmount.
MountServed ==
  mounted => \/ main = "session"
             \/ main = "exited" /\ code = "killed" /\ ~auto

\* Files are opened on a mount that is served, keep it busy while they are open,
\* and their handles go before the file system is dropped.
FilesFollowMount ==
  \A f \in Files :
    /\ main \in {"starting", "mounting"} => file[f] = "none"
    /\ main = "session" /\ file[f] = "open" => mounted
    /\ main = "ended" \/ code = "success" => file[f] \in {"none", "dropped"}

\* A KILL exists for the handles that were dropped, and for no other.
KillPerDrop == \A f \in Files : kill[f] # "none" <=> file[f] = "dropped"

IInv == TypeOK /\ MountServed /\ FilesFollowMount /\ KillPerDrop

-----------------------------------------------------------------------------
\* What run_mount starts from.
LEMMA InitInv == Init => IInv
<1> SUFFICES ASSUME Init PROVE IInv
  OBVIOUS
<1>1. signals \in 0..MaxSignals /\ umounts \in 0..MaxUmounts
  BY MountAssumption DEF Init
<1>2. TypeOK
  BY <1>1, Zenon DEF Init, TypeOK
<1>3. MountServed /\ FilesFollowMount /\ KillPerDrop
  BY DEF Init, MountServed, FilesFollowMount, KillPerDrop
<1> QED BY <1>2, <1>3 DEF IInv

\* The end of the process keeps the types, and which streams have a KILL.
LEMMA EndProcessKeeps ==
  ASSUME IInv, NEW c \in {"failure", "success", "killed"}, EndProcess(c)
  PROVE  /\ main' = "exited" /\ code' = c
         /\ select' \in [Files -> {"none", "running", "stopped"}]
         /\ kill' \in [Files -> {"none", "spawned", "fired", "lost"}]
         /\ \A f \in Files : kill'[f] # "none" <=> kill[f] # "none"
  BY DEF EndProcess, IInv, TypeOK

\* Every step of the main thread keeps the invariant.
LEMMA MainInv == IInv /\ Main => IInv'
<1> SUFFICES ASSUME IInv, Main PROVE IInv'
  OBVIOUS
<1>1. CASE StartFails \/ MountFails
  <2>1. EndProcess("failure") /\ UNCHANGED <<auto, mounted, sig, signals, umounts, file>>
        /\ main \in {"starting", "mounting"}
    BY <1>1 DEF StartFails, MountFails
  <2> QED BY <2>1, EndProcessKeeps DEF IInv, TypeOK, MountServed, FilesFollowMount, KillPerDrop
<1>2. CASE Start
  BY <1>2 DEF Start, IInv, TypeOK, MountServed, FilesFollowMount, KillPerDrop
<1>3. CASE MountDone
  BY <1>3 DEF MountDone, IInv, TypeOK, MountServed, FilesFollowMount, KillPerDrop
<1>4. CASE SessionEnds
  BY <1>4 DEF SessionEnds, Dropped, IInv, TypeOK, MountServed, FilesFollowMount, KillPerDrop
<1>5. CASE Returns
  <2>1. EndProcess("success") /\ UNCHANGED <<auto, mounted, sig, signals, umounts, file>>
        /\ main = "ended"
    BY <1>5 DEF Returns
  <2> QED BY <2>1, EndProcessKeeps DEF IInv, TypeOK, MountServed, FilesFollowMount, KillPerDrop
<1> QED BY <1>1, <1>2, <1>3, <1>4, <1>5 DEF Main

\* An attempt to unmount leaves the mount in place while a file is open.
LEMMA TryUmountKeeps ==
  ASSUME IInv, TryUmount, UNCHANGED <<auto, main, code, file, select, kill>>
  PROVE  mounted' \in BOOLEAN /\ MountServed' /\ FilesFollowMount' /\ KillPerDrop'
  BY DEF TryUmount, Busy, IInv, TypeOK, MountServed, FilesFollowMount, KillPerDrop

\* Every step of the signal thread, a signal and `clickfs umount` keep it.
LEMMA OutsideInv == IInv /\ (SignalThread \/ Signal \/ UmountCommand) => IInv'
<1> SUFFICES ASSUME IInv, SignalThread \/ Signal \/ UmountCommand PROVE IInv'
  OBVIOUS
<1>1. CASE Arm
  BY <1>1 DEF Arm, IInv, TypeOK, MountServed, FilesFollowMount, KillPerDrop
<1>2. CASE RunFusermount \/ RunUmount
  <2>1. /\ TryUmount /\ sig' \in {"umount", "done"}
        /\ UNCHANGED <<auto, main, code, signals, umounts, file, select, kill>>
    BY <1>2 DEF RunFusermount, RunUmount
  <2> QED BY <2>1, TryUmountKeeps DEF IInv, TypeOK
<1>3. CASE UmountCommand
  <2>1. /\ TryUmount /\ umounts' \in 0..MaxUmounts
        /\ UNCHANGED <<auto, main, code, sig, signals, file, select, kill>>
    BY <1>3, MountAssumption DEF UmountCommand, IInv, TypeOK
  <2> QED BY <2>1, TryUmountKeeps DEF IInv, TypeOK
<1>4. CASE Signal
  <2>1. signals' \in 0..MaxSignals /\ main # "exited" /\ UNCHANGED <<auto, umounts, file>>
    BY <1>4, MountAssumption DEF Signal, IInv, TypeOK
  <2>2. CASE sig \in {"none", "starting", "absent"}
    <3>1. EndProcess("killed") /\ mounted' = (mounted /\ ~auto) /\ sig' = sig
      BY <1>4, <2>2 DEF Signal
    <3>2. mounted' \in BOOLEAN /\ MountServed'
      BY <2>1, <3>1, EndProcessKeeps DEF IInv, TypeOK, MountServed
    <3> QED BY <2>1, <3>1, <3>2, EndProcessKeeps DEF IInv, TypeOK, FilesFollowMount, KillPerDrop
  <2>3. CASE sig \notin {"none", "starting", "absent"}
    <3>1. /\ UNCHANGED <<main, code, mounted, select, kill>>
          /\ sig' \in {"fusermount", sig}
      BY <1>4, <2>3 DEF Signal
    <3> QED BY <2>1, <3>1 DEF IInv, TypeOK, MountServed, FilesFollowMount, KillPerDrop
  <2> QED BY <2>2, <2>3
<1> QED BY <1>1, <1>2, <1>3, <1>4 DEF SignalThread

\* Opening and closing a file and dropping its handle keep it.
LEMMA FileInv ==
  ASSUME IInv, NEW f \in Files, Open(f) \/ CloseFile(f) \/ Release(f) \/ FireKill(f)
  PROVE  IInv'
<1>1. CASE Open(f)
  BY <1>1 DEF Open, IInv, TypeOK, MountServed, FilesFollowMount, KillPerDrop
<1>2. CASE CloseFile(f)
  BY <1>2 DEF CloseFile, IInv, TypeOK, MountServed, FilesFollowMount, KillPerDrop
<1>3. CASE Release(f)
  BY <1>3 DEF Release, IInv, TypeOK, MountServed, FilesFollowMount, KillPerDrop
<1>4. CASE FireKill(f)
  BY <1>4 DEF FireKill, IInv, TypeOK, MountServed, FilesFollowMount, KillPerDrop
<1> QED BY <1>1, <1>2, <1>3, <1>4

\* Every step keeps it.
LEMMA StepInv == IInv /\ [Next]_vars => IInv'
<1>1. IInv /\ UNCHANGED vars => IInv'
  BY DEF vars, IInv, TypeOK, MountServed, FilesFollowMount, KillPerDrop
<1> QED BY <1>1, MainInv, OutsideInv, FileInv DEF Next, Rest

\* Main thread, signal thread and files keep their types, and the process has an
\* exit code exactly when it has ended.
THEOREM TypeCorrect == Spec => []TypeOK
<1>1. IInv => TypeOK
  BY DEF IInv
<1> QED BY <1>1, InitInv, StepInv, PTL DEF Spec

\* However start-up, signals, unmounting and files interleave, a process that ends
\* by itself leaves no mount behind and has dropped every stream and spawned its
\* KILL; a mount without a server is left only where AutoUnmount is off.
THEOREM ExitIsClean == Spec => []CleanExit
<1>1. IInv => CleanExit
  BY DEF IInv, TypeOK, MountServed, FilesFollowMount, KillPerDrop, CleanExit
<1> QED BY <1>1, InitInv, StepInv, PTL DEF Spec
=============================================================================
