------------------------------- MODULE Mount --------------------------------
(***************************************************************************)
(* The life of a clickfs process: run_mount and run_umount of              *)
(* src/src/main.rs, with what the end of the mount does to open streams    *)
(* (src/src/stream.rs) and to the detached KILL QUERY tasks.               *)
(*                                                                         *)
(* The main thread is inside mount2 until the kernel's mount is gone; a    *)
(* second thread waits for one signal and then runs fusermount and umount, *)
(* which fail while a file is open.                                        *)
(***************************************************************************)
EXTENDS Naturals

CONSTANTS
  Files,       \* streams that processes open on the mount
  MaxSignals,  \* SIGINT and SIGTERM the process gets (bound of the model)
  MaxUmounts   \* uses of `clickfs umount` (bound of the model)

ASSUME MountAssumption == MaxSignals \in Nat /\ MaxUmounts \in Nat

VARIABLES
  auto,      \* the option AutoUnmount: not --no-auto-unmount
  main,      \* the main thread: where run_mount is
  code,      \* exit code, once the process has ended
  mounted,   \* the kernel's mount
  sig,       \* the signal thread
  signals, umounts,  \* how many so far
  file,      \* per stream: none, open, released (RELEASE queued), dropped
  select,    \* per stream: the SELECT and its task
  kill       \* per stream: the detached KILL QUERY

vars == <<auto, main, code, mounted, sig, signals, umounts, file, select, kill>>

Init ==
  /\ auto \in BOOLEAN
  /\ main = "starting" /\ code = "none" /\ mounted = FALSE
  /\ sig = "none" /\ signals = 0 /\ umounts = 0
  /\ file = [f \in Files |-> "none"]
  /\ select = [f \in Files |-> "none"]
  /\ kill = [f \in Files |-> "none"]

\* Mutant: run_mount's result does not reach the exit code.
EndProcessNoCode(c) ==
  /\ main' = "exited" /\ UNCHANGED code
  /\ select' = [f \in Files |-> IF select[f] = "running" THEN "stopped" ELSE select[f]]
  /\ kill' = [f \in Files |-> IF kill[f] = "spawned" THEN "lost" ELSE kill[f]]

\* Ending the process ends the runtime: tasks that have not run are dropped and
\* the connections close.
EndProcess(c) ==
  /\ main' = "exited" /\ code' = c
  /\ select' = [f \in Files |-> IF select[f] = "running" THEN "stopped" ELSE select[f]]
  /\ kill' = [f \in Files |-> IF kill[f] = "spawned" THEN "lost" ELSE kill[f]]

-----------------------------------------------------------------------------
(* run_mount: checks, ping, the signal thread, mount2.                      *)
StartFails ==
  /\ main = "starting"
  /\ EndProcess("failure")
  /\ UNCHANGED <<auto, mounted, sig, signals, umounts, file>>

Start ==
  /\ main = "starting"
  /\ main' = "mounting" /\ sig' = "starting"
  /\ UNCHANGED <<auto, code, mounted, signals, umounts, file, select, kill>>

MountFails ==
  /\ main = "mounting"
  /\ EndProcess("failure")
  /\ UNCHANGED <<auto, mounted, sig, signals, umounts, file>>

MountDone ==
  /\ main = "mounting"
  /\ main' = "session" /\ mounted' = TRUE
  /\ UNCHANGED <<auto, code, sig, signals, umounts, file, select, kill>>

\* Mutant: fs is leaked instead of dropped.
DroppedNone(f) == FALSE

\* Handles still in the table when mount2 drops the file system.
Dropped(f) == file[f] = "released"

\* mount2 returns once the mount is gone, and drops fs with its handles.
SessionEnds ==
  /\ main = "session" /\ ~mounted
  /\ main' = "ended"
  /\ file'   = [f \in Files |-> IF Dropped(f) THEN "dropped" ELSE file[f]]
  /\ select' = [f \in Files |-> IF Dropped(f) THEN "stopped" ELSE select[f]]
  /\ kill'   = [f \in Files |-> IF Dropped(f) THEN "spawned" ELSE kill[f]]
  /\ UNCHANGED <<auto, code, mounted, sig, signals, umounts>>

\* run_mount returns; `rt` is dropped.
Returns ==
  /\ main = "ended"
  /\ EndProcess("success")
  /\ UNCHANGED <<auto, mounted, sig, signals, umounts, file>>

-----------------------------------------------------------------------------
(* The signal thread. tokio installs its handlers once and for all; before  *)
(* that, or if it cannot, a signal kills the process. The mount is then     *)
(* removed by AutoUnmount, or left without a server.                        *)
Arm ==
  /\ sig = "starting" /\ main # "exited"
  /\ sig' \in {"armed", "absent"}
  /\ UNCHANGED <<auto, main, code, mounted, signals, umounts, file, select, kill>>

Signal ==
  /\ signals < MaxSignals /\ main # "exited"
  /\ signals' = signals + 1
  /\ CASE sig = "armed" ->
            sig' = "fusermount" /\ UNCHANGED <<main, code, mounted, select, kill>>
       [] sig \in {"none", "starting", "absent"} ->
            EndProcess("killed") /\ mounted' = (mounted /\ ~auto) /\ UNCHANGED sig
       [] OTHER -> UNCHANGED <<main, code, mounted, sig, select, kill>>
  /\ UNCHANGED <<auto, umounts, file>>

\* The kernel refuses to unmount while a file is open (external).
Busy == \E f \in Files : file[f] = "open"

TryUmount == mounted' = (mounted /\ Busy)

RunFusermount ==
  /\ sig = "fusermount" /\ main # "exited"
  /\ TryUmount
  /\ sig' = "umount"
  /\ UNCHANGED <<auto, main, code, signals, umounts, file, select, kill>>

\* The thread ends; nobody listens for a second signal.
RunUmount ==
  /\ sig = "umount" /\ main # "exited"
  /\ TryUmount
  /\ sig' = "done"
  /\ UNCHANGED <<auto, main, code, signals, umounts, file, select, kill>>

\* `clickfs umount` in another process: run_umount.
UmountCommand ==
  /\ umounts < MaxUmounts /\ mounted
  /\ umounts' = umounts + 1
  /\ TryUmount
  /\ UNCHANGED <<auto, main, code, sig, signals, file, select, kill>>

-----------------------------------------------------------------------------
(* Files on the mount.                                                      *)
Open(f) ==
  /\ main = "session" /\ mounted /\ file[f] = "none"
  /\ file' = [file EXCEPT ![f] = "open"]
  /\ select' = [select EXCEPT ![f] = "running"]
  /\ UNCHANGED <<auto, main, code, mounted, sig, signals, umounts, kill>>

CloseFile(f) ==
  /\ file[f] = "open"
  /\ file' = [file EXCEPT ![f] = "released"]
  /\ UNCHANGED <<auto, main, code, mounted, sig, signals, umounts, select, kill>>

\* Mutant: the handle is removed but the task goes on.
ReleaseDetached(f) ==
  /\ main = "session" /\ file[f] = "released"
  /\ file' = [file EXCEPT ![f] = "dropped"]
  /\ kill' = [kill EXCEPT ![f] = "spawned"]
  /\ UNCHANGED <<auto, main, code, mounted, sig, signals, umounts, select>>

\* release drops the StreamHandle: its task stops, the KILL is spawned.
Release(f) ==
  /\ main = "session" /\ file[f] = "released"
  /\ file' = [file EXCEPT ![f] = "dropped"]
  /\ select' = [select EXCEPT ![f] = "stopped"]
  /\ kill' = [kill EXCEPT ![f] = "spawned"]
  /\ UNCHANGED <<auto, main, code, mounted, sig, signals, umounts>>

FireKill(f) ==
  /\ main # "exited" /\ kill[f] = "spawned"
  /\ kill' = [kill EXCEPT ![f] = "fired"]
  /\ UNCHANGED <<auto, main, code, mounted, sig, signals, umounts, file, select>>

-----------------------------------------------------------------------------
Main == StartFails \/ Start \/ MountFails \/ MountDone \/ SessionEnds \/ Returns
SignalThread == Arm \/ RunFusermount \/ RunUmount

\* The process has ended, or nobody asks it to end any more.
Rest ==
  /\ main = "exited" \/ (main = "session" /\ mounted)
  /\ UNCHANGED vars

Next ==
  \/ Main \/ SignalThread
  \/ Signal \/ UmountCommand
  \/ \E f \in Files : Open(f) \/ CloseFile(f) \/ Release(f) \/ FireKill(f)
  \/ Rest

Spec == Init /\ [][Next]_vars

\* Threads and tasks run, and every process closes its file in the end. Nobody
\* has to open a file, to send a signal or to unmount.
Fairness ==
  /\ WF_vars(Main) /\ WF_vars(SignalThread)
  /\ \A f \in Files : WF_vars(CloseFile(f)) /\ WF_vars(Release(f)) /\ WF_vars(FireKill(f))

FairSpec == Spec /\ Fairness

-----------------------------------------------------------------------------
\* The threads, the mount and the streams are in states of their own, and the
\* process has an exit code exactly when it has ended.
TypeOK ==
  /\ auto \in BOOLEAN
  /\ main \in {"starting", "mounting", "session", "ended", "exited"}
  /\ code \in {"none", "failure", "success", "killed"}
  /\ (code = "none") = (main # "exited")
  /\ mounted \in BOOLEAN
  /\ sig \in {"none", "starting", "armed", "absent", "fusermount", "umount", "done"}
  /\ signals \in 0..MaxSignals /\ umounts \in 0..MaxUmounts
  /\ file \in [Files -> {"none", "open", "released", "dropped"}]
  /\ select \in [Files -> {"none", "running", "stopped"}]
  /\ kill \in [Files -> {"none", "spawned", "fired", "lost"}]

\* A process that ends by itself has given back what it held: no mount is left
\* behind, no file was open, and every stream had been dropped with its KILL
\* spawned, the ones whose RELEASE never arrived included. However it ends, a
\* mount without a server is left only where AutoUnmount was turned off.
CleanExit ==
  /\ code # "none" /\ mounted => code = "killed" /\ ~auto
  /\ code = "success" =>
       \A f \in Files : file[f] \in {"none", "dropped"} /\ (kill[f] = "none" <=> file[f] = "none")

\* A closed file does not keep its SELECT running, whatever ends first: the
\* handle, the mount or the process.
ClosedStops == \A f \in Files : file[f] = "released" ~> select[f] = "stopped"

\* "Ctrl-C unmounts and exits" (README.md:143): a process that has got a signal
\* ends.
CtrlCUnmounts == signals > 0 ~> main = "exited"

=============================================================================
