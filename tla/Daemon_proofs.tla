---------------------------- MODULE Daemon_proofs ----------------------------
(***************************************************************************)
(* That a storage is only served with the password it was made with, for   *)
(* any passwords, workers and number of starts.                            *)
(***************************************************************************)
EXTENDS Daemon, TLAPS

Fits ==
  /\ storage.status = "Open"
  /\ disk.config \in Passwords
  /\ storage.coder = disk.config
  /\ storage.pool = disk.config
  /\ storage.text = disk.config

\* After the third try there is no other.
TriesInv == main.tries = 3 => main.pc \in {"error", "exit", "join", "ended"}

\* There is a server only at the end of Run() and after it.
ServerInv == server.made => main.pc \in {"run", "bind", "serve", "error", "exit", "join"}

DaemonInv == TypeOK /\ TriesInv /\ ServerInv /\ (Serves => Fits)

USE DaemonAssumption

\* What a change of pc, alone or with the password, leaves of main.
LEMMA GotoKeeps ==
  ASSUME main \in Mains, NEW pc \in Places, Goto(pc)
  PROVE  main' \in Mains /\ main'.pc = pc /\ main'.tries = main.tries
  BY DEF Mains, Goto

LEMMA TypedKeeps ==
  ASSUME main \in Mains, NEW pc \in Places, NEW typed \in Keys,
         main' = [main EXCEPT !.pc = pc, !.typed = typed]
  PROVE  main' \in Mains /\ main'.pc = pc /\ main'.tries = main.tries
  BY DEF Mains

LEMMA TriesKeeps ==
  ASSUME main \in Mains, NEW pc \in Places, NEW n \in 0..3,
         main' = [main EXCEPT !.tries = n, !.pc = pc]
  PROVE  main' \in Mains /\ main'.pc = pc /\ main'.tries = n
  BY DEF Mains

\* The disk and the server stay of their types when some of their fields change.
LEMMA DiskFlags ==
  ASSUME NEW d \in Disks, NEW b \in BOOLEAN
  PROVE  /\ [d EXCEPT !.root = b] \in Disks /\ [d EXCEPT !.complete = b] \in Disks
         /\ [d EXCEPT !.root = b].config = d.config
         /\ [d EXCEPT !.complete = b].config = d.config
  BY DEF Disks

LEMMA DiskConfig ==
  ASSUME NEW d \in Disks, NEW config \in Keys \cup {"torn"}
  PROVE  /\ [d EXCEPT !.config = config] \in Disks
         /\ [d EXCEPT !.other = FALSE, !.config = config] \in Disks
         /\ [d EXCEPT !.config = config, !.complete = TRUE] \in Disks
  BY DEF Disks

LEMMA DiskCleaned ==
  ASSUME NEW d \in Disks
  PROVE  [d EXCEPT !.other = FALSE, !.config = None] \in Disks
  BY DEF Disks, Keys

LEMMA ServerFlags ==
  ASSUME NEW s \in Servers, NEW b \in BOOLEAN
  PROVE  /\ [s EXCEPT !.made = b] \in Servers /\ [s EXCEPT !.stop = b] \in Servers
         /\ [s EXCEPT !.stop = b].made = s.made
  BY DEF Servers

LEMMA ServerQueue ==
  ASSUME NEW s \in Servers, NEW n \in 0..MaxQueued
  PROVE  [s EXCEPT !.queued = n] \in Servers /\ [s EXCEPT !.queued = n].made = s.made
  BY DEF Servers

\* So does the storage.
LEMMA StorageStatus ==
  ASSUME NEW s \in Storages, NEW status \in {"Unknown", "ReadyToOpen", "NotInit", "Open"}
  PROVE  /\ [s EXCEPT !.status = status] \in Storages
         /\ [s EXCEPT !.made = TRUE, !.status = status] \in Storages
  BY DEF Storages

LEMMA StorageKeys ==
  ASSUME NEW s \in Storages, NEW a \in Keys
  PROVE  /\ [s EXCEPT !.coder = a] \in Storages
         /\ [s EXCEPT !.status = "Open", !.text = a] \in Storages
         /\ \A status \in {"Unknown", "ReadyToOpen", "NotInit", "Open"} :
              [s EXCEPT !.coder = a, !.pool = a, !.status = status] \in Storages
  BY DEF Storages

\* Values the model builds.
LEMMA Nothing == NoStorage \in Storages /\ NoServer \in Servers
  BY DEF NoStorage, NoServer, Storages, Servers, Keys

LEMMA Status == StatusOf(disk) \in {"ReadyToOpen", "NotInit"}
  BY DEF StatusOf

LEMMA TypedIsKey == None \in Keys /\ (TypeOK => main.typed \in Keys)
  BY DEF TypeOK, Mains, Keys

\* What CStorage::Init makes of the typed password.
LEMMA TypedCoder == TypeOK => [storage EXCEPT !.coder = main.typed] \in Storages
  <1> SUFFICES ASSUME TypeOK PROVE [storage EXCEPT !.coder = main.typed] \in Storages
    OBVIOUS
  <1>1. storage \in Storages BY DEF TypeOK
  <1> QED BY <1>1, TypedIsKey, StorageKeys

LEMMA TypeServer == TypeOK => server \in Servers
  BY DEF TypeOK

\* The invariant holds at the start.
LEMMA DaemonInit == Init => DaemonInv
  <1> SUFFICES ASSUME Init PROVE DaemonInv OBVIOUS
  <1>1. disk \in Disks BY DEF Init, Disks, Keys
  <1>2. main \in Mains BY DEF Init, Mains, Places, Keys
  <1>3. storage \in Storages /\ server \in Servers BY Nothing DEF Init
  <1>4. TypeOK
    <2>1. worker \in [Workers -> {"none", "wait", "work", "ended"}] BY DEF Init, NoThreads
    <2>2. starts \in 1..MaxStarts BY DaemonAssumption DEF Init
    <2> QED BY <1>1, <1>2, <1>3, <2>1, <2>2 DEF Init, TypeOK
  <1>5. TriesInv /\ ServerInv BY DEF Init, TriesInv, ServerInv, NoServer
  <1>6. ~Serves BY DEF Init, Serves, NoStorage
  <1> QED BY <1>4, <1>5, <1>6 DEF DaemonInv

-----------------------------------------------------------------------------
(* Every action keeps the invariant. *)

LEMMA SetRootStep ==
  ASSUME DaemonInv, SetRoot
  PROVE  DaemonInv'
  <1> USE DEF DaemonInv, SetRoot, MainOnly
  <1>1. disk' \in Disks BY DEF TypeOK
  <1>2. main' \in Mains /\ main'.tries = main.tries /\ main'.pc \in {"password", "ask"}
    BY GotoKeeps DEF TypeOK, Places
  <1>3. storage' \in Storages BY StorageStatus, Nothing, Status DEF TypeOK
  <1>4. server' \in Servers BY DEF TypeOK
  <1>5. TypeOK' BY <1>1, <1>2, <1>3, <1>4 DEF TypeOK, NoThreads
  <1>6. TriesInv' BY <1>2 DEF TriesInv
  <1>7. ServerInv' BY <1>2 DEF ServerInv
  <1>8. Serves' => Fits' BY <1>2 DEF Serves, Fits, ServerInv, NoServer, NoStorage
  <1> QED BY <1>5, <1>6, <1>7, <1>8

LEMMA DeclineStep ==
  ASSUME DaemonInv, Decline
  PROVE  DaemonInv'
  <1> USE DEF DaemonInv, Decline, MainOnly
  <1>1. disk' \in Disks BY DEF TypeOK
  <1>2. main' \in Mains /\ main'.tries = main.tries /\ main'.pc \in {"error"}
    BY GotoKeeps DEF TypeOK, Places
  <1>3. storage' \in Storages BY DEF TypeOK
  <1>4. server' \in Servers BY DEF TypeOK
  <1>5. TypeOK' BY <1>1, <1>2, <1>3, <1>4 DEF TypeOK, NoThreads
  <1>6. TriesInv' BY <1>2 DEF TriesInv
  <1>7. ServerInv' BY <1>2 DEF ServerInv
  <1>8. Serves' => Fits' BY <1>2 DEF Serves, Fits, ServerInv, NoServer, NoStorage
  <1> QED BY <1>5, <1>6, <1>7, <1>8

LEMMA ConfirmStep ==
  ASSUME DaemonInv, Confirm
  PROVE  DaemonInv'
  <1> USE DEF DaemonInv, Confirm, MainOnly
  <1>1. disk' \in Disks BY DiskFlags DEF TypeOK
  <1>2. main' \in Mains /\ main'.tries = main.tries /\ main'.pc \in {"init"}
    BY TypedKeeps DEF TypeOK, Places, Keys
  <1>3. storage' \in Storages BY DEF TypeOK
  <1>4. server' \in Servers BY DEF TypeOK
  <1>5. TypeOK' BY <1>1, <1>2, <1>3, <1>4 DEF TypeOK, NoThreads
  <1>6. TriesInv' BY <1>2 DEF TriesInv
  <1>7. ServerInv' BY <1>2 DEF ServerInv
  <1>8. Serves' => Fits' BY <1>2 DEF Serves, Fits, ServerInv, NoServer, NoStorage
  <1> QED BY <1>5, <1>6, <1>7, <1>8

LEMMA CleanRootStep ==
  ASSUME DaemonInv, CleanRoot
  PROVE  DaemonInv'
  <1> USE DEF DaemonInv, CleanRoot, MainOnly
  <1>1. disk' \in Disks BY DiskCleaned DEF TypeOK
  <1>2. main' \in Mains /\ main'.tries = main.tries /\ main'.pc \in {"create", "error"}
    BY GotoKeeps DEF TypeOK, Places
  <1>3. storage' \in Storages BY TypedCoder DEF TypeOK
  <1>4. server' \in Servers BY DEF TypeOK
  <1>5. TypeOK' BY <1>1, <1>2, <1>3, <1>4 DEF TypeOK, NoThreads
  <1>6. TriesInv' BY <1>2 DEF TriesInv
  <1>7. ServerInv' BY <1>2 DEF ServerInv
  <1>8. Serves' => Fits' BY <1>2 DEF Serves, Fits, ServerInv, NoServer, NoStorage
  <1> QED BY <1>5, <1>6, <1>7, <1>8

LEMMA CreateConfigStep ==
  ASSUME DaemonInv, CreateConfig
  PROVE  DaemonInv'
  <1> USE DEF DaemonInv, CreateConfig, MainOnly
  <1>1. disk' \in Disks BY DiskConfig DEF TypeOK
  <1>2. main' \in Mains /\ main'.tries = main.tries /\ main'.pc \in {"write"}
    BY GotoKeeps DEF TypeOK, Places
  <1>3. storage' \in Storages BY DEF TypeOK
  <1>4. server' \in Servers BY DEF TypeOK
  <1>5. TypeOK' BY <1>1, <1>2, <1>3, <1>4 DEF TypeOK, NoThreads
  <1>6. TriesInv' BY <1>2 DEF TriesInv
  <1>7. ServerInv' BY <1>2 DEF ServerInv
  <1>8. Serves' => Fits' BY <1>2 DEF Serves, Fits, ServerInv, NoServer, NoStorage
  <1> QED BY <1>5, <1>6, <1>7, <1>8

LEMMA WriteConfigStep ==
  ASSUME DaemonInv, WriteConfig
  PROVE  DaemonInv'
  <1> USE DEF DaemonInv, WriteConfig, MainOnly
  <1>1. disk' \in Disks BY DiskConfig, TypedIsKey DEF TypeOK
  <1>2. main' \in Mains /\ main'.tries = main.tries /\ main'.pc \in {"login"}
    BY GotoKeeps DEF TypeOK, Places
  <1>3. storage' \in Storages BY DEF TypeOK
  <1>4. server' \in Servers BY DEF TypeOK
  <1>5. TypeOK' BY <1>1, <1>2, <1>3, <1>4 DEF TypeOK, NoThreads
  <1>6. TriesInv' BY <1>2 DEF TriesInv
  <1>7. ServerInv' BY <1>2 DEF ServerInv
  <1>8. Serves' => Fits' BY <1>2 DEF Serves, Fits, ServerInv, NoServer, NoStorage
  <1> QED BY <1>5, <1>6, <1>7, <1>8

LEMMA EnterPasswordStep ==
  ASSUME DaemonInv, EnterPassword
  PROVE  DaemonInv'
  <1> USE DEF DaemonInv, EnterPassword, MainOnly
  <1>1. disk' \in Disks BY DEF TypeOK
  <1>2. main' \in Mains /\ main'.tries = main.tries /\ main'.pc \in {"login", "exit"}
    BY TypedKeeps DEF TypeOK, Places, Keys
  <1>3. storage' \in Storages BY DEF TypeOK
  <1>4. server' \in Servers BY DEF TypeOK
  <1>5. TypeOK' BY <1>1, <1>2, <1>3, <1>4 DEF TypeOK, NoThreads
  <1>6. TriesInv' BY <1>2 DEF TriesInv
  <1>7. ServerInv' BY <1>2 DEF ServerInv
  <1>8. Serves' => Fits' BY <1>2 DEF Serves, Fits, ServerInv, NoServer, NoStorage
  <1> QED BY <1>5, <1>6, <1>7, <1>8

LEMMA ReadConfigStep ==
  ASSUME DaemonInv, ReadConfig
  PROVE  DaemonInv'
  <1> USE DEF DaemonInv, ReadConfig, MainOnly
  <1>1. disk' \in Disks BY DEF TypeOK
  <1>2. main' \in Mains /\ main'.tries = main.tries /\ main'.pc \in {"make", "error"}
    BY GotoKeeps DEF TypeOK, Places
  <1>3. storage' \in Storages BY DEF TypeOK
  <1>4. server' \in Servers BY DEF TypeOK
  <1>5. TypeOK' BY <1>1, <1>2, <1>3, <1>4 DEF TypeOK, NoThreads
  <1>6. TriesInv' BY <1>2 DEF TriesInv
  <1>7. ServerInv' BY <1>2 DEF ServerInv
  <1>8. Serves' => Fits' BY <1>2 DEF Serves, Fits, ServerInv, NoServer, NoStorage
  <1> QED BY <1>5, <1>6, <1>7, <1>8

LEMMA MakeServerStep ==
  ASSUME DaemonInv, MakeServer
  PROVE  DaemonInv'
  <1> USE DEF DaemonInv, MakeServer, MainOnly
  <1>1. disk' \in Disks BY DEF TypeOK
  <1>2. main' \in Mains /\ main'.tries = main.tries /\ main'.pc \in {"run"}
    BY GotoKeeps DEF TypeOK, Places
  <1>3. storage' \in Storages BY DEF TypeOK
  <1>4. server' \in Servers BY ServerFlags, Nothing
  <1>5. TypeOK' BY <1>1, <1>2, <1>3, <1>4 DEF TypeOK, NoThreads
  <1>6. TriesInv' BY <1>2 DEF TriesInv
  <1>7. ServerInv' BY <1>2 DEF ServerInv
  <1>8. Serves' => Fits' BY <1>2 DEF Serves, Fits, ServerInv, NoServer, NoStorage
  <1> QED BY <1>5, <1>6, <1>7, <1>8

LEMMA StartThreadsStep ==
  ASSUME DaemonInv, StartThreads
  PROVE  DaemonInv'
  <1> USE DEF DaemonInv, StartThreads, MainOnly
  <1>1. disk' \in Disks BY DEF TypeOK
  <1>2. main' \in Mains /\ main'.tries = main.tries /\ main'.pc \in {"bind"}
    BY GotoKeeps DEF TypeOK, Places
  <1>3. storage' \in Storages BY DEF TypeOK
  <1>4. server' \in Servers BY DEF TypeOK
  <1>5. TypeOK' BY <1>1, <1>2, <1>3, <1>4 DEF TypeOK, NoThreads
  <1>6. TriesInv' BY <1>2 DEF TriesInv
  <1>7. ServerInv' BY <1>2 DEF ServerInv
  <1>8. Serves' => Fits' BY <1>2 DEF Serves, Fits, ServerInv, NoServer, NoStorage
  <1> QED BY <1>5, <1>6, <1>7, <1>8

LEMMA BindStep ==
  ASSUME DaemonInv, Bind
  PROVE  DaemonInv'
  <1> USE DEF DaemonInv, Bind, MainOnly
  <1>1. disk' \in Disks BY DEF TypeOK
  <1>2. main' \in Mains /\ main'.tries = main.tries /\ main'.pc \in {"serve", "error"}
    BY GotoKeeps DEF TypeOK, Places
  <1>3. storage' \in Storages BY DEF TypeOK
  <1>4. server' \in Servers BY DEF TypeOK
  <1>5. TypeOK' BY <1>1, <1>2, <1>3, <1>4 DEF TypeOK, NoThreads
  <1>6. TriesInv' BY <1>2 DEF TriesInv
  <1>7. ServerInv' BY <1>2 DEF ServerInv
  <1>8. Serves' => Fits' BY <1>2 DEF Serves, Fits, ServerInv, NoServer, NoStorage
  <1> QED BY <1>5, <1>6, <1>7, <1>8

LEMMA ReceiveStep ==
  ASSUME DaemonInv, Receive
  PROVE  DaemonInv'
  <1> USE DEF DaemonInv, Receive, MainOnly
  <1>1. disk' \in Disks BY DEF TypeOK
  <1>2. main' \in Mains BY DEF TypeOK
  <1>3. storage' \in Storages BY DEF TypeOK
  <1>4. server' \in Servers BY ServerQueue DEF TypeOK, Servers
  <1>5. TypeOK' BY <1>1, <1>2, <1>3, <1>4 DEF TypeOK, NoThreads
  <1>6. TriesInv' BY <1>2 DEF TriesInv
  <1>7. ServerInv' BY <1>2, ServerQueue DEF TypeOK, Servers, ServerInv
  <1>8. Serves' => Fits' BY <1>2 DEF Serves, Fits, ServerInv, NoServer, NoStorage
  <1> QED BY <1>5, <1>6, <1>7, <1>8

LEMMA FailReceiveStep ==
  ASSUME DaemonInv, FailReceive
  PROVE  DaemonInv'
  <1> USE DEF DaemonInv, FailReceive, MainOnly
  <1>1. disk' \in Disks BY DEF TypeOK
  <1>2. main' \in Mains /\ main'.tries = main.tries /\ main'.pc \in {"exit"}
    BY GotoKeeps DEF TypeOK, Places
  <1>3. storage' \in Storages BY DEF TypeOK
  <1>4. server' \in Servers BY DEF TypeOK
  <1>5. TypeOK' BY <1>1, <1>2, <1>3, <1>4 DEF TypeOK, NoThreads
  <1>6. TriesInv' BY <1>2 DEF TriesInv
  <1>7. ServerInv' BY <1>2 DEF ServerInv
  <1>8. Serves' => Fits' BY <1>2 DEF Serves, Fits, ServerInv, NoServer, NoStorage
  <1> QED BY <1>5, <1>6, <1>7, <1>8

LEMMA StopListeningStep ==
  ASSUME DaemonInv, StopListening
  PROVE  DaemonInv'
  <1> USE DEF DaemonInv, StopListening, MainOnly
  <1>1. disk' \in Disks BY DEF TypeOK
  <1>2. main' \in Mains /\ main'.tries = main.tries /\ main'.pc \in {"exit"}
    BY GotoKeeps DEF TypeOK, Places
  <1>3. storage' \in Storages BY DEF TypeOK
  <1>4. server' \in Servers BY DEF TypeOK
  <1>5. TypeOK' BY <1>1, <1>2, <1>3, <1>4 DEF TypeOK, NoThreads
  <1>6. TriesInv' BY <1>2 DEF TriesInv
  <1>7. ServerInv' BY <1>2 DEF ServerInv
  <1>8. Serves' => Fits' BY <1>2 DEF Serves, Fits, ServerInv, NoServer, NoStorage
  <1> QED BY <1>5, <1>6, <1>7, <1>8

LEMMA WorkerStepKeeps ==
  ASSUME DaemonInv, NEW w \in Workers, WorkerStep(w)
  PROVE  DaemonInv'
  <1> USE DEF DaemonInv, WorkerStep, MainOnly
  <1>1. disk' \in Disks BY DEF TypeOK
  <1>2. main' \in Mains BY DEF TypeOK
  <1>3. storage' \in Storages BY DEF TypeOK
  <1>4. server' \in Servers BY ServerQueue DEF TypeOK, Servers
  <1>5. TypeOK' BY <1>1, <1>2, <1>3, <1>4 DEF TypeOK, NoThreads
  <1>6. TriesInv' BY <1>2 DEF TriesInv
  <1>7. ServerInv' BY <1>2, ServerQueue DEF TypeOK, Servers, ServerInv
  <1>8. server'.made = server.made BY ServerQueue DEF TypeOK, Servers
  <1>9. Serves' => Fits' BY <1>2, <1>8 DEF Serves, Fits, ServerInv, NoServer, NoStorage
  <1> QED BY <1>5, <1>6, <1>7, <1>9

LEMMA InterruptStep ==
  ASSUME DaemonInv, Interrupt
  PROVE  DaemonInv'
  <1> USE DEF DaemonInv, Interrupt, ShutDown, StopAfterShutDown, MainOnly
  <1>1. disk' \in Disks BY DEF TypeOK
  <1>2. main' \in Mains BY DEF TypeOK
  <1>3. storage' \in Storages BY DEF TypeOK
  <1>4. server' \in Servers BY ServerFlags DEF TypeOK, Servers
  <1>5. TypeOK' BY <1>1, <1>2, <1>3, <1>4 DEF TypeOK, NoThreads
  <1>6. TriesInv' BY <1>2 DEF TriesInv
  <1>7. ServerInv' BY <1>2, ServerFlags DEF TypeOK, ServerInv
  <1>8. Serves' => Fits' BY <1>2 DEF Serves, Fits, ServerInv, NoServer, NoStorage
  <1> QED BY <1>5, <1>6, <1>7, <1>8

LEMMA CatchStep ==
  ASSUME DaemonInv, Catch
  PROVE  DaemonInv'
  <1> USE DEF DaemonInv, Catch, ShutDown, StopAfterShutDown, MainOnly
  <1>1. disk' \in Disks BY DEF TypeOK
  <1>2. main' \in Mains /\ main'.tries = main.tries /\ main'.pc \in {"exit"}
    BY GotoKeeps DEF TypeOK, Places
  <1>3. storage' \in Storages BY DEF TypeOK
  <1>4. server' \in Servers BY ServerFlags DEF TypeOK, Servers
  <1>5. TypeOK' BY <1>1, <1>2, <1>3, <1>4 DEF TypeOK, NoThreads
  <1>6. TriesInv' BY <1>2 DEF TriesInv
  <1>7. ServerInv' BY <1>2, ServerFlags DEF TypeOK, ServerInv
  <1>8. Serves' => Fits' BY <1>2 DEF Serves, Fits, ServerInv, NoServer, NoStorage
  <1> QED BY <1>5, <1>6, <1>7, <1>8

LEMMA ExitStep ==
  ASSUME DaemonInv, Exit
  PROVE  DaemonInv'
  <1> USE DEF DaemonInv, Exit, MainOnly
  <1>1. disk' \in Disks BY DEF TypeOK
  <1>2. main' \in Mains /\ main'.tries = main.tries /\ main'.pc \in {"join"}
    BY GotoKeeps DEF TypeOK, Places
  <1>3. storage' \in Storages BY Nothing
  <1>4. server' \in Servers BY DEF TypeOK
  <1>5. TypeOK' BY <1>1, <1>2, <1>3, <1>4 DEF TypeOK, NoThreads
  <1>6. TriesInv' BY <1>2 DEF TriesInv
  <1>7. ServerInv' BY <1>2 DEF ServerInv
  <1>8. Serves' => Fits' BY <1>2 DEF Serves, Fits, ServerInv, NoServer, NoStorage
  <1> QED BY <1>5, <1>6, <1>7, <1>8

LEMMA JoinStep ==
  ASSUME DaemonInv, Join
  PROVE  DaemonInv'
  <1> USE DEF DaemonInv, Join, MainOnly
  <1>1. disk' \in Disks BY DEF TypeOK
  <1>2. main' \in Mains /\ main'.tries = main.tries /\ main'.pc \in {"ended"}
    BY GotoKeeps DEF TypeOK, Places
  <1>3. storage' \in Storages BY DEF TypeOK
  <1>4. server' \in Servers BY Nothing
  <1>5. TypeOK' BY <1>1, <1>2, <1>3, <1>4 DEF TypeOK, NoThreads
  <1>6. TriesInv' BY <1>2 DEF TriesInv
  <1>7. ServerInv' BY DEF ServerInv, NoServer
  <1>8. Serves' => Fits' BY <1>2 DEF Serves, Fits, ServerInv, NoServer, NoStorage
  <1> QED BY <1>5, <1>6, <1>7, <1>8

LEMMA CrashStep ==
  ASSUME DaemonInv, Crash
  PROVE  DaemonInv'
  <1> USE DEF DaemonInv, Crash, MainOnly
  <1>1. disk' \in Disks BY DEF TypeOK
  <1>2. main' \in Mains /\ main'.tries = main.tries /\ main'.pc \in {"ended"}
    BY GotoKeeps DEF TypeOK, Places
  <1>3. storage' \in Storages BY Nothing
  <1>4. server' \in Servers BY Nothing
  <1>5. TypeOK' BY <1>1, <1>2, <1>3, <1>4 DEF TypeOK, NoThreads
  <1>6. TriesInv' BY <1>2 DEF TriesInv
  <1>7. ServerInv' BY DEF ServerInv, NoServer
  <1>8. Serves' => Fits' BY <1>2 DEF Serves, Fits, ServerInv, NoServer, NoStorage
  <1> QED BY <1>5, <1>6, <1>7, <1>8

LEMMA RestartStep == ASSUME DaemonInv, Restart PROVE DaemonInv'
  <1> USE DEF DaemonInv, Restart
  <1>1. disk' \in Disks
    <2>1. PICK complete \in BOOLEAN : disk' = [disk EXCEPT !.complete = complete] OBVIOUS
    <2> QED BY <2>1, DiskFlags DEF TypeOK
  <1>2. main' \in Mains BY DEF Mains, Places, Keys
  <1>3. starts' \in 1..MaxStarts BY DaemonAssumption DEF TypeOK
  <1>4. TypeOK' BY <1>1, <1>2, <1>3 DEF TypeOK
  <1>5. TriesInv' BY DEF TriesInv
  <1>6. ~server.made BY DEF ServerInv
  <1>7. ServerInv' /\ ~Serves' BY <1>6 DEF ServerInv, Serves
  <1> QED BY <1>4, <1>5, <1>7

\* A login that fails leaves the thread before the server; one that succeeds leaves the key
\* of the storage in all places.
LEMMA LoginStep == ASSUME DaemonInv, Login PROVE DaemonInv'
  <1> USE DEF DaemonInv, Login, MainOnly
  <1> DEFINE psw == main.typed
  <1>1. psw \in Keys /\ main.pc = "login" /\ main.tries \in 0..2
    BY DEF TypeOK, TriesInv, Mains
  <1>2. WithKey(psw) \in Storages BY <1>1, StorageKeys, Status DEF TypeOK, WithKey, PoolAfterSet
  <1>3. storage' \in Storages
    <2>1. [WithKey(psw) EXCEPT !.status = "Open"] \in Storages BY <1>2, StorageStatus
    <2>2. [WithKey(psw) EXCEPT !.status = "Open", !.text = psw] \in Storages
      BY <1>1, <1>2, StorageKeys
    <2> QED BY <1>2, <2>1, <2>2 DEF TypeOK
  <1>4. FailLogin => /\ main' \in Mains
                     /\ main'.pc \in {"error", "password"}
                     /\ main'.tries = 3 => main'.pc = "error"
    <2> SUFFICES ASSUME FailLogin PROVE /\ main' \in Mains
                                        /\ main'.pc \in {"error", "password"}
                                        /\ main'.tries = 3 => main'.pc = "error"
      OBVIOUS
    <2>1. CASE IsInit
      <3>1. main' = [main EXCEPT !.pc = "error"] BY <2>1 DEF FailLogin
      <3> QED BY <1>1, <3>1, GotoKeeps DEF TypeOK, Goto, Places
    <2>2. CASE ~IsInit
      <3> DEFINE n == main.tries + 1
      <3>1. main' = [main EXCEPT !.tries = n, !.pc = IF n = 3 THEN "error" ELSE "password"]
        BY <2>2 DEF FailLogin, Counted, IsLastTry
      <3>2. n \in 0..3 BY <1>1
      <3> QED BY <3>1, <3>2, TriesKeeps DEF TypeOK, Places
    <2> QED BY <2>1, <2>2
  <1>5. Goto("config") => main' \in Mains /\ main'.pc = "config" /\ main'.tries = main.tries
    BY GotoKeeps DEF TypeOK, Places
  <1>6. TypeOK' BY <1>3, <1>4, <1>5 DEF TypeOK
  <1>7. TriesInv' BY <1>1, <1>4, <1>5 DEF TriesInv
  <1>8. ~server.made BY <1>1 DEF ServerInv
  <1>9. ServerInv' BY <1>8 DEF ServerInv
  <1>10. Serves' => Fits'
    <2> SUFFICES ASSUME Serves' PROVE Fits' OBVIOUS
    <2>1. main'.pc \in {"config", "make"} BY <1>8 DEF Serves
    <2>2. /\ psw # None /\ disk.config = psw /\ disk' = disk
          /\ storage' = [WithKey(psw) EXCEPT !.status = "Open", !.text = psw]
      BY <1>4, <2>1 DEF KeyFits
    <2>3. psw \in Passwords BY <1>1, <2>2 DEF Keys
    <2> QED BY <2>2, <2>3, <1>2 DEF Fits, WithKey, PoolAfterSet, TypeOK, Storages
  <1> QED BY <1>6, <1>7, <1>9, <1>10

\* So every step does.
LEMMA DaemonStep == DaemonInv /\ [Next]_vars => DaemonInv'
  <1> SUFFICES ASSUME DaemonInv, [Next]_vars PROVE DaemonInv' OBVIOUS
  <1>1. CASE Console BY <1>1, DeclineStep, ConfirmStep, EnterPasswordStep DEF Console
  <1>2. CASE MainStep
    BY <1>2, SetRootStep, CleanRootStep, CreateConfigStep, WriteConfigStep, LoginStep,
       ReadConfigStep, MakeServerStep, StartThreadsStep, BindStep, StopListeningStep,
       CatchStep, ExitStep, JoinStep DEF MainStep
  <1>3. CASE Receive \/ FailReceive BY <1>3, ReceiveStep, FailReceiveStep
  <1>4. CASE \E w \in Workers : WorkerStep(w) BY <1>4, WorkerStepKeeps
  <1>5. CASE Interrupt \/ Crash \/ Restart BY <1>5, InterruptStep, CrashStep, RestartStep
  <1>6. CASE UNCHANGED vars
    BY <1>6 DEF vars, DaemonInv, TypeOK, TriesInv, ServerInv, Serves, Fits
  <1> QED BY <1>1, <1>2, <1>3, <1>4, <1>5, <1>6 DEF Next

\* Everything the other theorems need.
THEOREM DaemonCorrect == Spec => []DaemonInv
  BY DaemonInit, DaemonStep, PTL DEF Spec

\* The daemon's state keeps its type; in particular a fourth try never happens.
THEOREM DaemonTypeCorrect == Spec => []TypeOK
  <1>1. DaemonInv => TypeOK BY DEF DaemonInv
  <1> QED BY <1>1, DaemonCorrect, PTL

\* A storage that is served has one key, that of its config file, in all coders.
THEOREM ServedRight == Spec => []ServedWithItsKey
  <1>1. DaemonInv => ServedWithItsKey BY DEF DaemonInv, ServedWithItsKey, Fits
  <1> QED BY <1>1, DaemonCorrect, PTL
=============================================================================
