-------------------------------- MODULE Daemon --------------------------------
(***************************************************************************)
(* The life of the process zsd (zsd.cpp, Daemon.cpp): the storage is       *)
(* found, made or opened with a password from the console, the server is   *)
(* started, Ctrl-C stops it, the destructors free what the workers use     *)
(* (CStorage::SetRoot, Init, Login; the ends of CUdpServer).  The process  *)
(* may crash anywhere and be started again on what is on the disk.         *)
(*                                                                         *)
(* UdpServer has the queue and the steps of a shutdown in detail.          *)
(***************************************************************************)
EXTENDS Naturals

CONSTANTS
  Passwords, Workers,
  MaxQueued,     \* bound: requests in the queue
  MaxStarts,     \* bound: starts of the process
  None           \* nothing: no config file, an empty password, a key not set

ASSUME DaemonAssumption ==
  /\ None \notin Passwords /\ "torn" \notin Passwords
  /\ MaxQueued \in Nat
  /\ MaxStarts \in Nat \ {0}

VARIABLES
  disk,         \* root (the folder is there), other (a file in it that is not ours),
                \* config: None, "torn", or the password its key was made with,
                \* complete (it has all values: the operator may edit it)
  main,         \* the thread of main(): pc, nTries, and the password it has read
  storage,      \* m_pStorage: made, m_Status, and the keys of m_Coder, of the pool of
                \* coders, and of the texts made by CAccount::SetPsw
  server,       \* m_pUdpServer: made, its m_bShutDown, and how many requests are queued
  worker,       \* the threads of the server
  m_bShutDown,
  sigint,       \* history: "no", "early" (there was no server yet), "late"
  starts        \* of the process

vars == <<disk, main, storage, server, worker, m_bShutDown, sigint, starts>>

NoStorage == [made |-> FALSE, status |-> "Unknown", coder |-> None, pool |-> None, text |-> None]
NoServer == [made |-> FALSE, stop |-> FALSE, queued |-> 0]
NoThreads == [w \in Workers |-> "none"]

Init ==
  /\ disk \in [root : BOOLEAN, other : BOOLEAN, config : {None}, complete : {TRUE}]
  /\ disk.other => disk.root
  /\ main = [pc |-> "start", tries |-> 0, typed |-> None]
  /\ storage = NoStorage
  /\ server = NoServer
  /\ worker = NoThreads
  /\ m_bShutDown = FALSE
  /\ sigint = "no"
  /\ starts = 1

Goto(pc) == main' = [main EXCEPT !.pc = pc]
MainOnly == UNCHANGED <<server, worker, m_bShutDown, sigint, starts>>

-----------------------------------------------------------------------------
(* The storage *)

\* CStorage::SetRoot.
StatusOf(d) == IF d.root /\ d.config # None THEN "ReadyToOpen" ELSE "NotInit"

SetRoot ==
  /\ main.pc = "start"
  /\ storage' = [NoStorage EXCEPT !.made = TRUE, !.status = StatusOf(disk)]
  /\ Goto(IF StatusOf(disk) = "ReadyToOpen" THEN "password" ELSE "ask")
  /\ MainOnly /\ UNCHANGED disk

\* The operator declines, fails to confirm the password, or the folder cannot be made.
Decline ==
  /\ main.pc = "ask"
  /\ Goto("error")
  /\ MainOnly /\ UNCHANGED <<disk, storage>>

\* DealWithUser: the operator wants a new storage.
Confirm ==
  /\ main.pc = "ask"
  /\ \E psw \in Passwords : main' = [main EXCEPT !.pc = "init", !.typed = psw]
  /\ disk' = [disk EXCEPT !.root = TRUE]
  /\ MainOnly /\ UNCHANGED storage

\* CStorage::Init looks whether the folder has files ...
IsRepoEmpty == ~disk.other /\ disk.config = None

CleanRoot ==
  /\ main.pc = "init"
  /\ IF IsRepoEmpty \/ storage.status = "Open"
     THEN /\ disk' = [disk EXCEPT !.other = FALSE, !.config = None]
          /\ storage' = [storage EXCEPT !.coder = main.typed]
          /\ Goto("create")
     ELSE Goto("error") /\ UNCHANGED <<disk, storage>>
  /\ MainOnly

\* ... and makes the config file, which is open and empty before it has its text.
CreateConfig ==
  /\ main.pc = "create"
  /\ disk' = [disk EXCEPT !.config = "torn"]
  /\ Goto("write")
  /\ MainOnly /\ UNCHANGED storage

WriteConfig ==
  /\ main.pc = "write"
  /\ disk' = [disk EXCEPT !.config = main.typed, !.complete = TRUE]
  /\ Goto("login")
  /\ MainOnly /\ UNCHANGED storage

EnterPassword ==
  /\ main.pc = "password"
  /\ \E psw \in Passwords \cup {None} :
       main' = [main EXCEPT !.pc = IF m_bShutDown THEN "exit" ELSE "login", !.typed = psw]
  /\ MainOnly /\ UNCHANGED <<disk, storage>>

\* Login decrypts the key of the repository and compares it with its id.
KeyFits(psw) == disk.config = psw

\* The key goes into the coders before it is tested.
PoolAfterSet_Kept(psw) == IF storage.pool = None THEN psw ELSE storage.pool
PoolAfterSet(psw) == psw
WithKey(psw) == [storage EXCEPT !.coder = psw, !.pool = PoolAfterSet(psw),
                                !.status = StatusOf(disk)]

Counted_Not(n) == n
Counted(n) == n + 1
IsLastTry(n) == n = 3

\* Init was called: its exception ends Run().  Otherwise the console is asked again.
IsInit == storage.status = "NotInit"
FailLogin ==
  main' = IF IsInit THEN [main EXCEPT !.pc = "error"]
          ELSE LET n == Counted(main.tries)
               IN  [main EXCEPT !.tries = n, !.pc = IF IsLastTry(n) THEN "error" ELSE "password"]

Login ==
  /\ main.pc = "login"
  /\ \/ /\ main.typed = None
        /\ FailLogin
        /\ UNCHANGED storage
     \/ /\ main.typed # None /\ ~KeyFits(main.typed)
        /\ storage' = WithKey(main.typed)
        /\ FailLogin
     \/ /\ main.typed # None /\ KeyFits(main.typed)
        /\ \/ /\ storage' = [WithKey(main.typed) EXCEPT !.status = "Open", !.text = main.typed]
              /\ Goto("config")
           \/ /\ ~disk.complete
              /\ storage' = [WithKey(main.typed) EXCEPT !.status = "Open"]
              /\ FailLogin
  /\ MainOnly /\ UNCHANGED disk

-----------------------------------------------------------------------------
(* The server *)

ReadConfig ==
  /\ main.pc = "config"
  /\ \/ Goto("make")
     \/ ~disk.complete /\ Goto("error")
  /\ MainOnly /\ UNCHANGED <<disk, storage>>

MakeServer ==
  /\ main.pc = "make"
  /\ server' = [NoServer EXCEPT !.made = TRUE]
  /\ Goto("run")
  /\ UNCHANGED <<disk, storage, worker, m_bShutDown, sigint, starts>>

StartThreads ==
  /\ main.pc = "run"
  /\ worker' = [w \in Workers |-> "wait"]
  /\ Goto("bind")
  /\ UNCHANGED <<disk, storage, server, m_bShutDown, sigint, starts>>

\* The port may be in use.
Bind ==
  /\ main.pc = "bind"
  /\ Goto("serve") \/ Goto("error")
  /\ MainOnly /\ UNCHANGED <<disk, storage>>

Receive ==
  /\ main.pc = "serve"
  /\ ~server.stop
  /\ server.queued < MaxQueued
  /\ server' = [server EXCEPT !.queued = @ + 1]
  /\ UNCHANGED <<disk, main, storage, worker, m_bShutDown, sigint, starts>>

FailReceive ==
  /\ main.pc = "serve"
  /\ Goto("exit")
  /\ MainOnly /\ UNCHANGED <<disk, storage>>

StopListening ==
  /\ main.pc = "serve"
  /\ server.stop
  /\ Goto("exit")
  /\ MainOnly /\ UNCHANGED <<disk, storage>>

\* A worker tests the flag when it wakes, and not again while there are requests.
WorkerStep(w) ==
  /\ \/ /\ worker[w] = "wait" /\ server.stop
        /\ worker' = [worker EXCEPT ![w] = "ended"]
        /\ UNCHANGED server
     \/ /\ \/ worker[w] = "wait" /\ ~server.stop
           \/ worker[w] = "work"
        /\ server.queued > 0
        /\ worker' = [worker EXCEPT ![w] = "work"]
        /\ server' = [server EXCEPT !.queued = @ - 1]
     \/ /\ worker[w] = "work" /\ server.queued = 0
        /\ worker' = [worker EXCEPT ![w] = "wait"]
        /\ UNCHANGED server
  /\ UNCHANGED <<disk, main, storage, m_bShutDown, sigint, starts>>

-----------------------------------------------------------------------------
(* The end *)

\* CDaemon::ShutDown.
StopAfterShutDown_Not == server.stop
StopAfterShutDown == server.made
ShutDown ==
  /\ m_bShutDown' = TRUE
  /\ server' = [server EXCEPT !.stop = StopAfterShutDown]

\* Ctrl-C, in whatever thread it arrives; once in the life of a process.
Interrupt ==
  /\ main.pc \notin {"join", "ended"}
  /\ sigint = "no"
  /\ sigint' = IF server.made THEN "late" ELSE "early"
  /\ ShutDown
  /\ UNCHANGED <<disk, main, storage, worker, starts>>

\* main() catches what Run() throws.
Catch ==
  /\ main.pc = "error"
  /\ ShutDown
  /\ Goto("exit")
  /\ UNCHANGED <<disk, storage, worker, sigint, starts>>

\* main() returns, and ~CDaemon frees the storage ...
Exit ==
  /\ main.pc = "exit"
  /\ storage' = NoStorage
  /\ Goto("join")
  /\ MainOnly /\ UNCHANGED disk

\* ... and the server, which waits for its threads, 50 seconds at most.
Join ==
  /\ main.pc = "join"
  /\ worker' = NoThreads
  /\ server' = NoServer
  /\ Goto("ended")
  /\ UNCHANGED <<disk, storage, m_bShutDown, sigint, starts>>

Crash ==
  /\ main.pc # "ended"
  /\ Goto("ended")
  /\ storage' = NoStorage
  /\ worker' = NoThreads
  /\ server' = NoServer
  /\ UNCHANGED <<disk, m_bShutDown, sigint, starts>>

\* The operator starts it again, perhaps with a config file that lacks a value.
Restart ==
  /\ main.pc = "ended"
  /\ starts < MaxStarts
  /\ starts' = starts + 1
  /\ \E complete \in BOOLEAN : disk' = [disk EXCEPT !.complete = complete]
  /\ main' = [pc |-> "start", tries |-> 0, typed |-> None]
  /\ m_bShutDown' = FALSE
  /\ sigint' = "no"
  /\ UNCHANGED <<storage, server, worker>>

Console == Decline \/ Confirm \/ EnterPassword

MainStep ==
  \/ SetRoot \/ CleanRoot \/ CreateConfig \/ WriteConfig \/ Login \/ ReadConfig
  \/ MakeServer \/ StartThreads \/ Bind \/ StopListening \/ Catch \/ Exit \/ Join

Next ==
  \/ Console \/ MainStep
  \/ Receive \/ FailReceive
  \/ \E w \in Workers : WorkerStep(w)
  \/ Interrupt \/ Crash \/ Restart

\* The thread of main() runs, and the operator answers it.
Fairness == WF_vars(MainStep) /\ WF_vars(Console)

Spec == Init /\ [][Next]_vars /\ Fairness

-----------------------------------------------------------------------------
(* Properties *)

Places == {"start", "ask", "init", "create", "write", "password", "login", "config", "make",
           "run", "bind", "serve", "error", "exit", "join", "ended"}
Keys == Passwords \cup {None}
Disks == [root : BOOLEAN, other : BOOLEAN, config : Keys \cup {"torn"}, complete : BOOLEAN]
Mains == [pc : Places, tries : 0..3, typed : Keys]
Storages == [made : BOOLEAN, status : {"Unknown", "ReadyToOpen", "NotInit", "Open"},
             coder : Keys, pool : Keys, text : Keys]
Servers == [made : BOOLEAN, stop : BOOLEAN, queued : 0..MaxQueued]

TypeOK ==
  /\ disk \in Disks
  /\ main \in Mains
  /\ storage \in Storages
  /\ server \in Servers
  /\ worker \in [Workers -> {"none", "wait", "work", "ended"}]
  /\ m_bShutDown \in BOOLEAN
  /\ sigint \in {"no", "early", "late"}
  /\ starts \in 1..MaxStarts

\* A storage that is served is open, and everything in it that ciphers uses the password
\* the storage was made with, whatever passwords were tried before, and however many
\* starts failed or crashed.
Serves == storage.made /\ (server.made \/ main.pc \in {"config", "make"})
ServedWithItsKey ==
  Serves => /\ storage.status = "Open"
            /\ disk.config \in Passwords
            /\ storage.coder = disk.config
            /\ storage.pool = disk.config
            /\ storage.text = disk.config

\* A start comes to an end: a wrong password can be given three times at most.
StartEnds == main.pc = "start" ~> main.pc \in {"serve", "ended"}

\* Ctrl-C stops a server that runs, or is about to.
ServerStops == sigint = "late" ~> main.pc = "ended"

\* UdpServer.cpp:114: the threads end before what they work with is freed.
StorageOutlivesWorkers == \A w \in Workers : worker[w] = "work" => storage.made
=============================================================================
