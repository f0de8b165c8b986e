# Zorge SMS in TLA+

Zorge SMS (`src/`) is a private messaging service: a daemon `zsd` keeps the messages of
phone-like *numbers* in a ciphered folder, and Java clients talk to it over UDP. This folder
holds a formal model of its core, the TLC runs that check it, and TLAPS proofs of part of it.

- `PROJECT.json`: components, runs, mutations that each property detects, the map from every
  definition to the lines it models, hazards of the code, findings, theorems.
- `X.tla`: the model of a component; `MCX.tla` and `MCX*.cfg`: its instances for TLC.
- `X_proofs.tla`: theorems. `Call_proofs` is about `OpenConsCache` and `Call`, `Caches_proofs` about
  `Caches` and `CoderPool`, `Files_proofs` about `Config`, `Repository` and `AccountFiles`, `Client_proofs` about
  `Session` and `ZsClient`, the others about the component they are named after.

```
tlc -workers 2 -config MCStorage.cfg MCStorage
tlapm UdpServer_proofs.tla
```

## 1. The system

### Components

| Component | State it keeps | Operations | Model |
|---|---|---|---|
| Request queue (`zsd/src/UdpServer.cpp`) | `m_vQueue`, `m_bShutDown`, the socket, `m_nMonitorCallsCount` | `Run`, `AddToQueue`, `ProcFunc` of each worker, `ProcMonitorFunc`, `ShutDown` | `UdpServer` |
| Dispatch (`CUdpServer::ProcessRequest`, `GetData`) | the shared coders `m_pCoderAES`, `m_pCoderRSA` | one request: decrypt, look up or store in the reply cache, execute, reply | `Call`, `Session` |
| Reply cache (`zsd/src/OpenConsCache.cpp`) | `m_Map`, `m_pOldestItem`, `m_nExpiredCalled` | `Add`, `Update`, `Find`, `RemoveExpired` | `OpenConsCache` |
| Session keys (`zsd/src/Keys.cpp`) | `m_vKeys` | `GetNextKey`, `GetKey` | `Session` |
| Communication client (`zsc/.../client/ComClient.java`, `ComRequestBuilder.java`) | `seqNum`, `keyId`, the coder, the deadline | `Connect`, `Send`, `SendCmd`, `getServerReply` | `Call`, `Session` |
| Client facade (`ZsClient.java`) | `client`, `openNum`, `openPin` | `connect` with its tries; one method per command | `ZsClient`; the tries of `connect` in `Session` |
| Storage calls (`Core/Storage.cpp`) | `m_Status`, root, caches | `AddNumber`, `DeleteNumber`, `OpenNumber`, `SendMsg`, ...; `SetRoot`, `Init`, `Login` | `Storage`; the last three `Repository`, and `Daemon` as steps of the start |
| Accounts (`Core/Account.cpp`) | `m_strPin`, `m_Config`, `m_strToken`; the config file and the folder `msg.in` | `CheckPin`, `ChangePin`, `NewToken`, `Delete`, ... | `Storage`; with failing writes `AccountFiles` |
| Lock on numbers (`Core/AccountLocker.cpp`) | `m_Map` | `Lock`, `Unlock` | `Storage` |
| Caches (`Core/AccountCache.cpp`, `BlocksCache.cpp`) | items with `m_bLocked`, `m_LockedBy`, `m_LastAccess`; counters | `Find`, `AddAndLock`, `Delete`, `Release`, `ReleaseHandles` | `Storage`, `Caches` |
| Message index (`Core/MsgBlock.cpp`) | header and records in memory; the file `msg.in`; one text file per message | `Add`, `ReadMessage`, `DeleteMessage`, `GetIds`, `GetCount`, `Compress` | `MsgBlock`, `Mailbox`, with `Selection` |
| Pool of coders (`Core/CoderAESPool.cpp`) | items with `m_bLocked`, `m_bFreeOnRelease` | `Get`, `Release`, `Set`, `Clear` | `CoderPool` |
| Configuration (`Core/Config.cpp`) | pairs and comments | `FromString`, `ToString`, `GetValue`, `SetValue`, `SetComment` | `Config`, used by `Repository` and `AccountFiles` |
| Daemon (`zsd/src/Daemon.cpp`, `zsd.cpp`) | `m_pStorage`, `m_pUdpServer`, `m_bShutDown` | `main`, `Run`, `DealWithUser`, `ShutDown`, `CtrlC`, the destructor | `Daemon`; its shutdown in detail in `UdpServer` |
| Strings and buffers (`ZorgeString.cpp`, `MemBuffer.cpp`, `StrUtils.cpp`) | buffer, capacity, length | some 60 operations | `ZorgeString`, `Text`; not `Format`, `MemBuffer`, `StrUtils` |
| Ciphers (`CoderAES/RSA/BF.cpp`) | key, context | calls of OpenSSL | assumed ideal, but for the ids in `Storage` |
| System utilities (`Core/SysUtils.cpp`) | the files | `StringToFile`, `MemToFile`, `FileToMem`, `DeleteFilesTree`, ... | as steps of `Repository`, `AccountFiles`, `Daemon` |
| GUI and terminal clients, storage shell and tests | | | not modelled (section 7) |

### How they interact

A command goes `ZsClient` -> `ComClient.Send` -> datagram -> listener -> `m_vQueue` -> worker ->
`ProcessRequest` -> `CStorage` -> `CAccount` -> `CMsgBlock` -> files; the reply goes back as a
datagram and stays in the reply cache, where the client can ask for it (`GET_REPLY`) when the
datagram is lost. The workers share the queue (under `m_Mutex`), the reply cache, the two caches of
the storage (each under its own mutex), the locker of the numbers, and, under no lock at all,
`m_pCoderAES`, `m_bShutDown`. `ShutDown` runs in the thread that gets SIGINT.

### What is hard, and what makes each part correct

- **Queue**: two workers, spurious wakeups, a shutdown at any moment. Correct when no request is
  lost, doubled or overtaken, when no worker sleeps while one is queued, and when all threads end.
- **Reply cache and client**: datagrams are lost, delayed, doubled, reordered; the client gives up
  waiting while the server still works; sequence numbers wrap. Correct when a call returns its own
  reply or "Time out.", and is not executed more often than it was sent.
- **Session**: one shared coder, keys that change with every run of the server, replies of an
  earlier session. Correct when an answer belongs to the last command and every wait ends.
- **Storage**: calls on the same number at once, items of two caches that may be dropped at any
  moment but not in use, pins and tokens kept in memory and in a file, an id that also a wrong pin
  can decipher. Correct when one call works on a number at a time, when nothing is freed in use, and
  when memory, cache and files agree.
- **Pool of coders**: a coder is given back without the mutex of the pool, and a wrong password goes
  into the pool before it is known to be wrong. Correct when no coder is shared, lost or outdated.
- **Daemon**: passwords are tried, Ctrl-C and crashes come at any moment, the config file is made in
  two steps. Correct when a storage is served with its own key only, a start comes to an end, and
  Ctrl-C ends a server.
- **Files of a number**: a config file that is emptied and then rewritten, and a folder, with writes,
  deletions and the process itself failing in between. Correct when a number opens with the last pin
  that was confirmed or one asked for since, and when its next owner finds no old mail.
- **Repository**: its config file is written by the program and edited by hand, and a login sets
  four copies of the password one after the other. Correct when an open storage has one key, and a
  spoilt line costs no other parameter.
- **Client facade**: the open number and its pin are remembered, while the connection, the pin on the
  server and other clients move on. Correct when a call is refused only if the pin was really changed.
- **String**: everything above is written with it. Correct when the bytes of its buffer, whatever
  its history, are the text that its callers think it is.
- **Message index**: the file is written in place, at computed offsets, and can be dropped from
  memory and read again, or cut short by a crash. Correct when it behaves like an inbox as long as
  its records are right in memory or in the file, and loses them in no way that is not known.

## 2. The modules

Conventions: a name of the code is kept where TLA+ allows it. A step is what no other thread can
see the middle of: a section under a mutex, a system call, or a stretch of work on data that only
this thread has. `Foo_Bar` next to `Foo` is `Foo` with a plausible error: it is used nowhere in the
model and serves to show that a property would notice (`mutants` in `PROJECT.json`).

**`UdpServer`**. Variables are the queue, the flag, the socket and the place of each thread. The
actions follow `Run` (`Receive`, `FailReceive`, `StopListening`), `AddToQueue`, `ProcFunc`
(`WaitForRequest`, `WakeSpuriously`, `TestShutDown`, `Take`, `EndDrain`, `Process`),
`ProcMonitorFunc` (`Report`, `StopMonitor`) and `ShutDown`, in three steps because it holds no lock
(`SetFlag`, `CloseSocket`, `BroadcastShutDown`). History variables record what arrived and was taken.

**`OpenConsCache`**. `Add`, `Update` and `Find` with `RemoveExpired` and the pointer
`m_pOldestItem` as the code computes it (the last item of the map, not the oldest). The clock does
not go back. The map orders clients as numbers.

**`Call`** extends `OpenConsCache` with the Java client, the network, the queue and the workers: the
course of one command from `Send` to its reply. The unit of time is `timeOutSec`, which the user sets
(`DlgConfig.java:86`), so that `TTL` stands for the 60 s of the cache counted in it; nothing is
assumed of how the two compare. `seqNumStep` is 1.
A worker's work on a request is four steps (`Take`, `AddCall`, `Execute`, `ReplyToCall`), because
the mutexes are free in between. `receive()` comes back by its time-out and the client goes on at
once: the clock does not pass the end of a wait (`Wait`), and a client between two waits is late by
less than a unit.

**`Session`**: HANDSHAKE, CONNECT and the commands after it, restarts of the server, and the shared
coder (`BeginConnect` puts a key into it, `EndConnect` encrypts with what it holds by then).
Ciphers are ideal, and what `GetData` makes of a request under the key of an earlier run is noise: it
is dropped, as most noise is, or answered with an error under the new key, when it holds one of the
valid command ids (18 of 65536 values) or a length for which there is no memory
(`UdpServer.cpp:603-613`, `:943-967`); `zsd.cpp:96` describes the second. That noise has the very
sequence number its client waits for, or is a command that succeeds, is left out. The question for a
late reply is left to `Call`: a command that is not answered ends with "Time out.".

**`Storage`**: every call of an open storage by every worker. A call locks its number, finds its
account (in the cache, or loaded from its file), works, and leaves through the guards, also after
an exception (`RefusePin` -> `Unlock`). `SendMsg` does this twice, for the sender and for the
receiver. Both caches may drop any item that nobody has locked. `CheckPin` deciphers the id of the
config file and compares the result with nothing (`Account.cpp:199-206`), so that a wrong pin passes
whenever the padding fits (`CoderAES.cpp:414`, about one in 256), and then is the pin in memory. A
ciphered id is therefore the set of the pins that decipher it (`EncryptedIds`): the one it was made
with, and any others. (`if(!DecryptFromHexChars(...))` also takes the codes -1, -2 and `CODER_ERROR`
for success; they come from a lack of memory or an id of odd length, which this code does not write,
and are not modelled.) Writes do not fail and the process does not stop. The pin or token of a
request is forgotten when it was looked at, which joins states that do not differ for the code.

**`Caches`** says what `Storage` leaves open: when the caches drop what. It counts deletions,
additions and open files as the code does. Which blocks lose their handles is open, because the
code makes it so: the loop that collects them sets the time of access of each (`BlocksCache.cpp:311`),
and the sort that follows compares equal times. That `CAccountCache::GetAccount` sets the time of
access once more is left out: the item is locked then, and gets its time from the lock.

**`MsgBlock`**: one block with its file. A record is `RecLen` cells, status first, and the file is
a sequence of cells, so that a write at a wrong offset does what it does on disk. `Heap` is what
fresh memory may hold; ids are 32 characters (`MsgBlock.h:27`), so that none is a mark (`IdsAssumption`).
What `Compress` leaves (`Kept`) and the rows of a list are given by the places they are taken from
(`Selection`), which can be reasoned about where `SelectSeq` cannot. The header's counters wrap at `Wrap`. The 80 percent test, made in floating
point by the code, is exact for the sizes that occur (at most 1024). With `Crashes` a call may stop
after any of its writes. After a write outside the buffer (`Overrun`) the program has no defined
behaviour and the model stops. A purge of a text may fail, which `DeleteMessage` does not report.
Calls, drops and crashes come in any order, as they do in the code. Three of the things the code does
in ordinary use lose records (section 6), and the model does them too. The history variable `trust`
says where the records are as the calls left them: `both`, in the buffer and in the file; `buffer`,
after a first read or a compression, which leave the file different; `neither`, once such a block is
dropped, a message is added to records that are not loaded, or the process stops within a call. It
never comes back from `neither`. The properties say what holds at each of the three.

**`Mailbox`** is what the index promises: an inbox of at most `MaxCount` messages as long as `trust` is not
`neither`; which steps take it from one value to the next (`FileBehind` only at a first read, a
deletion or an addition; `DropUnwritten`, `Crash`, `DeliverBlind` and nothing else lose the inbox); and
what each answer still means when it is lost (`LostCalls`: a message shown is in the inbox as read,
a full list is what is there). `MsgBlock` implements it (`ImplementsMailbox`), for any order of its
steps, under the refinement `inbox <- Rows(View, FALSE)`, `atHand <- block.cap # 0`: the rows that
`GetIds` would return, and whether the records are in memory.

**`CoderPool`**: `Get` (`GetFree` takes the first item that is not locked, `GetNew` makes one, which
the pool keeps only while it has room) and `Set` with `Clear`, under the mutex of the pool; `Release`
by the guard, under none, which writes the item of its holder only. `holds` is the guards on the
stacks of the threads. No function of the storage has two guards at once, and `Set` is called by
`Login` only, before there is a server.

**`Daemon`**: the thread of `main()` goes through the places `start` (`SetRoot`), `ask` (the dialogue
of `DealWithUser`), `init`, `create`, `write` (`CStorage::Init` with the two states of the config file
that a crash can leave), `password`, `login`, `config`, `make`, `run`, `bind`, `serve`, `error` (what
`main()` catches), `exit` and `join` (the destructor of `CDaemon`), `ended`. Of the storage it keeps
the status and the password in each of its three places: `m_Coder`, the pool, and the texts made by
`CAccount::SetPsw`. A key is known by its password; a config file by the password it was made with.
The workers have three places, enough to see what they still do when the process ends. A Ctrl-C
comes once in the life of a process.

**`Config`**: a text is a sequence of lines, a line is what the parser tells apart; `FromString`,
`IntoString` (`ToString`), `GetValue`, `SetValue` and `SetComment` are functions on it, with their
limits of length, the first of several equal names, and comments that belong to the pair after them.
It has no variables; two modules below carry its texts through files.

**`Repository`**: `SetRoot` (a new process), `Init` and `Login` with the lines of `<root>/config`, and
the operator who replaces, inserts or deletes a line between two calls. `storage` keeps the status and
whose password each of `m_Coder`, `m_strKey`, `m_arLetter` and the ciphered file names was made with,
because `Login` sets them one after the other and can throw in between.

**`AccountFiles`**: one number on disk, `AddNumber` in its two steps, `ChangePin`, `StoreToken`,
`FindAccount`, `Delete` in its two steps, with a fault possible at each write, folder and deletion: the
file stays, is empty, ends early without the program noticing (`MemToFile` takes a short write for a
whole one) or the process ends. `acked` and `tried` remember what callers were told and what was
asked for and failed.

**`ZsClient`**: the methods of the Java facade over servers reduced to the pin of each number, which
other clients change as well. A command whose answer is lost was executed and throws. `stale`
records why the pin on the server may differ from `openPin`.

**`Text`** and **`ZorgeString`**: `Text` is what callers may rely on, a sequence of characters that
changes and answers questions (`Left`, `Find`, `Compare`, `Split`, ...) as the comments on the operations
say. The questions whose answer contradicts its comment are left out on both sides and listed in
section 6. `ZorgeString` keeps the buffer
with every byte, `m_nUsed` and `m_nAllocStep`, and repeats what the code does to them; bytes never
written are marked (`OldByte`), and a text without its zero byte runs into one. It implements `Text`
(`ImplementsText`) under `text <- Chars0(str), answers <- Observed`.

## 3. The runs

| Run | Instance | What it shows |
|---|---|---|
| `udp_server` | 2 workers, 3 requests, bound 1 | no request lost, doubled or overtaken; no sleeping worker while one is queued; the bound is exceeded by one at most; the monitor's count is exact; a queued request is processed; the listener ends |
| `udp_server_stop` | the same | **violated**: a worker can miss the broadcast of `ShutDown` |
| `call` | 1 client, 2 calls, 2 attempts, 1 duplicate, numbers wrap | a call returns the reply of its own execution; executions are bounded by attempts and duplicates; the item of a call expires under it only where the client's patience reaches TTL; every call ends |
| `shared`, reply cache | 3 clients, TTL 2, 5 units of time | nothing young is thrown away, nothing lives for twice TTL, `m_pOldestItem` never dangles |
| `shared`, caches | 2 workers, 5 numbers, limits 4, 2 and 1 | what a worker holds is not dropped, the count of open files is exact, the oldest accounts go first |
| `shared`, pool | 5 threads, 2 passwords, size 3 | no coder shared, lost or of an old password |
| `session` | 1 client, 2 connects, 2 commands, 1 restart | answers belong to the last command and session; a client of one session can read what comes until the server is started again; every wait ends |
| `session_coder` | 2 clients, 2 workers | **violated**: the shared coder encrypts for the wrong client |
| `storage` | 2 workers, 2 numbers, 2 pins, 1 token | one call per number, no item freed in use, caches and files agree, the pin check follows the file, no deadlock |
| `msg_block` | 3 ids, 2 places, a step of 1, records of 2 cells, counters modulo 4, fresh memory of one kind | any calls and drops: the index is an inbox, the counters are exact and the file agrees, each as long as `trust` has it; only one kind of call overruns the buffer |
| `parts`, message block | 2 ids, 2 places, crashes, counters modulo 3 | a deleted message is read again only after two failures |
| `parts`, repository | 2 passwords, 4 parameters, 1 edit by hand | an open storage has one key; a line spoilt by hand costs its own parameter only |
| `parts`, account files | 2 pins, 2 tokens, 2 owners, 2 drops, 2 faults | a number opens with what was confirmed or asked for since; a new owner finds no old mail |
| `parts`, client facade | 2 servers, 2 numbers, 2 pins | commands go to the server that opened the number and are refused only after a change of pin |
| `parts`, string | 2 characters and what their case makes of them, texts to 3, arguments to 2, buffers in units of 2 | the buffer implements the text |
| `daemon` | 2 passwords, 2 workers, 3 starts | served only with its own key; every start ends or serves; Ctrl-C ends a server |
| `daemon_end` | the same | **violated**: the storage is freed under a worker |
| `msg_block_read` | 3 ids, 3 places | **violated**: the first read of a message marks its neighbour in the file |

`shared` is one run of three structures that do not call each other (`MCShared`): only one of them
leaves its initial state in a behaviour, so that TLC explores the sum of their states and not the
product. `parts` does the same (`MCParts`) for five parts that one thread works in at a time.

### Bounds, and why they are enough

- *Two workers.* Every conflict in the code is between two threads (one that holds a lock or an
  item, one that wants it); a third repeats the part of the second. For the queue the theorems of
  section 5 hold for any number.
- *Queue of 1 with 3 requests*: the bound is reached and exceeded, with a worker at each place.
- *Time*: `MaxTime` leaves room for an item to be stored, expire and be removed twice (`shared`)
  and for a call to use all its attempts (`call`). The client's patience is
  `maxResendTimes * timeOutSec`, 15 s per attempt with the default of 5 s, against the 60 s of the
  cache. The instance has the client give up before TTL, so that `AskedIsKept` has something to say; a
  user who sets 20 s or more has a client that asks for items that are gone, and is told so by the
  property itself (`TTL <= maxResendTimes * timeOut`).
- *The guard `Bound` of `call`*: two calls and the duplicate until the clock shows 5, after that only
  a first call without a duplicate, which is what the end of a call needs. A behaviour that
  stops there with the client's steps enabled is not fair, so that the bound cannot satisfy or violate `CallEnds`.
- *One client in `call` and `session`*: clients share the map of the reply cache only by key
  (`shared` has three) and the network by address. `session_coder` needs two, and has them.
- *Sequence numbers modulo 8, starting at 6*: the wrap and the number 0 are passed.
- *Two numbers* in `storage`: the sender and the receiver, or the number deleted and the one evicted.
  Five in `shared`, so that a deletion leaves four, the limit, and a third of them can go.
- *Five threads* on a pool of three (`shared`): the pool is full, two coders are of one call only.
- *Three starts, two passwords*: a start that crashes half way through the making of a storage, one
  that makes it, one that opens it with a wrong and a right password.
- *Two cells, two places, a step of one record* (`msg_block`): enough for a status and an id, a record
  before and one after another, a buffer that grows, a compression that leaves one record or none, a
  record appended behind what was not cut, and one written outside the buffer. The third id is
  the message that is refused, or that comes after a deletion. `Heap` has one kind of fresh memory, no
  record; the theorems hold for any contents. With a step of two (`parts`) the block goes on after a
  record was added blindly. `msg_block_read` has three places.
- *A number whose id a wrong pin deciphers is alone* (`storage`, the constraint `OneFits`): a call checks
  the id of its own number only, and both workers call on it. The theorems have no such bound.
- *One edit by hand* of a config file that a program writes anew: an edit replaces, inserts or takes
  out any line, with values that are empty, blank, too long or merely other, so that each way to spoil
  a parameter occurs next to each other parameter.
- *Two faults, two drops, two owners* of a number: a write that fails, then one that fails after the
  file was loaded again; a deletion that leaves something behind, and the owner after it.
- *Buffers in units of 2* where the code has 16, texts up to 3: a buffer is exactly full, has one byte
  left, and grows by one and by two units. The characters are a space and an `a`, which a change of case
  makes an `A`, so that trimming, changes of case and matches that overlap occur. The questions go one place and one
  character past the end.
- *Symmetry* is used for sets of identical values, in runs without liveness properties only.
- Deadlock is not checked where the system may rest or the bounds stop it: a server that was shut
  down, a client with no calls left, a block after an overrun, a process that was started `MaxStarts`
  times, the parts of `parts`. `storage` and `shared` are checked for deadlock; in `storage` that is the claim
  that no set of calls waits for itself. (In the other one more step is always possible; there it
  says little.)

## 4. Fairness

- `UdpServer`: weak fairness of each worker, of the listener's own steps, of the monitor's end and
  of the steps of a shutdown that has begun. Every one of them is a runnable thread. Nothing is
  assumed of clients, of the operator, of failures or of spurious wakeups.
- `Call`: weak fairness of the client's steps after `receive()` (it does return, by its time-out),
  and strong fairness of time: each round of questions contains `sleep(500)`, so that no infinite
  number of rounds fits into finite time. Nothing is assumed of the server or the network.
- `Session`: weak fairness of the time-outs of a client, for the same reason.
- `Daemon`: weak fairness of the steps of the thread of `main()`, a runnable thread (a listener that
  waits in `recvfrom()` is no such step, its end after a shutdown is: the socket is closed under it),
  and of the operator, who is at the console and answers it. A crash, an interrupt, a request and a
  failure need not happen, nor need the workers run.
- `Storage`, `Caches`, `OpenConsCache`, `MsgBlock`, `CoderPool`, `Repository`, `AccountFiles`, `ZsClient`,
  `ZorgeString`: safety only. `CAccountLocker::Lock` polls with no
  order among those who wait, so a single call has no guarantee to be served.

## 5. The proofs

All theorems hold for every value of the constants. What they assume is in the named `ASSUME`s of the
modules, which TLC evaluates on every run, and is of three kinds:

- *Sets and bounds*: pools of threads are finite, bounds are natural numbers, and names that mean
  "nobody" or "none" are no worker, client, pin or token.
- *Sizes*: the numbers a client can use in its calls are fewer than the 2^32 there are
  (`SeqAssumption` of `Call`: `MaxCalls * maxResendTimes < SeqMod`), so that no number comes back while a
  datagram with it may be under way; times start at `TTL` or later, as `time(0)` does.
- *Texts*: an id of a message is no mark of a record (`IdsAssumption` of `MsgBlock`). What the program
  itself writes into a config is neither empty nor white space nor too long for it: the names and
  defaults of the repository (`ValuesAssumption`), the names, ids and tokens of an account
  (`AccountAssumption`), which are ciphered GUIDs and numbers. What a hand writes may be anything.

No theorem is about a part of the behaviours only: each is `Spec => ...` for the whole specification.

### Queue, daemon, storage

**`UdpServer_proofs`**. `TypeCorrect` first: besides the types it says that the listener and each
worker hold a request exactly in the places where they work on one, which is what `Take` and
`AddToQueue` need. `Fifo`, `NoLostWakeup` and `Bounded` come from one inductive invariant,
`QueueInv`, relative to the types. The argument for the wakeup: the queue becomes non-empty only in
`AddToQueue`, which wakes everybody in the same step, and a worker goes to sleep only in a step that
finds the queue empty. For the order: `AddToQueue` appends the same request to the history and to the
queue, `Take` moves the head of the queue to the end of what was taken (lemmas `ConcatMove` and
`ConcatAppend`). The bound is inductive because the length is tested in the step that appends.
`CallsExact` needs in addition that the set of arrived requests is finite (`CallsInv`).

**`Daemon_proofs`**. `ServedWithItsKey` is inductive together with the types and two facts: there is a
server only at the end of `Run()` and after it (`ServerInv`), so that no start begins with one, and
after three failures the thread is on its way out (`TriesInv`), without which `nTries` has no bound.
There is one lemma per action; `LoginStep` is the one that matters: a login that fails leads back to
the console or out, and one that succeeds has put the password into all three places.

**`Storage_proofs`**. The five properties of `Storage` follow from one inductive invariant,
`StorageInv`, stated number by number instead of worker by worker: a number that no call has locked is
in order (`NumberOK`: files and caches agree, nothing of it is locked in a cache), and a number that a
call has locked is as this call has left it so far (`CallOK`, which depends on where the call is:
`FilesOK` says, for example, that between `DeleteFiles` and `DeleteBlock` the files are gone and the
block may still be cached). Only with `LockerExact` in the invariant are these two cases all there
is. The argument is the same for every step between `Lock` and `Unlock` (`StepKeeps`): it touches its
own number, and of the others drops only what nobody has locked (`OthersKept`), which disturbs
neither `NumberOK` nor the `CallOK` of another call; what is left is one lemma per action on its own
number. `CheckedAgrees` carries the check of the pin: what `CheckPin` remembers is a pin that
deciphers the id. `PinCheckFollowsFile` says no more than the code can keep: nobody passes without a
pin that deciphers the id now in the file, or its token, whatever happened to cache and file before;
and the pin the id was made with is refused only when another one that deciphers it came first.

### Reply cache and call (`Call_proofs`)

**Reply cache**. The inductive invariant `CacheInv` says that no time lies in the future
of the clock, that the pointer is null or an item of the map, and - the strengthening that `OldIsGone`
needs - that every item was young when expired items were last removed (`MapOK`). A removal that
comes less than TTL after the last one therefore leaves nothing of twice TTL. `OldestNeverDangles`
rests on the lemma that `FindOldestItem` returns an item of its map, for which the existence of a
last client is derived from the well-foundedness of the natural numbers.

**Call**. Three arguments, of which the first carries the other two:

- *Numbers* (`NumbersOK`). The i-th sending of a client uses the number `SeqAt(i)`, and whatever the
  network, the queue, the workers and the cache hold of this client has one of the numbers
  `SeqAt(1)..SeqAt(i)` (`Stamped`). Since i stays below `SeqMod` the next number is new: a datagram, a
  request or an item with the number of the client belongs to the attempt that goes on
  (`RequestOK`, `ReplyOK`, `ItemOK`). `AnswerIsOurs` follows, through the fact that a reply with this
  number carries an execution of this very call.
- *Deadlines*. The item of the attempt was written after the attempt was sent, so that
  `last + maxResendTimes` is not before the deadline of the client (`ItemOK`); a client that waits is not
  beyond its deadline (`ClientOK`, which needs what `Wait` says of time). An item of a call that goes
  on is therefore never older than the patience of its client, and expires only when that is TTL or
  more: `AskedIsKept`.
- *Counting* (`CountInv`). Of each call: the executions so far, plus its command's datagrams under way,
  plus its places in the queue, plus the workers that have it before them, are at most its
  sendings plus the datagrams that were doubled. Each step moves one unit from one of the four
  sets to the next; that a datagram which is delivered once may be lost only makes the sum smaller.
  `ExecutionsBounded` follows, as three sizes of sets are not negative.

### Caches and coders (`Caches_proofs`)

**Caches**. `CachesInv` is the conjunction of the types, `AccountsHeld` and `BlocksHeld` (an item is locked
by the worker that stands at its number, by no other, and is there as long as that worker is), and
`HandlersExact`, which needs the other three: the counter is changed by each step by what this step
opens and closes, and that is exact only because the file of a locked block is not closed by
anybody else. Lemmas `FewerOpen`, `SameOpen` and their like say how the size of the set of open files
changes. `LockedStays` and `OldAccountsGoFirst` are action properties proved from this invariant.

**Pool of coders**. `PoolInv` is the conjunction of `PoolTypeOK`, `OneHolder`, `LockIsHeld` and
`KeyIsCurrent`, which is inductive as it stands: the flag of an item is worth something only
together with the fact that the thread that clears it is the only holder. `CodersExact` is
`OneHolder` with `LockIsHeld`.

### Index of messages (`MsgBlock_proofs`)

The invariant is `IndexInv`: `BaseInv`, which holds of any use of a block, and `InboxInv`, which
holds as long as its records are right somewhere (`trust # "neither"`). `TrustIsNotRegained` lets the
proof of each step assume that they were right before it. The five theorems are of `Spec`, for either
value of `Crashes`, any contents of fresh memory, and purges that fail.

**While the records are right.** `MsgInv` says that the header in memory is the one on disk, that
records which are not on disk are in memory (`BlockInv`), that the header counts the records of the
view and their marks (`Counts`), that no id stands in the index before it was given out (`IdsGiven`),
and that the file, with `trust = "both"`, holds the records of the view cell by cell. `CountersExact` and
`FileAgrees` follow (`MsgSafe`). The lemmas below are what the code leaves to arithmetic: where the
j-th cell of the i-th record stands (`Division`, `IsCell`), that a write at a record's offset changes
this record of the file and no other (`CellsMark`), and that the records that `Compress` keeps are those
which are not deleted, each one once and in order (`KeptIs`; `InOrder` is a bijection), so that the
number of new ones survives it.

**They are the inbox.** Each lemma about a call (`ReadKeeps`, ...) also says what the call does to the
records of the view and what it returns (`ReadLeaves`, ...): one mark changed, one record appended, the
deleted ones dropped, or nothing. What that does to the rows is `RowsRead`, `RowsWithout`, `RowsAppended` and
`RowsKept`; they compare selections by their places, a set of numbers having one ascending order
(`OnlyInOrder`), so that compression changes no row and the list of the new messages is the new rows of
the whole list (`RowsNew`). `InboxInv` adds to `MsgInv` what makes rows and messages the same: a record
is of one message, no two records are of the same one, and a message not deleted has its text
(`WellFormed`, about `HeldTexts`: a text whose purge failed does not count). Without the second a call
would find an older record of the id; without the third a listed message could not be read. A
message is refused only when no record is deleted (`NoneDeleted`): the inbox itself is full.
`ReadIsHeld` says that the message shown last was not deleted.

**Whatever became of the records.** `BaseInv` has the types, and says of the block, the file and each
write that is still to come (`GoodBlock`, `GoodStore`, `GoodWrites`) that no cell holds an id that was
not given out, that there is a text only for an id that is not deleted or whose purge failed, and that a
record stands outside the buffer only where an `Add` to records that are not loaded made a new one of
`Step` records. It is `TypeOK`. Together with `ReadIsHeld` it gives `DeletedStaysUnread`: the first write of
a deletion purges the text, wherever the process stops after it, and nothing brings the text back
because ids are given out once; and where the text is still there, the record has to be lost too.

**When they are lost.** `LostNext` shows of every step to `trust = "neither"`, and of every step after it, that it
is one that `Mailbox` allows (`Lost`): the inbox is lost by a drop of what is not in the file, by a crash
or by a message added blindly, by nothing else, and from then on the answers of each call keep what
`LostCalls` says of them (`LostRead`, `LostDelete`, `LostList`, `LostAdd`).

### Files (`Files_proofs`)

**Config**. `FromString` is a fold over the lines and `IntoString` flattens a sequence of sequences; in
the library both are functions chosen by their recursion equations. The proofs show that the function exists for
every length (`ReadsExist`, `FlatExists`), so that the equations hold of the chosen one
(`ReadLineByLine`, `FlatStepByStep`), and then argue by induction on the lines; as the induction theorems
of the library cannot be cited, `NumbersClosed` derives the principle from the well-foundedness
of the numbers. The results: what is read are pairs of lines that split and are not too long, all of
them and no others (`TextRead`); what is written has a line for every pair (`ConfigWritten`), and one
only for a name that stands once (`UniqueWritten`, `UniqueRead`); `GetValue` finds the first place
(`FirstPlaceIs`); `SetValue` changes one name (`ValueSet`).

**Repository: the file**. `EditIsLocal` is about what is read, `FileSays` about the lines: of a name that no hand
has touched there are lines, all with the value that Init wrote. A replaced, inserted or removed
line changes this for the names on it only, which `edited` has from then on (`EditSays`); what
the file says is what is read (`SaidIsRead`), whatever else stands in it.

**Repository: the key**. `OpenHasOneKey` is inductive together with the fields of the record of the
storage. `Login` leaves the
status closed until the id was deciphered with its password (`LoginStartsClosed`), and from then on
the coders' letter has this password, the names once it has succeeded; what fails before (`Init` that
is refused or cannot store its file) changes at most `m_Coder`, and has not succeeded.

**Files of a number**. A number that was reported as added has a folder made by its own
`CreateInFolder`, and the folder that `CreateInFolder` makes was not there before. The strengthening
says that there is mail only in a folder (`MailIsInFolder`) and that a confirmed number has its file
(`AddedHasFile`), so that nobody else is told the number was added.

**The config of a number**. The configs that the calls make are `Regular`: no name stands twice, and what is no pair
is a comment. Such a config, written and read again, has the same pin and token, although the name
and a token that are empty come back as comments and not as pairs (`OpensAgain`). `OpensInv` says that
a file that is whole, and an account in memory, open with what was promised or tried since, and adds the one
case where the promise is still to come: between the write of `AddNumber` and `CreateInFolder` the
file, when it is whole, opens with the new pin and no other (`BeingAdded`).

### Clients (`Client_proofs`)

**Session**. `SessionInv` describes every message under way by what its client is doing
(`MessageOf`): a message with the number of the last request is about this request
(`IsLatest`), so that its reply has the run of the session and the count of commands; a message of a
client with one session is under the key of this session. Numbers grow and are not used again. The
worker that answers a CONNECT holds a request that is as old as a message (`WorkerOK`). `AnswerIsOwn` and
`OneSessionReadable` are conjuncts of it. For the second the invariant says of every message whose key is
not the one of the client's only session that this session is of an earlier run (`Outlived`): that
is the answer to noise, which a server makes only of requests that its own keys do not fit.

**Client facade**. The call on the open number that was made last was allowed for by what the
client and the servers were when it was made, so the invariant describes them and not the call: an
open number was accepted by the host the client is connected to, and its pin is still right there
unless there is a reason in `stale`.

### Only model-checked

Every safety invariant of a passing run is proved. The liveness properties and `ENABLED` are out of the
prover's reach. The refinement `ImplementsText` is checked and not proved: it rests on folds over the
characters of a string.
The type invariants of `UdpServer`, `OpenConsCache`, `CoderPool` and `Daemon` are proved and no run
repeats them.

## 6. What the code does not do

### Shown by a run

1. *A worker can survive the shutdown* (`udp_server_stop`, `UdpServer.cpp:480`). The flag is set and
   the broadcast made without `m_Mutex`; a worker that has found the queue empty and not yet called
   `pthread_cond_wait` misses both.
2. *The session key can go out under another client's key* (`session_coder`, `UdpServer.cpp:754`).
3. *Reading a message marks its neighbour* (`msg_block_read`, `MsgBlock.cpp:571`): the offset is that
   of the next record. In the file the message stays new; the neighbour, even a deleted one, becomes
   read. `FileAgrees` holds only until the first read.
4. *The storage is freed under its workers* (`daemon_end`, `Daemon.cpp:21`). The threads are waited for by
   `~CUdpServer`, after `m_pStorage` was deleted.

### Met while modelling, without a run of their own

- `MsgBlock.cpp:281`: a message added to a block whose header was loaded but whose records were not
  (the first call after an eviction or a restart is `SendMsg`) leaves the earlier slots of the buffer
  as fresh memory; with more than `RECORDS_STEP` records it writes outside the buffer. `TypeOK` says
  that this is the only call that does, `DeliverBlind` in `Mailbox` what is left.
- `MsgBlock.cpp:571`, `:710`: a block that was read or compressed and then dropped comes back from a file
  that has other records (`DropUnwritten` in `Mailbox`).
- `MsgBlock.cpp:638`: `DeleteMessage` reports a message deleted whose text could not be purged. When the
  first read of the message before it then writes its status over the deleted record (`:571`) and the
  block is dropped, the deleted message is listed and read again: the exception in
  `DeletedStaysUnread`.
- `MsgBlock.cpp:710`: `Compress` does not cut the file, and `Add` appends behind what is left over.
  Compression is also skipped when the records are not loaded (`MsgBlock.cpp:670`), so that a full
  inbox of deleted messages refuses one message after a restart.
- `MsgBlock.cpp:568`: after such a reload `m_nNew` can be decremented below zero.
- `OpenConsCache.cpp:138`: a late `Update` overwrites the item of a newer call; that call is then
  answered "not found" and executed again, within the bound of `ExecutionsBounded`.
  `OpenConsCache.cpp:259`: `m_pOldestItem` is not the oldest item.
- `ComClient.java:267`: the comment "skip wrong packet" holds only for packets that can be decrypted;
  a late reply of an earlier session, or of a new run of the server, ends the call that waits
  (`OneSessionReadable` is limited to one session of a run that lives for this reason). The note at
  `zsd.cpp:96` says that after a restart the client gets "Failed to decrypt reply": it does when the
  noise is answered (`ReplyToNoise`), and runs into its time-out otherwise.
- `Account.cpp:199`: a wrong pin passes when its padding fits, and is the pin of the account until the
  cache drops it; meanwhile the right one is refused. `CheckFollowsFile` describes it.
- `DlgConfig.java:86`, `ComClient.java:108`: the time-out of the client has no upper bound. With three
  attempts and 20 s or more it asks for replies that the cache (60 s) has dropped, and sends the command again.
- `Account.cpp:473`: `ChangePin` changes the account in memory first. When the file cannot be written the
  call fails, and the cache opens the number with the new pin, the file with the old one.
- `Storage.cpp:501`: `AddNumber` releases the new account and then uses it; a deletion in another
  thread that crosses the limit of the cache can free it between the two.
- `Storage.cpp:821` and `:843` return a reference into an account whose locks are released.
- `BlocksCache.cpp:311`: handles are not closed in the order of age; `BlocksCache.cpp:292`: the limit
  on memory is looked at only when the limit on handles is reached, and a cached block opens its
  file again with no check, so neither limit bounds anything by itself. The accounts are limited only
  when one is deleted (`AccountCache.cpp:210`).
- `Storage.cpp:499`: `AddNumber` writes the config file and then makes the folder: a crash between the
  two leaves a number without an inbox, which `AddNumber` refuses to repair.
- `Storage.cpp:331`: a crash between the creation and the writing of the repository's config file
  (`torn` in `Daemon`) leaves a storage that reports "ready to open" and that no password opens;
  `DealWithUser` does not offer to make it anew.
- `UdpServer.cpp:272`: when `recvfrom()` fails, `Run()` returns without a shutdown; the workers stay at
  their condition, and the destructor waits its whole limit. That limit is 500 times 100 ms, 50
  seconds, where the comment at `UdpServer.cpp:115` says 5.
- `Daemon.cpp:129`: a Ctrl-C can be forgotten. `ShutDown` sets a flag that only the reading of a
  password tests, and stops a server only when there is one. README.md:43 names Ctrl-C as the way to
  stop the server; given during the dialogue for a new storage, during `Init` or `Login`, or while
  the config is read, it has no effect. (Once `m_pUdpServer` is made, `ServerStops` holds.)
- `Daemon.cpp:49` looks for a file "Config", the storage for "config" (no effect: `DealWithUser` is
  called only when the latter is missing). `Daemon.cpp:164` tests `nThreads` where it means
  `nTimeout` (no effect: `SetMonitorTimeout` replaces a 0).
- `CoderAESPool.cpp:161`: an item over the pool's size is never freed. `Storage.cpp:263` writes a size of
  the pool ("Encoders pool size.") into the config file that nothing reads.
- `ZsClient.java:355`: after `changePin` the client keeps the old pin for the open number; the calls
  that follow are refused until it is opened again. `OpenNumberAnswers` lists it among the excuses.
- `ZsClient.java:124`: `connect(host, port)` with a connection there is connects to the earlier host
  again, whatever `host` is. `TerminalExecutor.java:49` of the terminal client passes one.
- `SysUtils.cpp:613`: a write that stops short is taken for a whole one, and the file was emptied
  before. A config file of a number that is torn in this way does not decipher, so that the number
  can be neither opened, deleted nor added (`torn` in `AccountFiles`).
- `Storage.cpp:503`: when a folder of mail was left over, `AddNumber` fails with "Folder already exist."
  after the config file was written: the number opens with the pin of the call that failed, and has
  the mail of its former owner. `AddedIsEmpty` is about calls that succeed.
- `Account.cpp:266`: when the folder cannot be deleted, `strFullPathItem` is renamed, the last item of the loop
  above, and not the folder.
- `Storage.cpp:135`: `Login` sets `Open` before it has read the limits of the caches; without one of them it
  throws and the storage stays open, with the file names of the login before.
- `ZorgeString.cpp:587`: `Find(word, position)` promises -1 (`:585`); for a word of one character that
  is not found it returns the length. `Text` says -1, and this question is not asked (`searches` in
  `ZorgeString`).
- `ZorgeString.cpp:263`: a string never set and one made empty are neither equal nor in order (`operator<`
  says both ways yes). `:1031`: `CompareNoCase` has the sign of the opposite order. `Right(0)` is
  the whole text, `Right` of the whole length or more is empty, where the comment (`:462`) promises the
  trailing characters: `Text` asks for 1 up to one less than all of them. These are wrong answers of
  one line each, found by reading; no run is spent on them.

## 7. Abstractions, and what is not modelled

- Numbers, pins, tokens, message ids and texts are model values; parsing of requests, formatting of
  replies, paths and hexadecimal forms are left out. Numbers that share a prefix share folders on
  disk; calls on one do not touch the files of another, and the models keep them apart.
- The clock does not go back and starts above TTL.
- Undefined behaviour is not continued: after an overrun `MsgBlock` stops; the use of a freed account
  in `AddNumber` and of a freed token is taken as if it were still there; two workers inside the
  shared coder at the same moment are taken as two complete calls, or as the end of the process
  (`Restart`).
- `CZorgeString::Format` and `StrUtils` are wording; `MemBuffer` is a buffer of bytes without a zero byte,
  used for what is ciphered, which the models do not look into. The white space of the string
  is the space only. The ciphers are calls of OpenSSL. `AccountFiles`, `Repository` and `Daemon` take them as
  ideal, a wrong key deciphers nothing: they are about which key or pin was stored where. `Login` does compare
  what it deciphers with the id (`Storage.cpp:124`). `CheckPin` does not, and `Storage` has this.
- System utilities other than the ones in section 1 are wrappers of system calls. The GUI (`zsc`), the terminal client (`zs-client`,
  an older copy of the communication client), the storage shell and the tests (`zss`) are drivers
  without state that the service depends on; they were read for what the code is meant to do.

## 8. Plan

Order of the modules: 1 queue, 2 message index and its abstract inbox, 3 reply cache, 4 call
(composes 1's queue in short form and 3), 5 storage with its locks and caches, 6 session, 7 limits
of the caches, 8 pool of coders, 9 daemon, 10 config and the repository, 11 files of an account, 12
client facade, 13 string and its abstract text - these exist. What would come next:

1. The check of parameters in `ProcessRequest`, command by command.
2. `MemBuffer` next to `ZorgeString`, and the windows of the desktop client over `ZsClient`.
3. Proofs: the refinement of `Text` by `ZorgeString`.
