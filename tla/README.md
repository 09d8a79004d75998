# A TLA+ development for the file server in this repository

The repository holds a small Dropbox-like service in C over UDP: a server that
keeps one directory per user, a client that uploads, downloads, deletes and
synchronises, and the beginnings of replication between servers. This
directory models it in TLA+, model-checks the models with TLC, and proves with
TLAPS the correctness of the server's client table, alone and among its clients,
of the client program, of the file transfer, of the replica managers, of the relay,
and of the way names travel.

## 1. Inventory

| part | source | state | operations |
|---|---|---|---|
| client table and sessions | `dropboxServer.c` `identify_client`, `inactive_client`, `login`, `session_manager`, `main` | `client_list` (user, two slots with flag, port, socket), no lock | LOGIN; session threads created by the main thread, ended by CLOSE |
| request handling | `session_manager`, `receive_file`, `send_file`, `delete_file`, `list_files` | the user's directory, the session socket | UPLOAD, DOWNLOAD, LIST, DELETE, CLOSE |
| file transfer | `dropboxUtils.c` `send_file_to`, `receive_file_from` | packet number, last reply, two open files | stop and wait, no timeout |
| client | `dropboxClient.c` | `sync_dir`, `is_syncing`, `mustexit`, `time_between_sync`, one socket, one mutex | commands of the interface thread; a synchronisation thread now and then |
| replica manager, replication | `dropboxServer.c` `replica_manager`, `elect_primary`, `update_server_list`, `insert_in_server_list`, `replication` | `serverlist`, `primary_id`, `server_id`, `is_primary` | registration by ping, 2 s and 25 s timeouts, election |
| front end | `frontEnd.c` | the client of the login, the relay's two buffers, a server list | relays one login, pings, relays requests; ends at once |
| names and paths | `dropboxUtils.c` `removeBlank`, `getArgument`; `dropboxClient.c` `pickFileNameFromPath`, `findnext`; `dropboxServer.c` `list_files` | the files on both sides, the listing being read | from names to paths and back |
| alternative server | `dropboxServerAlter.c` | an older table | does not compile |
| test client, demonstrations | the rest | none of interest | - |

How they interact. A client sends LOGIN to port 6000 and is told a port; from
then on it talks to one session thread through one socket pair, one request at
a time, under its mutex `lockcomunicacao`. The session threads of a server share
`client_list` with the main thread, without a lock. Every accepted LOGIN, UPLOAD,
DELETE and CLOSE is copied to the addresses in `serverlist`, that is, to the
port on which the replica managers exchange their pings.

What is hard: the unlocked table; a protocol without timeouts over a network
that loses and duplicates; uninitialised and stale replies; a synchronisation
that works from listings that are out of date; names from which two functions
derive different paths; replica managers and a relay that read whatever arrives. `PROJECT.json` lists each hazard at its line with the
properties that cover it.

What makes each part correct: a request ends up in the directory of the user
who logged in, slots and ports have one owner, lost resources are known
(sessions); a session serves only the device that logged in to it, a fault costs
one slot at most, whoever asks is answered, whoever is refused gets in later, and has its slot to itself then
(sessions among devices); a file that is reported stored is stored, and it is known which are
not (transfer); answers match requests, deletions are not undone, exit ends the
program (client); what is found under a name was stored under it, and a listing
is read as it was written (names); an answer goes to the client whose request it
answers (front end); ids are unique, replication reaches everybody, one primary,
and one again after a crash (replica manager).

## 2. Modules

| module | models | checked by |
|---|---|---|
| `Sessions` | table, main thread, session threads | `MCSessions` |
| `SessionsProofs` | theorems about `Sessions` | tlapm |
| `SessionNet` | `Sessions` composed with devices and the sockets between them | `MCSessionNet`, two configurations |
| `SessionNetProofs` | theorems about `SessionNet` | tlapm |
| `SlotCostProofs` | the theorem that a fault costs one slot at most | tlapm |
| `ChunkedCopy` | what a transfer promises | (abstract) |
| `FileTransfer` | `send_file_to` and `receive_file_from` over UDP; implements `ChunkedCopy` | `MCFileTransfer`, two configurations |
| `FileTransferProofs` | theorems about `FileTransfer` | tlapm |
| `Client` | one device, its threads and mutex, and its session thread | `MCClient`, two configurations |
| `ClientProofs` | theorems about `Client` | tlapm |
| `Names` | how names travel from a directory or a command to paths, the server, its listing, and back | `MCNames` |
| `NamesProofs` | theorems about `Names` | tlapm |
| `ReplicaManager` | replica managers of several servers, replication, crashes | `MCReplicaManager`, two configurations |
| `ReplicaManagerProofs` | theorems about `ReplicaManager` | tlapm |
| `FrontEnd` | the relay between clients and a server | `MCFrontEnd`, two configurations |
| `FrontEndProofs` | theorems about `FrontEnd` | tlapm |

**Sessions.** The variables are the fields of `client_list`; `boundPorts` is the
kernel's view of the process; `main` and `thread` are locals with a program
counter. Each read or write of the table that another thread can interleave
with is an action: `Scan` reads one flag, `Claim` writes the name, `TakeSlot`,
`Spawn`, `Start` (port and socket), `Bind`, `Publish` (slot's socket), `BuildPath`
(user id read again for the path), `Close`, `Replicate`. The main thread is the only
writer of `user_id` and the only one that sets a flag, so its test-and-set of a
flag is one step. Any packet may reach the main socket and any request a bound
session socket at any time, which contains lost, repeated and stray
datagrams. Opcodes that the table cannot tell apart are merged (`MainOps`,
`Ops`). `thread[t].user` is a history field: who logged in.

**SessionNet.** Every element of `Devices` is one run of the client program. A device
logs in (again after each NACK), takes the port of the first ACK, sends requests and
at last CLOSE, and exits; it waits for every answer without a timeout. `mainQueue`, `queue[p]`,
`loginReplies[d]` and `replies[d]` are the socket buffers: that of a port lives as long as the server,
as sockets are inherited; a request to a port that nobody has bound is gone
(`"unbound"`). The server's actions are those of `Sessions`, each conjoined with what it
takes from a queue and puts into one (`NetReceive` is `Receive` and so on), so that every
step of the composition is one of `Sessions`, by construction. `client` is the source address a session thread
answers to; `owner`, a history variable, the device whose login created it.
`faults` counts what has gone wrong, so that each property can name the faults it
does not survive. `Exit` may leave one late request behind: `close_session` gives the mutex
back, and a synchronisation that waited for it sends before main returns. DELETE and
LIST stand for the requests, which all come to an end here (`Client` and `FileTransfer`
have those that do not); the two differ in when the answer is sent.

**FileTransfer.** `snd` and `rcv` are the locals of the two functions, `toRcv` and
`toSnd` the datagrams in flight. The test of the inner loop (`SSend`, `SAccept`)
uses the reply that is there, which is the former one or, for the first packet,
an uninitialised one (`Garbage`). Bytes are numbered by their position in the
source, so that a disk shows what was written where. `ToShort` is the cast to a
16-bit number, with `SHORT` small in the runs. `Strands` says, from the size and the
garbage alone, which transfers never send a last packet. `ChunkedCopy` is what a transfer
promises; it may stall for good (a lost datagram: nobody has a timeout) and it may break, after which it promises
nothing (a transfer that its parameters break, or a duplicated datagram).

**Client.** A request is `Lock`, `Send`, `TakeAck`, then for an upload `Put` and its
answer, for a download the file, then `Unlock`. A file transfer is one packet FILE
and its answer DONE; its inside is `FileTransfer`. What `FileTransfer` calls
`Strands` is here the set `Strandable`, and a file that cannot be opened. A session
thread that waits for file data takes a request for it (`Store`), acknowledges
it and does not carry it out. After an upload the session may get stuck in the
forwarding loop of `receive_file` (`Wedges`): sending to an empty address fails, and
the loop then waits for an ACK on the client's own socket; it leaves the loop only if
the uninitialised reply happens to match. `stranded` and `deleted` are history
variables. `SetSyncTime` sets the interval to any value, of which two kinds matter: `"long"`, in which a new
thread has set `is_syncing` before the interval is over, and `"short"`, as after `setsynctime 0`, in which it need not have.
When a short interval is made long again, the synchronisations that it has begun go on side by side; the history
variable `hurried` says that one of them may be left. DELETE is acknowledged (`Serve`) before the
file is removed (`Remove`), so that the device removes its own copy before, between or after. The mutex admits one request at a time, so the retry loops
(`while (!recebeuack)`) never see anything but an ACK, which `AnswersOwnRequest`
confirms, and the models have no resend.

**Names.** The string functions are operators on sequences of characters, with the
home directory and the user's directory as short paths. A file's content is the name
it was created under. A transfer is one step: if the sender finds no file under the
path it opens, the receiver waits for ever (`stuck`) and the model ends there; if the
receiver's directory does not exist nothing is stored and nobody is told. A file `a b`
is announced as `a b` and opened as `ab`: the server stores the content of another file
under its name if there is one, and waits for ever if not. A path without a slash
loses its first character. Commands are assumed to have the arguments they need, and
the fixed buffers to be large enough (`findnext` allocates the size of a pointer).
`readdir` gives the names in any order. Files are deleted by the `delete` command (`Delete`: on both sides, and
only if the device has the file), by programs on the device (`Erase`) and by other devices (`OtherDelete`), at any
point of a synchronisation; `removed` remembers what has gone since the synchronisation listed it. `Strandable` are the contents
whose transfer may leave the receiver waiting although the file is there (`Outcomes`): which sizes these are is in `FileTransfer`. A
`delete` without a name, which asks for the directory itself, is left out.

**FrontEnd.** `main`, `ping` and `session` are the locals of the three threads. The relay's
`recvfrom` takes whatever is next, or, after the timeout that it sets in its first
iteration, nothing, and then the buffer is what it was (`Receives`). The relay
sends to `MAIN_PORT`, so the main thread of the server answers: `Results`. After one late reply the
relay and the server exchange the roles of request and reply, and the relay repeats the
packet in its buffer every 100 ms. Addresses are names; the zero address is
`"nobody"`. That the process may end at any step after main's last is `Return`, and `Running` a
guard of every other thread. A failed `bind` of the ping thread is the thread
never taking a step.

**ReplicaManager.** `rm[r]` holds the globals and locals of one server's
`replica_manager`; `inFlight` is a set, so packets are late or out of order, and lost
when never received. `Copied` is the `strncpy` of the list into a packet, which stops
at the first zero byte, and `UpdateList` the `memcpy` of the size of a pointer:
together they carry `active[0]` and nothing else.
`Replicate` sends a request to the ports where replica managers wait; `Forward` sends them a packet of an uploaded file, as `receive_file` does
from the session's socket, where no answer to it can be: its number may look like an id and its data like a list (`FilePackets`;
a last packet of 1000 bytes, whose number is that of a ping, is left out). `Timeout` and `Silence` are the two
timeouts; both go on with the buffers as they are. `Garbage` holds what
`ping_reply` and `from_len` may contain before they are set: with a small `from_len` the source of the
first packet is not stored; with a negative one `recvfrom` fails each time, but has taken
the packet into the buffer, so that a replica sees a timeout and a primary handles the
packet (`FailedReceive`, `LenAfter`).

## 3. Runs

All of them finish in at most about three minutes with two workers.

| run | instance | shows |
|---|---|---|
| `sessions` | 2 users, 2 entries, 2 threads | eight properties of the table. Two entries and two users are enough for an entry to be taken over while its former sessions end, for a full table and for the third login of a user; two threads for an old and a new owner of a slot, and for creation to fail |
| `sessionnet_faults` | 2 devices of 1 or 2 users, 1 entry, 2 threads, 1 request each, one datagram lost, one duplicated, one device gone | whom a session serves, that a device has its slot to itself, and what a fault costs. The second device inherits the slot and the socket of the first |
| `sessionnet_live` | the same, a device may vanish | requests are answered, a refused device gets in |
| `transfer_udp` | packets of 3 bytes, a short of three bits, sizes -1..14 and 29, 1 lost, 2 duplicated | what is stored when, who is left waiting, that both return if nothing is lost, and that the transfer implements `ChunkedCopy`, liveness included. Numbers wrap after three packets and collide with lengths; in the file of 29 bytes packets 1 and 9 have the same number |
| `transfer_report` | no faults, no garbage | finding: "Upload succesful" for a file of which the last byte was not sent (1247 bytes in the real program; 4 here) |
| `client` | a new device, 2 files (one strandable) of which any are on the server, 2 synchronisation threads, 1 command and exit, any changes of the interval, 1 change by another device | answers match requests, deletions last, one synchronisation at a time unless a short interval has begun more, exit ends the client |
| `client_sync` | 1 file, after `setsynctime 0` | finding: two synchronisation threads |
| `replicas_patient` | host and 2 replicas, 2 entries, 1 crash, 1 replicated request or forwarded file packet, any garbage, no premature timeout | registration with a full list, one primary while the host runs, another one after its crash |
| `replicas_late` | host and 2 replicas, 3 entries, timeouts at any time, 1 replicated request or forwarded file packet | ids, never following a server that is not there |
| `front_end` | 3 clients with 2 packets each, 1 timeout of the relay | whose answer a client gets; that requests are refused |
| `front_end_login` | 3 clients, 1 packet each | finding: the reply to a login does not reach the client |
| `names` | 5 names with a blank, a tilde, a newline or none, one strandable content, 8 commands (uploads, downloads, deletions), 5 changes | content follows names, listings are read as written, what strands a synchronisation |

`CHECK_DEADLOCK FALSE` is used for the transfers (both functions return, or one waits
for ever), for the client (it ends, or waits for ever on a stranded transfer), for `SessionNet`
and `FrontEnd` (the devices have exited, or wait for ever) and for `Names` (a stuck
transfer ends the model). The sessions and replica runs check for deadlock.

Bounds. `MaxLost`, `MaxDup`, `MaxFaults`, `MaxRequests`, `MaxTimeouts`, `MaxCommands`, `MaxOther`, `MaxChanges`, `MaxCrashes`, `MaxReplications` and the
restart of each server at most once. They keep the state spaces finite; every hazard
they are about needs one fault, one or two requests or one command. The safety properties
are also proved (§4), for all values of the bounds. Symmetry is
used in safety runs only. One file packet stands for all in the replica runs: its number is an id and its data erase the host from
the list; the proofs take any.

Fairness. In `FileTransfer`, `WF` on each function: nothing but `recvfrom` blocks
them. In `Client`, `WF` on the steps of each thread once it has the mutex, on main's
exit and on the session thread; `SF` on taking the mutex, since between two
synchronisations it is free for the whole interval of ten seconds and a waiting
thread gets it, as long as a synchronisation takes less than that. With a short interval this need not be, and `ExitEnds` claims nothing
there. In `SessionNet`, `WF` on the main thread, on
each session thread and on each device: threads block in `recvfrom` only, and a user who has logged
in is assumed to exit some day (without that, a table may stay full for ever).
`Answered` and `LoginEventually` name the faults after which they claim nothing: a lost
datagram leaves its device waiting, as nobody has a timeout. In `ReplicaManager`, `WF` on the loop of each replica manager: it is a thread of
its own whose only blocking call has a timeout.

## 4. Proofs

`SessionsProofs` proves, for every number of entries, users and threads and every
port, from `SessionsAssumption` alone (the empty name is not a user's, the numbers are
naturals):

- `TypeCorrect`, `DirectoryCorrect`, `EntriesUnique`, `ReceiverUnique`, `SocketBound`, `PortFresh`:
  the six invariants of the run `sessions`;
- `ReassignedIdle` and `LeakPermanent`: its two action properties.

The argument. None of the invariants is inductive. That a thread's directory is
its user's depends on the entry not being given away while the thread serves;
that depends on `Scan`, which has read the flags one by one, some of them long ago.
`MainInv` records what stays true of those reads: a flag read as 0 is still 0, as only
the main thread sets flags, and the main thread is scanning. `OwnerInv` says that a
thread owns its slot from creation until its CLOSE clears the flag, that the flag is 1
meanwhile, that the entry has the thread's user, and that no two threads own the
same slot. `SocketInv` follows a slot's socket: none, set up by the owner, inherited
by the next; an unbound one is left only in a slot that is never free again
(this is why the leak is harmless to others, and why it must be permanent), and
`boundPorts` holds only ports of slots whose socket is set or about to be. `DirInv` is what
remains of the properties. `IInv`, their conjunction with `TypeOK`, is proved action by action;
`PortInjective` is the arithmetic fact that the stride 2 suffices for
two slots.

`SessionNetProofs` proves, from `NetAssumption` and `SessionsAssumption`,
`NetTypeCorrect`, `OwnDevice` (`ServesOwnDevice`) and `OwnSlot` (`SlotToItself`).

Each action of `SessionNet` is an action of `Sessions` or leaves its variables alone, so `IInv` of
`SessionsProofs` holds here too. That a session serves its own device needs to know of every
request that it is in the right queue, and of every inherited queue that it is empty when the new
owner starts. `NetInv` adds `OwnInv` as long as nothing was duplicated or late: `PortInv` (who knows a port has its slot), `QueueInv` (what waits at a session's socket is from the device
that has the slot, and nothing follows its CLOSE), `AnnounceInv` (the thread that login has created
belongs to the device to be answered), `CloseInv` (when a session closes, its device sends no more and
its socket is empty), and `ClientInv` (the property, and a thread that ended has no client). `AckSlot` says that
the answer names a slot. `OwnSlot` needs one thing more (`ApartInv`): no two
devices have been told of the same slot, which a CLOSE on its way (`CloseInv`) keeps so when the slot is given away again.

`SlotCostProofs` proves `FaultsCost`: `OneSlotPerFault` holds for any number of devices, users, entries,
threads and faults. Neither the orphaned slots alone nor their number is inductive: a LOGIN that
arrives twice is a fault long before it costs a slot, and an ACK that arrives twice makes a device
take the answer to one request for that to the next, so that it leaves in the end before its session does.
`DebtInv` keeps the account: the slots lost and those still to be lost are together no more than the
faults (`Blame`).

- `LostSlots` are slots whose session will never end: the slot is `Wasted` (no thread, or one without a
  socket), or its session serves a device that does not know of it, uses another one, or
  has left (`Costs`).
- `Extra(d)` is what device `d` may still cost: while it logs in, its LOGINs (`Waiting`) and the answers to them
  (`Answering`) but one; afterwards the LOGINs that may still get a slot, and the answers it may get beyond
  the one it waits for (`Surplus`). `Pairs` adds this up over all devices without assuming that
  they are finitely many.
- Two cases make the definitions what they are. A device whose last ACK is lost waits in vain, so that one session of
  its own is never ended although a loss costs nothing: of the sessions of a device that
  waits in vain one is not counted. And a CLOSE that is lost leaves a device waiting, whom an old answer may
  release: that answer is counted (`Expects`).

Each step pays for what it loses (`DebtKept`, `DebtMoved`, `DebtPaid`): a session that nobody asked for turns one of its
device's `Waiting` into a lost slot, a device that is admitted leaves behind the slots that its other answers
name (`AnnouncedSlots`), a device that vanishes the one it had. `TraceInv` says what a device has not left behind before it
logs in, or after it has left. The lemmas at the
beginning count: places in a queue (`Times`), slots (`SlotsGrow`, `SlotSwapped`, `NamedSlots`), pairs
(`PairsChange`). `DebtInv` was checked with TLC on instances of two devices before it was proved.

`ClientProofs` proves `TypeCorrect`, `ServedCorrect`, `AnswersApart`, `DeletedStays` and `OneSync`, the five
invariants of the run `client`, for any files, threads and bounds and whatever is in `sync_dir` at first. `OneSync` says
that there is one synchronisation unless a short interval may have begun more; while it is `hurried`, nothing is said of
the threads, and `hurried` ends only when none of that time is left. `IInv` is built around `MutexInv` (a
thread between `Lock` and `Unlock` has the mutex) and `TrafficInv`, which says
for each point of a request what is in the two queues and what the session thread does; from it follow
`UploadInv` and the rest. `DeleteInv` is stronger than `DeleteSticks`: nobody is about to bring a deleted
file back, neither an upload under way nor a download whose file has left the server.

`FileTransferProofs` proves `TypeCorrect`, `Stranded`, `IntactCorrect`, `TogetherCorrect` and `MissingCorrect`, the five
invariants of `transfer_udp`, for every file, packet size and width of the packet number and any number of lost or duplicated
datagrams, and `CopiesSafely`: every step is one of `ChunkedCopy` or
a stutter, which is the safety part of `CopiesInChunks`. Only the steps of a transfer that its parameters do not break, before any datagram is duplicated, have
something to show there. `InFlight` and `OrderInv` say which packets and answers can be
on their way (one at most, if none is duplicated); `SenderInv` where the sender is in the file; `PlaceInv` and `HeldInv` what is on the disk
where; `StrandInv` and `LastInv` what becomes of the last packet.

`ReplicaManagerProofs` proves, for any number of servers, crashes and replicated packets and any list,

- `TypeCorrect`: `TypeOK`;
- `Followed`: `NeverOrphaned`, whatever the uninitialised `ping_reply` and `from_len` hold;
- `OnePrimaryCorrect`: `OnePrimary`, assuming `Patient`;
- `DistinctCorrect`: `DistinctIds`;
- `SlotCorrect`: `SlotReachesServer`, assuming `Patient`. Without patience the host
  may register a replica again after a silence; it then has two entries, of which one is its id.

`LinkInv` says that the host is always a primary and that a server that is none knows no addresses,
so that whoever it elects cannot be pinged; `FollowInv` that answers carry one entry at most, so that
giving up on the host leaves nobody but oneself to elect. `OneInv` holds while `Steady`, the condition
of `OnePrimary`, does: what a waiting replica waits for is on its way, its ping or some packet, so that a patient
timeout cannot strike. That its ping is answered needs the host to know its address: either the host stores
addresses, or it is `Fresh`, nobody is registered, and the first registration
makes `Unrecorded` true for ever (`SteadyBefore`, `FreshHost`). `IdInv` says that an answer of the host on its way to a replica
without an id names an entry of that replica's own, of which it may have several; as long as the host is not restarted it never gives
an entry away a second time (`HostKeeps`), so that no two replicas find the same number. `SlotInv` adds that a replica is listed
once: its first ping is on its way only while it is not listed, and the host, while it has followers, is never silent, because
a replica that has an id expects an answer (`SlotOf`) or, if it elected itself without one, has no id to be wrong
(`Alone`). The lemma `LeastIn` (a nonempty
set of entries has a least one) is what `Insert` and `Elect` rest on.

`FrontEndProofs` proves `TypeCorrect`, `AnswersCorrect` and `RefusedCorrect`, the three invariants of the run `front_end`,
for any clients, packets and timeouts. `MainInv` says that main never learns a client's address, `FromInv` where
the packets at each socket come from, and `RoundInv`, while one client uses the relay and no reply is late
(`Single`), that one packet goes round: at the relay, at the server, or as an answer on its way back. A step
cannot make `Single` true again (`SingleBefore`).

`NamesProofs` proves, for any names, strandable contents, commands and number of changes, from `NamesAssumption`,

- `TypeCorrect`, `ListingCorrect`, `StrandsCorrect`: `TypeOK`, `EnumeratesListing` and
  `SyncStrandsForAReason`;
- `ContentCorrect`: `ContentFollowsName`, if every command to download into a directory names
  one that ends in a slash (`DownloadsToDirectories`; `MCNames` assumes it of its commands).
  The client appends the file's name to what the user has typed (`dropboxClient.c:310`), so that a download of `a` to `~/s/x` goes to
  `~/s/xa`, where the property, which reads names off paths, would take it for another file.

`Inv` has five parts. `DiskOK` and `RemoteOK` say in which directories files are, and that the
server's names hold no slash. `SyncOK` says that what is to be uploaded lies in the directory, and what the listing names on the server, or has been removed since, and
`PositionOK` that `findnext` stands at the beginning (`LineStart`) of the line its counter says, unless a name
with a newline has broken the lines. `RestOK` has the types of the rest.
`StrandsCorrect` follows: a plain name that is still there leads back to its file (`SyncPathOpened`, `NamedIs`), and then only
its content can strand the transfer (`OutcomeIs`). What a listing is, line by line, needs `FlattenSeq`, which the community modules define by a
recursive function: its equation is derived from the definition, and what follows from it by `Induction` over a set of
numbers (`NatInduction`'s operator argument is not available). `Parts`, `SplitPath` and
`RemoveBlankParts` are the facts about sequences and slashes that everything else cites;
`SyncPathOpened`, `LocalIs` and `FindnextIs` what the code's functions do to the paths it meets.

Model-checked only: liveness (`BothReturn`, `CopiesInChunks` as a whole, `ExitEnds`, `Takeover`, `Answered`, `LoginEventually`),
which is outside what the prover does.

## 5. What the models say about the code

Three properties stated by comments or tests of the repository do not hold (`findings` in `PROJECT.json`):
`send_file_to` can return 0 with bytes missing, though `serverTester.c:180-181` calls that success (its own
copy of the function has the same loop); main can create a second synchronisation thread, though
`dropboxClient.c:535` says that it looks for one; and the reply to a login does not reach the client, though
`frontEnd.c:227` says that it is rerouted there: `client_len` is 0 when the login is received, so that its source is not
stored, and the reply goes to the zero address.

Conditions in the other properties name what the code does not guarantee: a duplicated datagram or a late request
for `ServesOwnDevice` and `SlotToItself` (the next owner of the slot, who may be another user, then gets the effect of the former owner's
request); `Strands`, `SkipsFirst` and failed opens in the transfer; `stranded`, a stuck forwarding loop and a short interval in the
client; `misread`, a restarted host and restarted replicas in the replica manager; a timeout or a second client in the
front end. In `Names`, `ContentFollowsName` is about names without a blank, a tilde or a newline, and a synchronisation can be left
waiting over these names, over a file deleted since it was listed, and over a content of a size that strands any transfer
(`SyncStrandsForAReason`). A replica that is started again may take the id of another: the answer to a ping of its former
life carries the seqnum of the last registration. The front end cannot work as written: requests go to the server's main
port, which refuses them (`RequestsRefused`), and main ends the process.

## 6. Not modelled, and why

- `dropboxServerAlter.c`: not part of the program. It does not compile (it calls
  `send_file_to` with two arguments, `dropboxUtils.h` declares three), and the Makefile does not build it.
- The helpers that create the server's directories and `send_string`: straight-line code without state.
  Overlong names (fixed buffers) are outside the models.
- `serverTester.c` (a test client with its own copies of `send_file_to` and `receive_file_from`), UDP demonstrations, `Roeslerdel`: not part of the program.
- Transfers inside `SessionNet`, and several devices inside `Client`: their state spaces
  multiply; `Client`'s `Other` stands for the other devices.

## 7. Plan

Done, in this order: `Sessions` with its proofs, `FileTransfer` with `ChunkedCopy`, `Client`, `ReplicaManager`,
`SessionNet` with its proofs, the proofs for `Client`, `FileTransfer`, `ReplicaManager` and `FrontEnd`, `Names` and its proofs.
Every invariant and every action property of the runs is proved; what liveness there is stays with TLC. Left is what §6 lists.
