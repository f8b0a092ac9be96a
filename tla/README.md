# Verification of hybrid-ftp-system

The program is an FTP-like client and server: commands and replies go over one
TCP connection per client, file contents over UDP with a stop-and-wait protocol
of their own (`rdt/`). This directory holds TLA+ models of it, the TLC
configurations that check them, and TLAPS proofs. `PROJECT.json` lists the runs,
the source lines each definition stands for, the hazards and the findings.

## 1. The system

| Component | Source | State | Operations |
|---|---|---|---|
| rdt sender | `rdt/sender.py` | sequence number, attempt, deadline, `TransferContext` | `send_file`, `_send_and_wait`, `_check_cancelled` |
| rdt receiver | `rdt/receiver.py` | `expected_seq`, bytes received, latched peer, `.part.<tid>` file, destination, `TransferContext` | `receive_file`, `_receive_packet`, `_send_ack`, `_send_cancel`, `_linger_for_duplicate_fin` |
| transfer context | `rdt/context.py` | `state`, `cancel_event`, statistics | `cancel`, `finish`, `is_cancelled` |
| packet and codec | `protocol/` | none | `encode_packet`, `decode_packet` (CRC-32, header checks), SHA-256 |
| fault injector | `rdt/fault_injector.py` | a random generator | loses, corrupts, duplicates a datagram |
| server control session | `server/tcp_server.py` | `FTPSession`: login, mode, `pasv_udp_sock`, `current_dir`, `rename_from_path`, `transfer_active`, `abort_requested`, `transfer_context` | one branch of `handle_client_session` per command |
| server data transfer | `common/data_transfer.py`, `start_transfer` | a worker thread per data command, its socket, staging file `.upload.<tid>` | `udp_send_file`, `udp_receive_file`, `udp_abort_transfer`, `close_data_socket` |
| upload store | `common/data_transfer.py:207-251` | the files of the server | replace, append, ASCII conversion through `.tmp.ascii`, STOU names |
| client | `client/control_client.py`, second half of `common/data_transfer.py` | module globals (socket, peer, mode, context, abort flag), `transfer_thread`, `data_mode` | `handle_data_transfer`, `udp_client_*`, the CLI loop |
| file system helpers | `server/file_system.py`, `resolve_safe_path` | the disk | listing, sizes, unique names, path checks |
| server start | `tcp_server.main` | session table (for the log) | accept loop, shutdown |

How they interact. A data command is answered with `150 TID=.. SIZE=.. SHA256=..`
and starts a **worker thread**; the command loop goes on reading, so that `ABOR`
can be received. The two threads share the fields of `FTPSession` and take **no
lock** on them (`transfer_lock` is never acquired). Worker and client then run the two ends of
the rdt protocol over UDP; the worker finally sends 226 or 426 on the control
connection, unless an abort was requested, when the 426 of `ABOR` stands for it.
`ABOR` reaches the worker through `transfer_context.cancel()` or by closing the
PASV socket. Cancellation travels to the other end as one unacknowledged CANCEL
datagram.

What is hard in it:

- datagrams lost, repeated, late, reordered, corrupted, or left over from another
  transfer on the same port;
- the end of a transfer: FIN and FIN_ACK may be lost, the destination is replaced
  before the sender knows, the receiver lingers for a limited time;
- cancellation by another thread at any point of either end;
- I/O errors at any point, with a temporary file to remove;
- two threads on one session without a lock: test-then-use of
  `transfer_context`, flags cleared in a certain order, a reply sent before the
  state that it announces;
- a worker that is still ending while the next one starts.

What makes each component correct:

- *rdt*: a file is delivered whole or not at all; the sender's success means that
  the announced file is in place; nothing is written twice or out of order;
  nothing is acknowledged before it is kept; temporary files go; both ends end.
- *transfer session*: one job at a time; ABOR finds the running job's context and
  stops it; the session does not stay busy; every data command is answered.
- *upload store*: staging files of different transfers are different; a file is
  replaced in one step; an append adds to what is there, loses nothing, and leaves at most a
  prefix of the upload when it fails.
- *client*: a reply is read by whoever sent its command; its globals belong to one
  transfer; an abort reaches the running transfer; nobody waits for a reply that
  will not come.
- *control session*: no command touches anything outside the root, or the root itself,
  whatever other sessions do between the check of a path and its use; a path means to the server what it means to the operating system.

## 2. Modules

| Module | What it is |
|---|---|
| `ReliableDelivery` | abstract specification: what a transfer promises, without packets |
| `StopAndWait` | the rdt protocol, both ends and the network, with its properties and the refinement mapping `RD` |
| `MCStopAndWait` | files and leftover datagrams of the TLC instances |
| `StopAndWaitProofs` | theorems about `StopAndWait` |
| `TransferSession` | one server session: command loop, ABOR, transfer workers |
| `TransferSessionProofs` | theorems about `TransferSession` |
| `UploadStore` | the server's files while uploads of several sessions are put in place |
| `MCUploadStore` | targets, contents and plans of the TLC instances |
| `UploadStoreProofs` | theorems about `UploadStore`: types, staged files, results |
| `UploadStoreChangeProofs` | theorems about `UploadStore`: how files change, what appends add up to |
| `FtpClient` | the client: command line, transfer thread, and the globals they share |
| `FtpSystem` | `FtpClient` and `TransferSession` joined by the control connection and the data port |
| `FtpSystemProofs` | theorems about `FtpSystem`, and with it about `FtpClient`: refinement, types, turns of the two readers |
| `FtpSystemReplyProofs` | theorems about `FtpSystem`: how many replies are owed and awaited |
| `FtpSystemOrderProofs` | theorems about `FtpSystem`: whose replies they are, and which data port is meant |
| `FileTree` | the file system under the server: paths, and the calls that change it |
| `ControlSession` | one session's file commands and an upload's directories, among other sessions |
| `MCControlSession` | arguments, symmetry and an action constraint of the TLC instance |
| `ControlSessionProofs` | theorems about `ControlSession`, and lemmas about `FileTree` |

`TransferSession` uses of `StopAndWait` what the worker sees of a transfer: it
looks at its cancel event for a last time (`W_LastCheck`) and then ends well or
badly; that it ends is `StopAndWait!Termination`. `UploadStore` starts where the
receiver has put its verified file at the staging path: its `U_Receive` is
`ReliableDelivery!Deliver` with that path as the destination, and its
`U_ReceiveFails` the abstract receiver's failure. `FtpSystem` instantiates
`TransferSession` as its server: each of its steps is one of that module's,
restricted to commands that a client has sent and to data that can arrive.
`ControlSession` follows the same upload as `UploadStore`, but through the
directories rather than the contents.

### StopAndWait

`sPc` and `rPc` stand for the place in `send_file`/`_send_and_wait` and
`receive_file`/`_receive_packet`; one action is what happens between two points
at which the other end, the network or a cancelling thread can be noticed.

| Code | Model |
|---|---|
| `sequence`, `attempt` in the `for` | `sequence`, `attempt`; the sender is at DATA while `Streaming`, else at FIN |
| `expected_seq`, `self.peer`, `.part` file, destination | `expectedSeq`, `peer`, `temp`, `destination` |
| `received_bytes` | `Len(temp)`: sizes are counted in chunks |
| `cancel_event`, `context.state` | `sCancelled`/`rCancelled`, `sState`/`rState`; `S_Abort`/`R_Abort` are the other thread's `cancel()` |
| the file at the 150 reply, at `sha256_file`, while streaming | `announced`, `hashed`, `sent`: three values chosen independently, as nothing keeps the file from changing |
| UDP and `FaultInjector` | `toReceiver`, `toSender`: sets of all datagrams ever sent |
| SHA-256 | `Digest`, injective |

The network. A datagram stays in its set; a receive takes a copy. So it may
arrive never, late, repeatedly and in any order, which is what UDP with the
fault injector can do and more. A corrupted datagram fails its CRC and has the
effect of `S_Ignore` or `R_Quiet`: the loop goes round. `StraysToReceiver` and
`StraysToSender` are in the network from the start: datagrams of other
transfers, by `StrayAssumption` with another `transfer_id` (`secrets.randbits(64)`
is taken not to repeat).

Time. A deadline may pass at any moment (`S_Timeout`, `R_IdleTimeout`,
`R_LingerEnd` are always possible where the code can notice them), so safety does
not rest on 0.5 s, 10 s or 0.2 s.

Cancellation is a separate step at every moment before the end of a call. What the model makes visible: the
receiver looks at it only in `_receive_packet`, so a cancel that arrives while the
FIN is handled is not honoured, and `finish(COMPLETED)` then overwrites
`CANCELLED`.

### TransferSession

No lock guards the fields of the session, so each read and write that another
thread can see is a step: `udp_abort_transfer` is `C_SetFlag`, `C_CheckContext`,
`C_Cancel` (or `C_CheckSocket`, `C_CloseSocket`), `C_Reply`; the worker is
`W_Socket`, `W_Ready`, `W_SetContext`, `W_CheckAbort`, the transfer, and then the
`finally` blocks line by line (`W_ClearContext`, `W_ClearSocket`, `W_Decide`,
`W_Reply`, `W_Inactive`, `W_Unabort`). A `None` found where the code calls a method is the value
`"crashed"` of `cPc`: the exception ends the command loop. Two exceptions leave
a worker before its reply: a cleanup that raises (`W_CleanUpRaises`: `unlink` under
a parent that is a file) and the temporary file of `udp_send_buffer`, written outside
its `try` (`W_BufferRaises`). Such a job has the result `"raised"`, skips the reply and
still passes through the `finally` of `start_transfer`.

The client is any sequence of commands; of the commands only those that touch the
shared state are there. `finals[j]` collects the replies sent for data
command `j`.

### UploadStore

The tail of `udp_receive_file` for every session at once. The sessions share
nothing there but the disk, and no lock guards it.

| Code | Model |
|---|---|
| a path, and the file it refers to | `names`; `data` is a file's content. A file that has lost its name lives on while it is open, as on POSIX |
| `open(.., "wb")`, `open(.., "ab")` | `OpensToWrite`, `OpensToAppend`; the open file is `handle` |
| `os.replace` | one step on `names`: the new name refers to the file, the old one to none |
| the buffers of `shutil.copyfileobj` | the pieces of a content; an append in binary is one step for each, in ASCII one write |
| `with_suffix(".tmp.ascii")` | `TempOf`: targets of one stem have one temporary file |
| `data.replace(b"\r\n", b"\n")` | `ToLf` |
| `f"{file_path}.upload.{transfer_id}"` | `Upload(j)` |
| `except` with its `unlink(missing_ok)` | `U_Except`; with `IoErrors` that `unlink` may raise as well, and the call ends as `"raised"` without a result |

`Directories` are targets that are directories, to which a rename or an open
fails; with `IoErrors` every file operation may fail. `STOU` is a `STOR` of the
name it has chosen. `SharedTemps = FALSE` leaves out the instances in which two
ASCII uploads have one temporary file (finding 5). `stored` is a history
variable: what a job's rename put in place.

### FtpClient and FtpSystem

`cliPc` is the place in `run_cli`, `tPc` the place in `_run_transfer` and
`handle_data_transfer`, which run in two threads without a lock.

| Code | Model |
|---|---|
| the control socket, each direction | `toServer`, `toClient`: queues; nothing is lost or reordered |
| the order of commands, in which replies are expected | `sent`, `cliNumber`, `tNumber`: numbers that only the properties look at |
| `self.transfer_thread` | `threadSet`; a test and a use of it are two steps |
| `_client_context`, its cancel event, `_client_abort_requested` | `context`, `cancelled`, `abortRequested` |
| the data socket, and the session's `pasv_udp_sock` or PORT address | `socket`, `address`: the number of the PASV or PORT it was made for. `NoSocket` is None; `Unbound` a socket that `udp_client_set_active` assigned and could not bind |
| TID in a 150 reply | `about` of the reply, kept in `tTransfer`; `"unhashed150"` is a 150 whose `SHA256=` is empty, as the file could not be hashed any more, and which the client does not parse |
| `RETR`, `LIST`, `NLST`; `STOR`, `APPE`, `STOU` | `RETR`; `STOR`. What only listings do is `T_BufferRaises`: the exceptions of `udp_client_receive_buffer` |
| a thread that ends between its 150 and its final reply | counted in `abandoned`, a history variable |
| ABOR during a transfer | `U_Alive`, then `udp_client_abort_transfer` as `U_SetFlag`, `U_CheckContext`, `U_Cancel` |
| Ctrl-C, `disconnect` | the line `"interrupt"`: ABOR, `join(timeout=3)`, QUIT |
| a `None` where a method is called | `cliPc = "crashed"` |

The server takes one command at a time. `S_Other` is any command that touches none of
this, and a data command or PORT refused for its argument. Sender and receiver
meet on the data port only if they use one address and one TID (`Reached`,
`Joined`); what they then do is `StopAndWait`'s. An unbound socket meets nobody. The client's
`misread`, `wrongFile` and `abandoned` are history variables.

What is left out: a send never fails; nor does a bind to port 0, which PASV's client socket uses; the interrupt comes at the prompt, not
while the command line waits for a reply; a server whose
command loop ends because a RETR in ASCII cannot read the file it has just found; a line entered at the moment at which
the transfer thread finds the connection closed; jobs that raise (their client waits for good,
which `SessionNoFinalReply` shows of the server alone). The input loop that
Windows uses reads key by key and has the same branches.

### FileTree and ControlSession

A tree maps the paths that exist to `"dir"` or `"file"`; a path is the sequence
of its components. The root is `/srv`, and beside it stands `/srvold` with a file
in it, whose name begins like the root's. Arguments may be absolute or relative
and hold `.` and `..`.

| Code | Model |
|---|---|
| `os.path.realpath`, and what the kernel does with a path | `Walk`, `Entry` |
| `resolve_safe_path` | `Resolve`: `Target` joined, `RealPath`, `InsideRoot` (the separator appended to the root is `Under` rather than a prefix of the text) |
| `get_ftp_path` | `FtpPath` |
| resolve, test, call of one handler | three steps: `S_Command`, `S_MayMake` .., `S_MakesDirectory` .. |
| `session.current_dir`, `rename_from_path` | `currentDir`, `renameFrom` |
| `udp_receive_file`'s directories and names | `upPc`, `U_MakeParent` .. `U_CleanUp`: after the receive a rename (`U_Install`), a conversion and its rename (`U_Convert`, `U_Replace`), or an append (`U_Append`) |
| all other sessions | `Others`: any call at any time inside the storage |

The staged file has two names in the code, `.upload.<TID>.part.<TID>` and then
`.upload.<TID>`; both are `Part` here. The file of an ASCII conversion, `<stem>.tmp.ascii`, is
`Converted`; one name per directory stands for those of all targets. An upload to `/` or `.` resolves to the
root itself and is staged beside it, outside the storage; the rename fails
and it is removed. In ASCII it is also converted beside the root, and that file
stays (finding 6): `OutsideKept` says that these two are all that is ever made outside. Another session may remove the staged file, or rename a directory above it;
the cleanup then looks at the wrong place and the file stays
(`displaced`). After that the instance starts no further upload. A rename by others of
an empty entry that is not a staged file is left to a removal and a creation. Symbolic links and
trailing slashes are not modelled, nor is a client that names a file like a staged or converted one. The session is logged in.

## 3. Runs

| Run | Instance | Shows |
|---|---|---|
| `StopAndWait` | 5 files up to 3 chunks, 1 retry, sequence numbers to 2, leftovers of another transfer, I/O errors | type invariant, six safety invariants, `CancelBeforeFinIsFinal`, `Termination`, and `Delivers`: the protocol implements `ReliableDelivery` |
| `TransferSession` | 2 data commands | the session's invariants, `FirstAbortStops`, `NotBusyForever`, `EveryTransferAnswered` |
| `UploadStore` | 2 uploads of any kind to 2 files of one stem or a directory, I/O errors | the store's invariants and `ChangedWhole` |
| `FtpSystem` | 3 lines of the user, with the PASV of a transfer thread and the QUIT of an interrupt on top, 1 abort, 2 jobs | `RepliesBalance`, `NoWaitInVain`, `InStepWithoutSurplus`, `OneReader`, `SamePort`, `AbortReachesTransfer`; no deadlock |
| `ControlSession` | 2 names, paths of 3 components, 7 entries of which 4 are there from the start | `OutsideKept`, `RootStays`, `ResolveAgrees`, `PwdLeadsBack`, `StagedIsRemoved`, `ParentHeld` |
| `SessionAbortInstalls`, `SessionAbortCrash`, `SessionLostAbort`, `SessionNoFinalReply` | 1 or 2 data commands | violations: see below |
| `StoreSharedTemp` | as `UploadStore`, temporary files shared, no I/O errors | violation: see below |
| `SessionLeavesTemp` | as `ControlSession` | violation: see below |
| `FtpWrongFile` | 4 commands, RETR and ABOR only, 1 abort, 1 job | violation: see below |

The passing runs take up to about 100 seconds each; every action fires in one of them.

**Why the bounds are enough.** Files: the empty one, two of equal size and
different content (a wrong hash with the right size), a prefix of another (a wrong
size), and one with a chunk more than the sequence numbers hold (`S_EncodeError`).
Two chunks are needed for a window of one to be exceeded, three for a late
duplicate of the chunk before last. One retry gives a first attempt, a repeated
one and the limit; since the network repeats datagrams anyway, more retries add
no new message. One leftover from the right address and one from a stranger
exercise both filters. Two jobs are the fewest whose threads can overlap; a third
cannot overlap with both others in a new way, as `OneJobAtATime` and the proofs for any number of
jobs show. Uploads: what one can meet of another is one job's step at a time, so two
exercise every pair of steps; contents of zero, one and two pieces give an append
that another can come between, a write shorter than what is there, and a line end to convert. The network needs no bound: the set of possible
datagrams is finite.

Client and server: `MaxSent` bounds when the user may enter another line; the PASV that a
transfer thread sends on its own and the QUIT of an interrupt come on top
(`Numbers`). Three lines are a PORT or PASV, a transfer and an abort, or a transfer
with an ABOR and a command that may meet what the ABOR left behind.
`MaxBeforeInterrupt` keeps one line for the interrupt, `MaxJobs` lets a worker
overlap with its successor. With four lines and few kinds of them
`FtpWrongFile` finds its behaviour. `ControlSession`: two names and two levels
under the root are the fewest in which a directory can be moved into another, or
replaced by a file, while a path leads through it; three entries are a
directory, an entry in it and one more for the staged file, or both files of an upload and
a directory. Names
are interchangeable (`MCSymmetry`; arguments are closed under their
permutation). `OfferAlone` keeps a session with a pending RNFR from
other commands: the offer is an absolute path, and what this session could do to
the tree in between, others do.

**Fairness.** `StopAndWait!FairSpec`: each end keeps taking the steps of its loop
and its deadlines pass. The retransmission deadline is fixed before the waiting
loop, so weak fairness of `S_Timeout` is what the code gives. The idle deadline is
set anew whenever a datagram decodes; a datagram is delivered finitely often, so
silence recurs, but it is not continuous in the model where a packet can always be delivered once more:
strong fairness of `R_IdleTimeout`, the only one. Nothing is assumed of delivery,
cancellation or errors. `TransferSession!FairSpec`: a started ABOR handler and
every worker go on; a worker's blocking calls all have timeouts (5 s for READY; the transfer by
`Termination`). The client is never assumed to send anything.

`FtpSystem`, `ControlSession` and `UploadStore` have no liveness property and assume no
fairness. That nobody waits for good in `FtpSystem` is stated as safety instead:
`NoWaitInVain` says that a reply is on its way for each reader, and the deadlock check, with
`Resting` as the only state in which the system may stop, that somebody can move.

**What the code does not keep.** Seven runs check what a document or a test says,
and TLC finds a behaviour of the code against it:

1. `SessionAbortInstalls`: `ABOR` is answered with 426 while the worker is past its
   last look at the cancel event; the upload is installed all the same.
2. `SessionAbortCrash`: `transfer_context` is tested and read again; the worker
   clears it in between and the `AttributeError` ends the control session.
3. `SessionNoFinalReply`: the cleanup of a failed upload raises when the target's
   parent is a file; the worker ends without 426.
4. `SessionLostAbort`: the old worker clears `abort_requested` last, after the next
   transfer may have been accepted and aborted; 426 is sent, the transfer goes on.
5. `StoreSharedTemp`: two ASCII uploads to `note.txt` and `note.md` convert through
   one `note.tmp.ascii`; one of them is answered with 226 although the other's text
   was put in its place. (With temporary files of their own the property holds: `UploadStore`, and is proved.)
6. `SessionLeavesTemp`: `TYPE A` and `STOR /` convert into a file beside the storage
   root, `<root>.tmp.ascii`, although `file_system.py:1` has file operations constrained to the root;
   the rename onto the root fails, and the file stays. It stays in the same way inside the
   root when the target is any other directory, although `docs/integration-guide.md:226` has temporary files
   removed after a failure: the handler (`data_transfer.py:254`) knows the staged upload only.
7. `FtpWrongFile`: an ABOR sent while the transfer thread waits for 227 leaves one reply too many
   in the stream; from then on each command reads its predecessor's, and a later `RETR b`
   saves the contents of `a` under `b`'s name.

More shows in the models without a run of its own:

- An error in sending FIN_ACK or in the linger loop (`receiver.py:120-121`) makes the receiver report failure after
  the destination was replaced, although `docs/integration-guide.md:225` says that a failed
  transfer does not replace it. `Delivers` allows that outcome (`ReceiverRaises` with the
  file in place); without I/O errors it does not occur, which is proved (`FailureKeepsDestination`).
- A file that is removed, or becomes unreadable, between the server's test (`tcp_server.py:506`) and its
  hash (`:534`, `file_system.py:68-69`) gives a 150 with an empty `SHA256=`, which the client refuses
  (`control_client.py:177-180`); `docs/integration-guide.md:145-148` has the client parse the hash that the server calculated. The
  thread returns, the worker's final reply is left in the stream, and the next command reads it. The same
  follows from an exception in `udp_client_receive_buffer` (`data_transfer.py:489`, `:498`).
  `RepliesBalance` has one reply too many for each such end, and `InStepWithoutSurplus` holds
  only while there is none.
- A PORT whose bind fails leaves an unbound socket (`data_transfer.py:432-433`). The next data
  command runs on it: a download listens on a port that nobody knows until it times out. `SamePort` is about bound sockets.
- 226 is sent before `transfer_active` is cleared, so the client's next command may get 450
  (`C_Refuse`); and the client's command line ends with an exception if the transfer
  thread ends between its two reads of `transfer_thread` (`U_Raises`). No document forbids either.

## 4. Proofs

All for arbitrary constants, from `ParameterAssumption` and `StrayAssumption`
(`StopAndWait`), `MaxJobsAssumption` (`TransferSession`, `FtpSystem`), `BoundsAssumption` (`FtpClient`, `FtpSystem`), `StoreAssumption` and
`NameAssumption` (`UploadStore`: uploads name neither temporary nor staging files), `InputsAssumption`
and `NamesAssumption` (`ControlSession`: names are what the operating system takes as names, and
not those of the files the server makes for an upload).
`SizeAssumption` of `FileTree` is for the runs.

**StopAndWait.** `Typing` comes first. The invariant `Inv` then says what the two
ever-growing sets of datagrams can contain, which is what makes the properties inductive:

- `ToReceiverOK`: a DATA packet of this transfer carries the chunk its number names and no
  number beyond the sender's `sequence`; a FIN carries `Len(sent)`;
- `ToSenderOK`: an ACK names a chunk below `expectedSeq`; a FIN_ACK carries
  the digest of the announced file, and is there only once the destination holds it;
- `SequenceOK`, `TempOK`, `DestinationOK`: the counters, the temporary file (a
  prefix of `sent`) and the destination (original, or the announced file) by place
  in the code.

`SenderSuccessMeansDelivered` follows: the sender returns only on a FIN_ACK with
its own hash, such a packet exists only if the destination holds the announced
file, and digests are injective. `Implementation` proves `Spec => Delivers` by
showing that each step is one of `ReliableDelivery`'s or a stutter (`R_Verify` is
`Deliver`). `CancelIsFinal` has an inductive statement of its own
(`CancelledEarly`). `FailureKeepsDestination` assumes `~IoErrors`, without which
it is false (an error after the destination was replaced). `PeerIsSender` follows from what the invariant says of the latched peer.

**TransferSession.** `ActiveIsLast`: a job that has not yet cleared
`transfer_active` is the last one started, and the flag is set; `ContextOK`: the
registered context is that of a job at a place between registering and clearing it. `MutualExclusion` and
`ContextIsCurrent` follow. `FirstAbortIsFinal` is about the first job, for any
number of later ones: ABOR writes the flag and then looks for the context, the worker
registers the context and then looks at the flag, so one of them sees the other.
`AbortInv` says which of the two it was at each pair of places, and `Stopped`, which holds when ABOR
answers, says that the job is cancelled, or has yet to look at a flag that nobody resets before
it does, or has failed; each step keeps it, and none of these can be installed.

**FtpSystem.** `SystemImplementsSession` is a refinement: each step of client and
server together is one of `TransferSession` or leaves the session's variables
alone, so its theorems hold of the server with the real client. `ClientInv`
has two parts. `NoThreadMeanwhile`: while the command line waits for a reply to anything but
the QUIT of an interrupt there is no transfer thread, as only the command line starts one;
`ReadersTakeTurns` follows. `ContextKept`: a running transfer's context is
registered and nobody removes it, so that the client's flag-then-context against
context-then-flag gives `AbortIsSeen`.

The types of the two queues (`SystemTyping`) rest on the refinement: what the server puts into
them is described by the session's steps, whose invariants hold in the system.

*Counting replies* (`FtpSystemReplyProofs`). `NoWaitInVain` is not inductive: an ABOR on its way
will take over the final reply of a running job, so that a balance that is even now is short
by one then. `Balance` compares `Excess`, what the server owes beyond what is awaited, with the final
replies that may still be taken over (`Expected`) and with the ABORs and QUITs that may take
them over (`Skips`); it is at least one of the two, as each stop takes over at most one
reply and each reply goes at most once. Two more conjuncts are about a QUIT that an interrupt has
yet to send and about the PASV of a transfer thread, `NotTooMany` bounds the excess by the ABORs sent and the threads that
ended before their final reply (`abandoned`): such an end takes one reader away, so it adds one to the excess and one to the bound.
`NobodyWaitsInVain` and `RepliesAreBalanced` follow. The sums are cardinalities of
positions in queues and of jobs; the lemmas at the start of the module say how `Append`, `Tail`
and one job's step change them.

*Whose replies* (`FtpSystemOrderProofs`). Without an ABOR, and with `abandoned` zero, the balance leaves at most one
command or final reply under way, and `InStep` says for each thing under way (command, reply, job, stop)
that the one reader that waits has asked for it; `InStepTillSurplus` follows. `TransfersMeet`
holds with any number of ABORs, as long as nobody has misread, of transfers on a bound socket. It needs the order of
numbers: `Sequencing` says that what is still to be taken is later than all that
has been answered and that a command answered with 227 has no other answer.
`PortInv` then follows the port through the four places at which the two ideas of it may
differ: the PASV or PORT on its way, its answer on its way, the client's socket already
bound to a PORT, and a refused PORT.

**UploadStore.** `UploadsOK` says at which places of the code a staged upload may
exist; `StagedUploadsRemoved` follows. `TrueOutcome` needs to know that nobody else reaches the
files a job works on, although all use one disk: a received file has
only its staging name and no open handle until it is renamed (`ReceivedOK`), and
the file a job converts into, once created, only its temporary name and the
job's own handle (`CreatedOK`). So what is read, converted, written and renamed is what was
received (`ConvertedOK`, `StoredOK`). The frame lemmas say which files a step can
reach: those a job finds at its own names. `TrueOutcome` assumes `~SharedTemps`,
without which it is false (finding 5). An upload whose cleanup raises is the one that may keep its
staged file; the theorems say so in their cases. `WholeChanges`, under the same
assumption, adds that each file has an owner (`OwnerOK`: the target at which it was found, or that of
the upload that brought it), so that no file is at two targets and a copying job has none open
but its own target's; all other writes go to files that are at no target.
`NothingAppendedIsLost` needs no such assumption. It states `AppendsAddUp`: the files found at targets that are only
appended to are `Lasting`, the old ones and those made by an append, and no conversion ever has one
open, shares one or renames one (`LastingOK`). `AddedOK` keeps a map from the pieces copied to their
places in the file; a step of a copy extends it by the places after the last one (`PlacesExtend`).
TLC checked `LastingOK`, `FreshOK` and `CopiedOK` first, with and without shared temporary files.

**ControlSession.** The theorems hold for any names, any arguments and a file system of any
depth and size, the bounds of the run being parameters. The invariant `Inv`:

- `Storage`: the tree is well formed, the root is a directory, what is outside it is as it was,
  and a staged name is that of a file;
- `PathsOK`: `current_dir`, `rename_from_path`, the resolved path and the destination of an upload
  are `Confined`: below the root, without `.` and `..` but perhaps at the end;
- `PlacesOK`: which paths are set at which step of a handler or an upload;
- `StagedOK`: the only staged file is that of the upload under way, and it is there
  while the upload waits to be installed, unless another session has displaced it.

The dots at the end of a `Confined` path need care: `realpath` of a path through
a file ends in the `.` or `..` that could not be followed, and such a path has at least three
components, since the file is not the root. So its entry, when the file has given way to a
directory, is still in the storage (`EntryConfined`), and RMD and RNTO refuse it. A
rename that changes anything is a `Move`, which `MoveStorage` treats by what it takes
(`Taken`) and what it leaves (`Left`). `RootIsKept` needs no test for RNFR and RNTO: a
rename of the root would have to put it under itself, and to replace it takes a
directory that is not below it, which no call names. `ResolvingAgrees` compares `resolve_safe_path` with the kernel in the three
cases that `RealPathLeads` distinguishes: the target exists, only its parent does, or neither.
`DirectoryIsHeld` follows since a tree that has a file has all directories above it (`AboveExists`),
so that `makedirs` changes nothing (`MakeDirsNothing`).

`Walk` and `MakeDirs` are recursive functions, so their lemmas need that such a function exists and an
induction over its argument. Both come from `WFMin` for `<`: a set of numbers that has 0 and with each
`n` the next has them all (`NaturalInduction`), hence a function can be iterated
(`Iteration`), and a set of sequences closed under `Append` has them all (`SequenceInduction`).
In this form an induction takes no operator as a parameter. The invariant was checked by TLC on the
instance of the run before it was proved.

**Only model-checked:** the liveness properties, which are out of the prover's reach; every
safety property that a passing run checks is proved. That
the model's file system is that of the kernel is not proved but read off its definitions.

## 5. Not modelled

Durations; the byte layout of packets and CRC-32 (a corrupted datagram is taken
not to decode); statistics, progress, prompt and logging; login (two fields that only
the command loop reads) and TYPE (whose effect is `ascii` in `UploadStore`); the commands
that only report (PWD's reply is `PwdLeadsBack`; STAT, SIZE, MDTM, HASH, HELP, MODE and
the text of listings are not there); how STOU chooses its name (it takes descriptors
and a clock); symbolic links; the content of a file that another session deletes or renames while
an append is under way (`ControlSession` has the directories, `UploadStore` the
contents); connecting and logging in at the client; the accept loop,
which keeps nothing a session reads back.

## 6. Plan

1. *(done)* `ReliableDelivery`, `StopAndWait`, `TransferSession`, `UploadStore` and their
   proofs.
2. *(done)* `FtpClient`, composed with `TransferSession` as `FtpSystem`, and its proofs;
   `FileTree` and `ControlSession`.
3. `RdtTiming`: the protocol's last phase with a discrete clock: linger of 2
   retransmission timeouts against 11 attempts, idle timeout against retries.
4. STOU names: chosen, then used, with descriptors and a clock of seconds.
5. *(done)* Proofs: `NoWaitInVain`, `RepliesBalance`, `InStepWithoutSurplus` and `SamePort` of the system;
   all safety properties of `ControlSession`; `AppendsAddUp` of the store.
6. `UploadStore` with DELE and RNTO of other sessions on the contents.
