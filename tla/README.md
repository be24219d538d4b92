# ION-DTN in TLA+

TLA+ models, TLC runs and TLAPS proofs for the ION implementation of delay-tolerant networking in
this repository. All of ION stands on one thing, the transactional heap SDR (`ici/sdr`): bundles,
queues, sessions and plans are objects in it, and every daemon changes them inside SDR transactions.
The transaction engine comes first here. The UART convergence layer (`bpv7/uart`) comes second: it is
what this fork of ION adds. (The name of the repository mentions COBS framing; the sources contain
none.) Then come the LTP sessions, the largest protocol engine below BP, the admission to ZCO
space, through which every block and bundle passes, and the bundles' way through a node, from the
application or one neighbour to the next.

Contents: [inventory](#inventory) · [modules](#modules) · [SDR](#the-sdr-transaction-engine) ·
[UART](#the-uart-convergence-layer) · [LTP](#ltp-sessions) ·
[ZCO space](#admission-to-zco-space) · [bundles](#bundles-through-a-node) · [runs](#runs-and-bounds) · [fairness](#fairness) ·
[proofs](#proofs) · [divergences](#where-code-and-documents-disagree) ·
[what is not modelled](#what-is-not-modelled) · [plan](#plan).

## Inventory

| component | state it keeps | operations | interacts with | what makes it correct |
|---|---|---|---|---|
| SDR transaction engine, `ici/sdr/sdrxn.c` | `SdrState` in shared working memory (semaphore, owner, depth, cancel flag, log length and entries), dataspace in file and/or memory, log in file or memory; `SdrView` per task | `sdr_begin_xn`, `sdr_end_xn`, `sdr_cancel_xn`, `sdr_exit_xn`, `_sdrput`, `_sdrfetch`, `sdr_load_profile`, `sdr_reload_profile` | everything; started by `ionInitialize` or `sdrmend` | mutual exclusion through nesting and failure; all or nothing; recovery from a crash at any point |
| SDR heap and collections, `sdrmgt.c`, `sdrlist.c`, `sdrhash.c`, … | `SdrMap` free lists, list and hash nodes in the dataspace | `sdr_malloc`, `sdr_free`, list and hash operations | transactions above, BP and LTP below | blocks neither overlap nor leak; lists are doubly linked |
| Shared memory and semaphores, `platform_sm.c`, `psm.c`, `smlist.c` | semaphore table with `ended` flags, partitions | `sm_SemTake`, `sm_SemGive`, `sm_SemEnd`, `sm_SemUnwedge` | all daemons | a give is never lost; an ended semaphore stops everyone |
| Restart, `restart/utils/ionrestart.c` | `halted`, `restartCmd` | hijack of a reversed transaction, restart of the daemons | SDR, all daemons | one owner at a time across the hijack |
| ZCO, `ici/library/zco.c` | reference counts, occupancy accounts | create, clone, transmit, destroy | BP, LTP | counts reach zero exactly once; limits are respected |
| ZCO space requisition, `ici/library/ion.c`, `ici/daemon/rfxclock.c` | the requisitions of each account, in order of priority; the semaphores of attendants | request, award, wait, create, shred; revocation by the clock | ZCO (its callback), every task that makes ZCOs | space is not promised twice; a waiter is served; the space of the dead comes back |
| Contact plan, `ici/library/rfx.c` | contacts, ranges, timeline | insert, remove, clock events | routing, LTP | range and contact state agree with the plan |
| LTP, `ltp/` | export and import sessions, checkpoints and reports with their timers, the segment queue of a span, import buffers, closed-session notes, deliverables | `ltp_send`, segmentation by `ltpmeter`, one handler per segment type, one per timer, delivery by `ltpdeliv`, cancellation by either end, stopping a span | BP, link services, ZCO space | a block is delivered whole; the sender's notices tell the truth; sessions end; nothing of a dead session stays queued |
| BP agent, `bpv7/library/libbpP.c`, `bptransit`, `bpclock` | bundles, the hash table of their keys, transit and forwarding queues, limbo, plans, ducts, timeline | send, acquire, forward, dequeue, result of a transmission, expire, block and unblock a plan | forwarder, `bpclm`, convergence layers, ZCO | a bundle is in exactly one place; the key names the right bundle; none is lost; every bundle leaves |
| Routing, `bpv7/ipn/ipnfw.c`, `bpv7/cgr/libcgr.c` | overrides, exits, routes computed from the contact plan | take a bundle from the forwarding queue, choose plans, copy, send to limbo or abandon | BP agent, contact plan | every bundle taken is queued, kept or abandoned |
| BP transmission, `bpv7/daemon/bpclm.c` | plan queues, throttle | select, fragment, hand over to a duct | BP, outducts | a bundle handed over wakes the duct's daemon, and is handed over in a contact only |
| UART convergence layer, `bpv7/uart` | the duct's buffer and semaphore, ports, the chunk being read | `uartclo`, `uartcli` | BP, serial line | every bundle is accounted for; order is kept; a stop is honoured |
| BSSP, CFDP, DTPC, AMS, DGR, network management, administration tools | — | — | BP, LTP | see [what is not modelled](#what-is-not-modelled) |

Components interact in three ways: by SDR transactions (a mutex around shared data), by semaphores that
both announce work and order a daemon to stop, and by the medium between nodes.

The hard behaviours, each listed at its line in `PROJECT.json` under `hazards`: transactions closed in
an order nobody meant (a cancel inside, an exit outside); a write that fails between undo log, file
and memory; a crash between any two of these, or during recovery; flags that outlive the
transaction they belong to; signed results compared with unsigned lengths; one semaphore for two
meanings; a byte stream cut into chunks by size and by time; segments, timers and cancellations of two
engines that cross; a wait between two transactions, after which the session, the bundle or the contact may be gone;
space promised now and occupied later; results that find their bundle by a key that copies share.

## Modules

| module | what it is |
|---|---|
| `AtomicStore` | what a reversible SDR promises: begin, write, commit, abort of one transaction at a time |
| `SdrXn` | the transaction engine: one action per operation, and one per write to log or dataspace |
| `MCSdrXn` | model values, symmetry and view for the runs of `SdrXn` |
| `MCSdrModes` | three more configurations of `SdrXn` in one run |
| `SdrXn_proofs` | types, mutual exclusion, and what `sdr_end_xn` reports, for every value of the constants |
| `SdrAtomic_proofs` | atomicity, for every value of the constants that keeps the SDR protected |
| `SdrStore_proofs` | recoverability, and that a protected SDR implements `AtomicStore` |
| `Lists` | lists from which elements are removed wherever they stand |
| `ListLemmas` | facts about numbers, lists, and lists that enumerate a set, that several proofs need |
| `UartCl` | output daemon, serial line and input daemon, with the parts of BP they call |
| `MCUartCl` | bundle lengths for the runs of `UartCl` |
| `UartCl_proofs` | order of delivery and stewardship, for any number of bundles and faults |
| `LtpBlock` | what LTP promises about the red part of a block, for both clients |
| `LtpSession` | two LTP engines and the segments between them; implements `LtpBlock` |
| `MCLtpSession` | for the runs of `LtpSession` |
| `LtpSession_proofs` | queues, closed sessions, buffers, and that two engines implement `LtpBlock` |
| `ZcoSpace` | requisition of ZCO space, with the clock daemon's revocation |
| `MCZcoSpace` | sizes for the run of `ZcoSpace`, and `ZcoSpace` with equal and with mixed priorities |
| `ZcoSpace_proofs` | what an awarded requisition is worth, for any tasks, needs and priorities |
| `BpXmit` | bundles on their way through one node: forwarder, plans, ducts, results, limbo, clock |
| `MCBpXmit` | the contacts of the two plans for the runs of `BpXmit` |
| `BpXmit_proofs` | every safety property of `BpXmit` that its runs check, for any bundles, keys, plans and contacts |

The components do not share variables. Transactions are what ties them to `SdrXn`: those in which `bpDequeue`,
`bpclm` and bundle acquisition run are single steps of `UartCl`, those of the LTP daemons single steps of
`LtpSession`, those of a requisition single steps of `ZcoSpace`, all of `BpXmit`'s actions are one transaction each, which is what `SdrXn` shows of the SDR,
failures and crashes aside. `ltpdeliv` is a client of `ZcoSpace`: its wait for space is the gap between
`DelivFinds` and `DelivDelivers`; so is `bptransit`, between `TransitRequest` and `TransitMove`. `BpXmit` and `UartCl` meet in `bpDequeue`
and the transmission handlers: `UartCl` shows that `uartclo` calls one of the two for each bundle it is steward of, which is what
`BpXmit` takes for granted of a convergence layer. Definitions named `...Unchecked`, `...Silently` and the like are plausible
bugs, each with a comment "Mutant"; no specification uses them. They are there to see that a
property would notice.

## The SDR transaction engine

State. `semFree`, `sdrOwnerTask`, `xnDepth`, `xnCanceled`, `logLength` and `logEntries` are the fields of
`SdrState` (`sdrP.h:83-92`). `log` holds the cells of the log, a control cell (address and length) and a data
cell (the old bytes) per entry; `dsfile` and `dssm` are the two copies of the dataspace; `modified` and
`logfd` belong to a task's `SdrView`. `logfd` is the position of the view's descriptor: `AtEnd` when
`sdr_start_using` opened the file for appending, a number after `clearTransaction` reopened it with
`O_TRUNC` and without `O_APPEND`. `pc`, `put` and `rev` say where a task is inside `_sdrput`, `terminateXn` or
`reverseTransaction`. `level` counts the transactions the task's program has begun and not closed, which is
not `xnDepth` once `crashXn` has unlocked under the program. `phase` and `loaded` are the node's:
running, down, or being brought up by a tool. `committed` and `verdict` are history.

| action | code |
|---|---|
| `SdrBeginXn` | `sdr_begin_xn`, `takeSdr`, `lockSdr` |
| `SdrEndXn`, `SdrCancelXn`, `SdrExitXn`, `CloseAfterCrash` | the closers, as owner or not |
| `SdrWrite`, `PutCtl`, `PutData`, `PutFile`, `PutDram` | `_sdrput`, one write at a time, with every failure that leads to `crashXn` |
| `BadAccess` | range and boundary violations of `_sdrput` and `_sdrfetch` |
| `TerminateXn`, `ReverseEntry`, `ReverseDone`, `ReverseFails` | `terminateXn`, one turn of `reverseTransaction`, `handleUnrecoverableError` |
| `SdrStopUsing` | `sdr_stop_using` and a new `sdr_start_using` |
| `Crash` | all tasks die (`kill`), or the machine loses its memory too (`power`) |
| `LoadProfile`, `ProfileLoaded`, `RecoverEntry`, `RecoverDone`, `RecoverFails` | `sdr_load_profile` and `sdr_reload_profile` |
| `IonInitialize` | the first transaction of `ionInitialize` |

Abstractions. The dataspace is a function from words to values, and a write changes one word. Real entries have
any length: a misread control cell is therefore an arbitrary length, taken to run past the log's end.
Bytes that were never data are `Garbage`. A `write()` that fails part-way leaves a damaged word. Files keep
what was written in the order it was written: the code never calls `fsync`, and nothing is said about the
page cache. A task is a process with one thread, and a program does not write outside a transaction
(`sdr_write` refuses). `LogSize` is the capacity of a memory log; for a log file it only bounds the model.

Properties.

- `Exclusive`: while the node is up, the semaphore is free exactly when nobody owns the transaction; a task
  that writes, reverses or has aborted owns it; the depth never exceeds what the owner's program has open.
- `AtomicAtRest`: with no transaction open, file and memory both hold what the last transaction that was not
  reversed left.
- `Recoverable`: in every state, the middle of a write, a reversal or a recovery included, undoing the log as
  the next load would find it gives the last committed contents. This is the write-ahead rule.
- `RefinesAtomicStore`: `SdrXn` implements `AtomicStore`. The store is what `Recoverable` computes; the abstract
  transaction closes at the truncation of the log (commit), the moment the transaction starts to be
  undone, or the crash.
- `EndReportsFailure`: when the outermost level has been closed, `sdr_end_xn` gave -1 only after a failure,
  and 0 only without one, for any nesting.
- `UndoneOnlyIfAsked` (does not hold): a transaction is reversed only if it was cancelled or failed.
- `RecoveryCompletes`: a node that is down comes up.

## The UART convergence layer

State. `xmitBuffer`, `semGiven` and `semEnded` are the outduct's list and semaphore; the semaphore is binary
because a System V semaphore is set to one by a give here, and an ended one is given again by whoever takes it
or looks at it. `clo` is where
`uartclo` is in its loop; `ductSocket`, `bundle` and `bytesSent` are its variables; `line` holds bytes on
their way; `uartPort` and `received` are the receiver's port and buffer. `fate` follows each
bundle at the sender: `forward`, `queued`, `steward` (dequeued with stewardship), `sent`, `destroyed`.
A byte is a pair of bundle and index, so that chunks can be compared with bundles.

| action | code |
|---|---|
| `Bpclm` | `bpclm` moves a bundle to the duct's buffer and gives the semaphore |
| `CloLoop`, `CloDequeue`, `CloNoBundle`, `CloTakeSemaphore` | `uartclo`'s loop and `bpDequeue` |
| `CloTooBig`, `CloOpen`, `CloWrite`, `CloHandle` | `sendBundleByUart`, `openUartPortWrite`, `sendBytesByUart`, the transmission handlers, and the test of the result at `uartclo.c:203` |
| `CliOpen`, `CliRead`, `CliTimeout`, `CliReadFails` | `openUartPortRead`, `receiveBytesByUart` |
| `CliAcquire` | `handleDatagrams`, `bpBeginAcq`, `bpContinueAcq`, `bpEndAcq` |
| `ShutDownClo`, `StopOutduct`, `ResetOutduct`, `StartOutduct`, `StopInduct`, `StartInduct` | the operator's requests and `bpStopOutduct` |

Abstractions. `uartclo` calls `bpDequeue` with a timeout of 0, so stewardship is accepted for reliable bundles
only (`Reliable`). Bytes in the middle of a bundle parse as no bundle. The line itself neither loses nor
changes bytes; a port that was never put in raw mode may (`Mangled`). Baud rate and the rate control of the
loop are left out. Failures of SDR transactions inside the daemons are not modelled here.

Properties.

- `InOrderOnce`: bundles come out in the order of the writes, none invented and none twice, however chunks
  split and merge and whatever fails, is retried or restarted.
- `StewardshipResolved`: when `uartclo` goes for the next bundle or ends, it keeps no bundle for which
  stewardship was accepted.
- `StopHonoured`: an ended semaphore ends `uartclo`, wherever it is and although `bpclm` gives the same semaphore.
- `AllDelivered`: every bundle that fits is delivered if nothing fails and bundles are a second apart. It would
  fail if a give between the look into the buffer and the wait were lost.

## LTP sessions

State. `export[s]` is the `LtpExportSession` with number `s` at the sending engine: `open` (the current one, still
empty), `buffered` (a service data unit is in it), `live` (segmented by `ltpmeter`, entered in the hash), `dead`
(cancelled, waiting for the acknowledgment) or `closed`; with its checkpoints, their expiration counts and
timers, the claims merged so far and the reports already seen. `sdus` is the notice its client got. `import[s]` is the
`LtpImportSession` at the receiving engine, with its reports and timers. `xmitQueue` and `rcvQueue` are the
segment queues of the two spans, `net` what is on its way. `importBuffers`, `closedImports` and `deliverables` are the
receiving span's and engine's lists. `deliv` is what `ltpdeliv` has in its hands while it waits for ZCO space.
`whole` and `received` are history.

| action | code |
|---|---|
| `ClientSends`, `ClientBlocks`, `ClientWakes` | `ltp_send`, `sduCanBeAppendedToBlock` |
| `MeterIssues`, `MeterStarts` | the two transactions of `ltpmeter`'s loop: segmentation and `startExportSession` |
| `LsoSends`, `RcvLsoSends` | `ltpDequeueOutboundSegment` and `setTimer`, at either engine |
| `HandleRs`, `HandleCr`, `HandleCas` | the sender's handlers: merging of claims, completion, retransmission, cancellation |
| `HandleDs`, `HandleRa`, `HandleCs`, `HandleCar` | the receiver's: `acceptRedContent`, `sendReport`, `queueForDelivery`, closing |
| `CheckpointExpires`, `XmitCancelExpires`, `ReportExpires`, `RecvCancelExpires` | `ltpResendCheckpoint`, `ltpResendXmitCancel`, `ltpResendReport`, `ltpResendRecvCancel` |
| `StopXmit` | `ltpStopXmit` of a span that purges |
| `ForgetImport` | `ltpclock`'s `LtpForgetImportSession` event |
| `DelivFinds`, `DelivDelivers`, `DelivDeliversStale` | `ltpdeliv` before and after its wait for ZCO space |

Abstractions. A block is one service data unit, all red, of `RedPart` segments of length 1. Timers have no clock: one
that runs may expire in any state, which covers every round-trip time and every rate. The first checkpoint's serial number
and the reports' are random numbers in the code; here those of different sessions differ. A report fits one segment. The SDR's
failures are left out. The note of a closed session is dropped when the sender is done with the session
and none of its data is under way (what `libltpP.c:2935-2944` assumes of the time it computes).

Properties.

- `RefinesLtpBlock`: the service data units go back exactly once, with a Complete notice only when the other
  engine has had the whole block; a block is delivered only if it was whole and not cancelled since. This is the
  heart of the protocol: that the union of claims of late, lost and repeated reports is true.
- `QueuedDataIsLive`: no data segment of a dead session stays queued. `ltpDequeueOutboundSegment` that finds one returns
  inside its transaction (`libltpP.c:3585`), and the node stops.
- `BuffersOwned`: each import buffer is free once or belongs to one session.
- `ClosedStaysClosed`: late segments do not start a closed session again.
- `SdusReturned`, `ClientUnblocked`, `WholeSessionEnds`: the client gets its data back; a client that waits for room
  goes on; a receiver with the whole block gets rid of its session. All with a medium that owes nothing.
- `DeliveredOnce` (does not hold): one notice to the receiving client per block.

## Admission to ZCO space

State. `requisitions` is the list of one account in its order of service; a ticket is named by its task.
`secondsUnclaimed` is -1 until the requisition is serviced. `semaphore` is the value of the attendant's, given or taken (gives do not
add up), `ended` its flag, which `sm_SemTake` does not look at: `SemGive`, `SemTake` and `SemEnd` say what the functions do. `pc` is
where a task is in `ionRequestZcoSpace` and `ionCreateZco`, which run partly outside of transactions. Two variables are history:
`unoffered`, that a requisition has been given up or revoked and nobody has been offered space since; `overtaken`, the tasks
for which space was reserved when a requisition of higher priority was put in front of theirs, as long as they keep what they got.

| action | code |
|---|---|
| `Request`, `Provide`, `Look`, `Clear` | `ionRequestZcoSpace`: lodge, try, look, make the semaphore ready to wait |
| `SpaceAwarded`, `Wake` | `ionSpaceAwarded`, and the wait with `sm_SemEnded` after it, which gives an ended semaphore again |
| `Create`, `Shred`, `Destroy` | `zco_create` with awarded space, `ionShred`, `zco_destroy` with its callback `ionProvideZcoSpace` |
| `Clock` | the requisitions in `rfxclock`'s second |
| `Pause`, `Resume` | `ionPauseAttendant` from a signal handler, `ionResumeAttendant` |

Abstractions. One account and one kind of space; file, bulk and heap space are counted alike. A task has one requisition
and one ZCO at a time. The overhead of a ZCO (`sizeof(Zco)`), which the code does not reserve either, is left out.

Properties.

- `NoOvercommit`: what is occupied and what is reserved for living tasks fit in the account, but for what the `overtaken` need. With equal
  priorities nobody is overtaken. With mixed ones the code does promise space twice (see the divergences); that this is
  the only way to do so, and ends with those who were overtaken, is the property.
- `WokenIsServiced`: a task that wakes creates its ZCO without another look; it must have the space.
- `WaiterServed`: a task that waits, and whose need the account can meet, gets on, if again and again there is a moment at which whatever was
  given up has been offered to others since and no ZCO has lost its owner. No give that announces space is lost between the looks and the wait,
  whenever the task is paused, and no turn of the list passes anybody over. It claims something of runs with any number
  of withdrawals and revocations, not only of runs without.
- `ReservationsRecovered`: the reservation of a dead task is taken back.

In `zco_space` both liveness properties are claimed for equal priorities (`EqualWaiterServed`, `EqualReservationsRecovered`). With mixed
ones a task can be overtaken for ever, and `rfxclock`, which walks the list up to the first requisition that has not been
serviced (`rfxclock.c:578-603`), does not get past an urgent one in front. Prompt tasks are assumed; see the divergences for what happens without.

## Bundles through a node

State. `db` is the part of the BP database that a transaction reads and writes: `bundle[o]` is the `Bundle` at address `o`,
with the references to the lists it is in (`transitElt`, `fwdQueueElt`, `planXmitElt`, `ductXmitElt`), the plan whose contact's end
sets off its alarm (`overdueElt`, `Due` once it has), its place in the order of enqueueing (`enqueueTime`), what `dlvConfidence` says and
`returnToSender`; `hash[k]` is the `BundleSet` of a key; `transit`, `forward`, `limbo`, `queue[p]` and `buffer[p]` are the lists.
`open` and `left` are the contact plan, `clm[p]` where `bpclm` of a plan is, `candidate` the bundle for which `bptransit` waits for
space. `sent` holds the transmissions that the convergence layer has not finished, `network` the neighbours that have a copy.
`expired` and `excused` are history.

| action | code |
|---|---|
| `Send`, `Receive` | the last part of `bpSend`; `acquireBundle` with `bundleIsDuplicate`, `catalogueBundle` and `dispatchBundle` |
| `TransitRequest`, `TransitMove` | `bptransit` before and after its wait for ZCO space |
| `Ipnfw` | a turn of `ipnfw`: `enqueueBundle`, `tryCGR`, `sendCriticalBundle`, `enqueueToEntryNode`, `bpEnqueue`, `bpAbandon` |
| `ClmCheck`, `ClmWork` | `bpclm`: rate control and the wait; choice of a duct and hand-over |
| `BpDequeue` | `bpDequeue` with the decision about stewardship |
| `BpHandleXmitSuccess`, `BpHandleXmitFailure` | the handlers of the same names |
| `Arrive`, `Lose` | the convergence layer and the neighbour (external) |
| `Expire`, `Overdue`, `FlushLimbo` | `bpclock`: the two kinds of event, and `flushLimbo` |
| `BpBlockPlan`, `BpUnblockPlan` | the functions of the same names |
| `OpenContact`, `CloseContact` | `rfxclock` and the time of the alarms (external) |

An operator named after a function (`BpClone`, `BpDestroyBundle`, `EnqueueToLimbo`, …) gives the database that the function leaves.

Abstractions. No fragmentation, local destinations, static routes, overrides and passageways, multicast, suspended and detained
bundles, corrupt blocks, priorities other than one, and one duct per plan. The route search is a choice among the plans that are
neither blocked nor without a contact that is on or to come, and that do not lead back to the sender until the bundle has been
re-forwarded; each neighbour leads to each destination. A route's confidence has three values, so that a copy
is kept in limbo of a bundle sent over an `Unsure` plan; the limit on copies (`MAX_XMIT_COPIES`) and routes that improve it
by too little are left out. A bundle for which a contact may still come is either kept in limbo or abandoned (`cgr_prospect` is a choice).
Rate control is satisfied in a contact and not outside. The last contact of a plan does not end. A list element is named by its
bundle, so that the address `bptransit` compares may have been used again. Semaphores are left out: a daemon runs when it has
something to do. A bundle does not come back from a neighbour while a result of it is owed; the divergences say why.
The heap has room for `N` bundles: what needs an address when there is none does not happen (`HasRoom`), since the
transaction in which `sdr_malloc` or `bpClone` fails is cancelled. The daemons that stop then are not modelled.
Crashes are left to `SdrXn`: each step is a transaction. A bundle whose convergence layer dies as its steward is
then in no list until its lifetime ends.

Properties.

- `QueuesMatch`: every list holds exactly the bundles that refer to it, each once. Alarms, expiration and blocking
  take bundles out of lists that daemons are about to read.
- `CatalogueTrue`: the hash table counts the bundles of a key and names one only if it is alone. Clones,
  duplicates and destruction in any order must keep it so, since results are looked up by key.
- `StewardKept`: a bundle of which a result is owed is still there, out of all lists, and found by its key, unless its
  lifetime has ended.
- `InOnePlace`: a bundle that is not critical is in exactly one list or has exactly one steward.
- `NotLost`: an accepted bundle is here, on its way or at a neighbour, unless its lifetime has ended, it was abandoned
  for want of a route, or it was lost by a transmission without a steward.
- `SeniorFirst`: a queue is in the order in which its bundles were first enqueued, re-forwarded ones included.
- `EveryBundleLeaves`: a bundle leaves the node, if in the end some plan is not blocked and those that are not can take it.
- `HandedOverInContact` (does not hold): `bpclm` hands bundles over in a contact only.

## Runs and bounds

| run | what it shows |
|---|---|
| `sdr_full` | `TypeOK`, `Exclusive`, `AtomicAtRest`: two tasks, two words, file and memory, log file, nesting 2, one power failure, log, memory, short-write and reversal faults |
| `sdr_refines` | `Recoverable`, `RefinesAtomicStore`: two tasks, file only, two power failures, so that the second can hit the recovery from the first |
| `sdr_modes` | three other SDRs, one of which is chosen in `ModesInit` (`MCSdrModes`). `ModesAtomicAtRest`, `MemLogEndReportsFailure` (`AtomicAtRest` and `EndReportsFailure` of one or two of them): memory log of 5 cells, so that the third write overflows between control cell and data, and nesting 3; non-reversible without nesting, where the task aborts with the lock held. `RestartExclusive`, `RestartRecoveryCompletes` (`Exclusive` and `RecoveryCompletes` of the third): kills and power failures, `ionInitialize` and `sdrmend`, failed recoveries |
| `sdr_stale_cancel` | counterexample to `UndoneOnlyIfAsked` |
| `uart_faults` | `TypeOK`, `InOrderOnce`, `StewardshipResolved`, `StopHonoured`, `AllDelivered`: three bundles, any two faults, a stop and two starts racing with them; the line is spaced or not, chosen in `Init` |
| `ltp_faults` | `TypeOK`, `QueuedDataIsLive`, `BuffersOwned`, `ClosedStaysClosed`, `RefinesLtpBlock`: one block of two segments, two segments under way, a duplicate, one resend of each checkpoint, a span that purges |
| `ltp_live` | `SdusReturned`, `ClientUnblocked`, `WholeSessionEnds`: two blocks through a span of one export session, one resend of each report, sessions that end while `ltpdeliv` waits |
| `ltp_redelivery` | counterexample to `DeliveredOnce` |
| `zco_space` | `TypeOK`, `NoOvercommit`, `WokenIsServiced`, `EqualWaiterServed`, `EqualReservationsRecovered`: three tasks, one that does not wait, room for two of three, one death or interruption; priorities are equal, or the second task's are higher, chosen in `MixInit` (`MCZcoSpace`) |
| `bp_xmit` | `TypeOK`, `QueuesMatch`, `CatalogueTrue`, `StewardKept`, `InOnePlace`, `NotLost`, `SeniorFirst`: a critical bundle sent here and a mortal one received, a reliable and an unsure plan, two contacts and one, one failure, loss or block |
| `bp_live` | `EveryBundleLeaves`: one bundle, received twice, two failures or blocks |
| `bp_stale_contact` | counterexample to `HandedOverInContact` |

Why the bounds are enough. Two tasks contend for the lock and hand the descriptor and the flags from one
to the other; tasks without the lock do not act on shared state, so a third adds nothing new. Two words
and two values are enough for a wrong order of undoing: one word written twice, or two words. A log of two
entries (`LogSize = 4`) is the shortest with an order; `sdr_modes` adds an incomplete third entry. Depth 2
separates inner from outer levels; depth 3 adds an inner level that is not the innermost. One crash
tests recovery, the second tests a crash inside it. Fault bounds count occurrences in `UartCl` only; in
`SdrXn` a fault that may strike may do so at any time. For `UartCl`, a buffer of 3 bytes with bundles of
2 and 3 makes chunks that hold one bundle, a bundle and part of the next, and parts only.

For `LtpSession`, two segments per block are enough for a gap, a retransmission and a report of a part; two segments under
way for reordering; one duplicate, of any segment, for every handler's second call; `MaxReports = 2` is the code's
minimum, `MaxBacklog = 2` too. A resend of checkpoints and a resend of reports are in one run each, since together they
exceed what TLC can enumerate here. Sessions meet only in the span's limits, its queue and its buffers; the
second session of `ltp_live` is the one that has to wait. For `ZcoSpace`, the first task needs the whole account and the others
half of it, so that one can be in the way of two and two in the way of one; a second passes twice
before a revocation (`MAX_SECONDS_UNCLAIMED = 1`). With mixed priorities the urgent task needs half of the account, and so overtakes a
reservation of the whole as well as one of a half.

For `BpXmit`, two plans are a route and another one, or a sender and a way on. The critical bundle has a copy per plan and one for limbo, the other bundle
itself and a copy in limbo: five addresses are always enough, and all copies of both keys exist at once. Two contacts of a plan let a
bundle miss the first; one fault is a failure, a loss or a block, which meets expiration at any moment. In
`bp_live` the second receipt is a duplicate or comes after the bundle has left, and two faults are a failure on the way back too.

`VIEW NoVerdict` leaves out the history variable `verdict`, which no guard and none of the run's properties
read. Task symmetry is used only where no liveness is checked. Deadlock is not checked: a task that
aborts with the lock held stops a node for good, by design of the code, and a line with all bundles or
blocks sent has nothing left to do.

`sdr_full` uses no more faults than the code is meant to survive: `writeError` is left out because it does not survive it
(see below). In `uart_faults` the port may fail to open, but `StewardshipResolved` and `AllDelivered` say nothing once it
has, and the oversized bundle, of which `StewardshipResolved` says nothing either, is lost without a word.

## Fairness

`sdr_modes` assumes `WF_vars(Boot)` of the node that restarts: the operator starts the node and the tool runs on; tasks owe nothing, the
failure of a recovery (`RecoverFails`) is not part of `Boot`, and the crashes are bounded. A failed recovery unlinks the files
(`destroySdr`), so the next attempt starts from a fresh SDR and recovery ends. `uart_faults` assumes weak fairness of `uartclo`, of the receiver
thread, of `bpclm` and of the end of `bpStopOutduct`: each is a process or thread of its own that the operating
system keeps scheduling. The operator owes nothing, and the faults are never fair (a failing `read()` is not part of the receiver's fair steps). Weak fairness of
`uartclo` includes that `write()` returns: the port is opened without flow control.

`ltp_live` assumes weak fairness of each task: the client, `ltpmeter`, the two link service outputs (their semaphores are given
for every segment queued), the two `ltpclock`s (a timer that runs does expire) and `ltpdeliv`. The medium owes
nothing, nor do input tasks, the operator and `ForgetImport`. `zco_space` assumes it of each task's way
through a request and to the destruction of its ZCO (data get sent, delivered or expire), and of the clock, where priorities are equal.
Nobody has to ask for space. `bp_live` assumes it of each daemon (`bptransit`, `ipnfw`, `bpclm`, `bpclock`'s alarms and flushes) and duct, of the result of
each transmission, which the comment at `libbpP.c:11511-11515` demands, and of the next contact, which is scheduled. `ClmWork` stays
enabled in a contact, and outside of one only after a wait. Nothing is assumed of failures, expiration, contacts that end, receipts
and the operator.

## Proofs

`SdrXn_proofs` proves, from `SdrAssumption` alone,

- `TypeCorrect`: `Spec => []TypeOK`;
- `MutualExclusion`: `Spec => []Exclusive`;
- `FailuresAreReported`: `Spec => []EndReportsFailure`.

None of the three is inductive. `IInv` adds what they need: a task inside `_sdrput` has an address and a value to write
(`PutOK`); `Exclusive` itself, with the depth bounded in the middle of a write too (`OwnerOK`); while the node is not up
no task runs, and a tool that loads the profile has made the mutex anew (`BootOK`); offsets of entries are not
negative, and those a tool undoes lie in the log (`EntriesOK`); `logLength` is negative at most during a reversal
that began with a stale list of entries, as after `sdrmend` (`LengthOK`). One lemma per action preserves `IInv`; `NextIInv`
puts them together. For what `sdr_end_xn` reports, `ReportOK` is added: a task has opened levels that its transaction does not count
exactly if a failure has ended one (after `crashXn` a nested begin counts from one again, so the last closer of the task never finds it
owning the transaction). `ReloadLogEntriesOK` shows that reloading stops, at the first entry that is not complete.

`SdrAtomic_proofs` proves `TransactionsAtomic`: `Protected => (Spec => []AtomicAtRest)`, where `Protected` says
that the SDR is reversible, that no failed write to the dataspace file goes unnoticed, that crashes take
working memory (power failure), that with a file the log is a file too, and that the node is started by
`ionInitialize`. The argument: a word that differs from its committed value is named by a log entry (`Clean`),
and the first entry naming it holds the committed value (`LogGood`). Writing appends before it changes
(`PutCtlAtomic`, `PutDataAtomic`, `PutFileAtomic`); undoing the last of the remaining entries keeps both
(`CleanUndo`), so with none left the contents are committed; a crash keeps file and log, and reloading finds
exactly the complete entries (`ReloadGood`). `AInv` is this, stated for a node that is up (`UpOK`), for the
descriptors (`ViewsOK`), for the file (`FileOK`) and for a node that is down or recovering (`DownOK`). `IInv` and
`AInv` were checked by TLC on the configurations of the runs before they were proved. The assumptions in
`Protected` are needed: dropping one gives a counterexample, the first five of those without a run below.

Nothing is proved of an SDR without undo log. Its transactions are atomic only as long as programs do not nest them, and ION's do: an
inner `sdr_begin_xn` makes a task forget that it has modified anything (see the divergences).

`SdrStore_proofs` proves of a protected SDR

- `AlwaysRecoverable`: `Surviving => (Spec => []Recoverable)`. `Surviving` adds to `Protected` that an SDR in working
  memory meets no power failure, which would take the committed contents with it. The argument is write-ahead logging:
  `AInv` already says of every state, the middle of a write, of a reversal and of a recovery included, that the entries
  which the next load finds name each word that differs, and that the oldest entry of a word has its committed value;
  `DurableIs` shows that undoing such a log gives the committed contents. One case per phase of the node.
- `ImplementsAtomicStore`: `NeverDestroyed => (Spec => RefinesAtomicStore)`. The abstract store is `committed`, the
  abstract transaction what its owner sees. One lemma per action says which abstract step it is: an outermost begin, the
  change of what tasks see in a write, the commit, the decision to reverse and the crash are visible, other steps stutter. `NeverDestroyed`
  adds that recovery itself does not fail, since a failed one destroys the SDR (`RecoverFails`, `destroySdr`), which no `AtomicStore` does.

`UartCl_proofs` proves from `UartAssumption` alone `TypeCorrect`, `DeliveredInOrderOnce` (`Spec => []InOrderOnce`) and
`StewardshipIsResolved` (`Spec => []StewardshipResolved`). `IInv` says: the buffer has each queued bundle once and never the one that is
being sent (`QueueOK`); a bundle that will still be written is neither on the line, nor in the receiver's buffer, nor delivered (`FreshOK`),
which is why nothing arrives twice; bytes on the line and bundles delivered are together in the order of the writes (`OrderOK`, the
operator `Ordered`, which says for each pair of places what two lists in the same order say); a bundle in stewardship is the one in
`uartclo`'s hands, or is too long, or the port did not open (`StewardOK`). Lemmas about `Ordered` alone show what appending a bundle, losing
bytes, and acquiring bundles from the front of the stream do; `AcquirableOK` says that the bundles acquired
from a chunk are whole in it and in their order.

`ZcoSpace_proofs` proves

- `TypeCorrect`: `Spec => []TypeOK`;
- `WokenHasSpace`: `Prompt => (Spec => []WokenIsServiced)`;
- `NeverOvercommitted`: `Prompt => (Spec => []NoOvercommit)`.

`Prompt` (the living claim what they are awarded before the clock takes it back) is what the code needs: without it TLC finds the divergence
listed below. Priorities are arbitrary. `IInv` relates the list of requisitions, the semaphores and the places of
the tasks: serviced requisitions are listed (`ListedOK`), those of tasks that ask for nothing are not (`IdleOK`), the list is in the order of
priorities (`SortedOK`), the holders' space is occupied (`HeldOK`), a semaphore that has not ended is given only with space (`WakeOK`), and
whoever is overtaken still has the reservation or the space, or is dead (`OvertakenOK`). The heart is `LeadOK`: whatever stands in front of a reservation that has not been
overtaken (`Firm`) has been serviced. Without it `NoOvercommit` is not inductive, since `ionProvideZcoSpace` does not count what is
promised behind the requisition it looks at: by `LeadOK` the firm reservations behind it are none, and `NeedsSplit` bounds the others by what the
overtaken need. `InsertedListed` shows that a new requisition comes behind all firm ones that it does not overtake.
The sum of the needs of a set of tasks is a fold in the model; `NeedsAdd` and the lemmas before it prove from the definition that it is
additive and monotonic. They need `IsFiniteSet(Task)`, which `ZcoAssumption` has.

`LtpSession_proofs` proves

- `TypeCorrect`: `Spec => []TypeOK`;
- `QueueNeverStuck`: `Spec => []QueuedDataIsLive`;
- `ClosedSessionsStayClosed`: `Spec => []ClosedStaysClosed`;
- `BuffersKept`: `~Interrupted => (Spec => []BuffersOwned)`;
- `ImplementsLtpBlock`: `~Interrupted => (Spec => RefinesLtpBlock)`.

`~Interrupted` says that no session ends between the two transactions of `ltpdeliv`; with `Interrupted = TRUE` TLC refutes both (listed
below). `IInv` has four parts. `SenderOK`: what is queued at the sender belongs to a live session and to a checkpoint that
session still has. `MediumOK`: types of what is under way. `ReceiverOK`: live import sessions, the list of closed ones, the deliverables
and `ltpdeliv`'s variables agree. `EndsAgree` is the protocol: data is under way only for sessions that have begun (`SentOK`); as long as
a block is not whole and its sender not done, everything that a report shows to have arrived, wherever the report or its claims are, has arrived, and something is
missing (`TruthOK`, for without it a sender could take a lost block for complete); a whole block stays whole and is not received again
(`WholeOK`). `KeptOK` is inductive together with `IInv` if `~Interrupted`: what `ltpdeliv` has found is still there (`HeldOK`), and each
buffer has one owner or is free (`BuffersOK`). Each action of the sending engine implies `SenderStep`, which says what sessions,
the queue and the client may see of it, and each of the receiving one `ReceiverStep` or `AcceptsData`; that the ends agree is proved once of these
three, not of each action, and so are the steps of `LtpBlock`.

`BpXmit_proofs` proves, from `BpAssumption` alone, every safety property that the runs of `BpXmit` check:

- `TypeCorrect`: `Spec => []TypeOK`;
- `ListsCorrect`: `Spec => []QueuesMatch`;
- `CatalogueCorrect`: `Spec => []CatalogueTrue`;
- `StewardsCorrect`: `Spec => []StewardKept`;
- `PlacesCorrect`: `Spec => []InOnePlace`;
- `NothingLost`: `Spec => []NotLost`;
- `SeniorityHonored`: `Spec => []SeniorFirst`.

All follow from one invariant, `Inv`, which theorem `Invariant` shows to be inductive. It says three things of the database
(`Whole`), and the types of the other variables (`RestOK`).

- `Sound`: each list enumerates the bundles that refer to it (`ListsMatch`), the hash table is true (`Catalogued`), and each queue is ordered by
  `enqueueTime` (`Ordered`). `Enumerates(s, S)` says that `s` is a list of all of `S` without repetition; `QueuesMatch` says the same by
  counting.
- `Fit`, of each bundle: it is in one list at most, and an alarm is set only for one that is not critical and that a plan or a duct has.
- `KeyOK`, of each key: its steward, if it has one, is the only one, has the only copy of the bundle, in no list, and the hash table leads to it, or the
  lifetime has ended (`Stewarded`); other copies of a key that is not critical are in lists (`Tended`); a key not sent yet has left no
  trace (`Unborn`); a bundle that was accepted is somewhere (`Somewhere`, which is `NotLost`). `InOnePlace` and `StewardKept` are
  not inductive by themselves: that a result finds the right bundle needs the hash table to be true, and that no second copy is made
  while a result is owed needs all copies of a key to be accounted for.

The proof goes in three layers, so that no action is looked at from all sides. An operator named after a function makes one bundle another
one, and the lists follow (`Becomes`), makes a bundle (`Adds`) or destroys one (`Frees`): each of the three keeps a database `Sound`, and
the lemma about each operator says which it is. A transaction either takes bundles from list to list (`Moves`) or has to do
with the bundles of one key (`Tends`). `KeyMoves` and `KeyOther` show that such a step keeps `KeyOK` of all keys, or of all but that one; what is left is
one lemma per action about its own key. `ReleaseFromLimbo`, `ReverseEnqueue` and `SendTo` are folded over lists of any length (`BpUnblockPlan` and `FlushLimbo`,
`BpBlockPlan`, `SendCriticalBundle`). `FoldRunsExist` proves of `FoldLeft`, from its definition, that it is one step after the other, so that an
invariant of the step is an invariant of the fold; the loop invariants are lemmas of their own.
The proof needs what `BpAssumption` says and TLC's values made true by themselves: that there are finitely many plans and that
`None`, `Limbo` and `Due` are neither plans, nor bundles, nor each other.

Shared: `Lists` has `Only`, the elements of a list that are in a set, and `Removed`; `ListLemmas` proves from the recursive definition that it
keeps the order and what is in it. Where a definition recurses or folds, its proof is an induction over a set of numbers or of cardinalities
(`SetInduction`), because the theorems of the library that would do it take operators.

Only model-checked:

- Liveness: `StopHonoured`, `AllDelivered`, `SdusReturned`, `ClientUnblocked`, `WholeSessionEnds`, `WaiterServed`, `ReservationsRecovered`,
  `EveryBundleLeaves` and `RestartRecoveryCompletes`. Liveness under fairness is outside what the proof system handles, and so is `ENABLED`.
- The invariants of `MCSdrModes`, which are properties of `SdrXn` for three values of its constants: `RestartExclusive` is `Exclusive`, and
  `MemLogEndReportsFailure` is `EndReportsFailure`, both proved of all values; `ModesAtomicAtRest` is `AtomicAtRest` of an SDR to which
  `TransactionsAtomic` applies and of a non-reversible one whose programs do not nest transactions, of which it is only model-checked. The run shows that the
  hypotheses of the theorems are met by SDRs that do something, and its mutants that the properties can fail.

TLC and the proofs use the same definitions.

## Where code and documents disagree

With a run:

- `sdr_stale_cancel`: inner `sdr_cancel_xn`, outermost `sdr_exit_xn`: `xnCanceled` stays set, and the next
  transaction, of any task, is reversed on its `sdr_end_xn` (`sdrxn.c:1853`).
- `ltp_redelivery`: `handleDataSegment` queues a block for delivery on every segment that finds it complete and its
  buffer in place (`libltpP.c:5886`), although it may be queued already; the comment there says that the block "has not yet
  been delivered". `ltpdeliv` then delivers twice, the second time an empty ZCO.

- `bp_stale_contact`: `bpclm` looks at rate control before it waits for a bundle (`bpclm.c:488`) and not after: a bundle queued when the
  contact is over is handed to the outduct, whereas the comment at `bpclm.c:467-469` says that it waits until rate control is satisfied.

Met while modelling; to reproduce, change constants of the run named (M stands for `sdr_full` with `MaxDepth = 1`,
`Faults = {}`, `CrashKinds = {"kill"}`, `BootTools = {"sdrmend"}` and `INVARIANTS AtomicAtRest` alone):

- An inner `sdr_begin_xn` resets `sdrv->modified` (`sdrxn.c:1808`), and a cancelled transaction
  of a non-reversible SDR is unlocked with its updates, instead of the abort that `sdrxn.c:790` announces. Run `sdr_modes`
  with `MaxDepth = 2` for its non-reversible SDR.
- After `sdr_reload_profile` the reversed log is neither truncated nor forgotten (`sdrxn.c:1396`);
  the next cancellation undoes it again. `ionInitialize` is safe because its own first transaction truncates. Run M.
- A dataspace `write()` that fails with -1 is compared unsigned and passes for done (`sdrxn.c:2114`): file and memory
  differ after the commit. Run M with `CrashKinds = {}` and `Faults = {"writeError"}`.
- Tasks killed, `ionInitialize` again: the profile is loaded, so the log is dropped without being reversed
  (`sdrxn.c:1243`), whereas `sdrxn.h:87-93` says that the current transaction is backed out. Run M with
  `BootTools = {"ionInitialize"}`.
- A memory log is not read back by `sdrmend` (`sdrxn.c:1338`), whereas `sdrxn.h:172-179` says that the
  reversal is forced. Run M with `LogInFile = FALSE`.
- -1 compared with an unsigned length (`uartclo.c:203`): a bundle longer than `UARTCLA_BUFSZ` is never accounted for, whereas
  `libbpP.c:11511-11515` wants one of the two handlers called for every bundle. Run `uart_faults` with
  `Reliable = {1, 2, 3}`: the third bundle does not fit.
- `ltpdeliv` checks after its wait for ZCO space that its deliverable is still the first, under the comment "Something happened
  while we were waiting for space" (`ltpdeliv.c:208`), but not that the session still exists: the buffer of one that was cancelled or closed
  meanwhile is returned twice. Run `ltp_faults` with `Interrupted = TRUE` (`RefinesLtpBlock`, and `BuffersOwned`).
- A requisition of higher priority goes to the front of the list and is offered space that is reserved for one behind it,
  whereas `ion.c:2411-2417` says that reserved space "is not available for any other requests": both are awarded, and the account is
  overcommitted. Run `zco_space` with `overtaken` left out of `NoOvercommit`. Priorities do differ: `bptransit.c:182` passes
  the bundle's class of service.
- `ionPauseAttendant` is there so that a blocked task "is interrupted and may respond to an error or shutdown condition" (`ion.pod:170-173`,
  `232-234`). It sets the flag and gives the semaphore once; `ionRequestZcoSpace` gives and takes it (`ion.c:2332-2333`) without looking
  at the flag. A pause after the task has entered `ionRequestZcoSpace` and before that take is swallowed: the task then sleeps at `ion.c:2551`, ended or not, until somebody
  else's destruction of a ZCO awards the space, and a daemon that was ordered to stop (`bptransit.c:46`, `ltpdeliv.c:29`) does not. Run `zco_space` with
  `INVARIANTS PauseHeard`, where `PauseHeard == \A t \in Task : pc[t] = "waiting" /\ ended[t] => semaphore[t] = "given"`; visible in `Clear`. `WaiterServed`
  is about space only: it says that such a task is woken when space comes, and is then refused.
- An urgent requisition that cannot be serviced stops `rfxclock`'s walk at the front of the list (`rfxclock.c:578-603`): the reservation
  of a dead task behind it is not taken back as long as one stands there at each of the clock's seconds. Run `zco_space` with `mixed` and the
  actions of `Mixed` in place of `~mixed` and those of `ZcoSpace` in `EqualReservationsRecovered` and `MixFairSpec`.
- `rfxclock` revokes the requisition of a task that lives but is slow (`rfxclock.c:592`); the task, told nothing once it has looked, creates
  its ZCO all the same and shreds a list element that is gone. Run `zco_space` with `Prompt = FALSE` (`WokenIsServiced`).
- `ionShred` and the revocation by `rfxclock`, which is there to "let other applicants get access to ZCO space" (`rfxclock.c:567-570`), do not
  call `ionProvideZcoSpace`: a task that waits behind a request that is withdrawn sleeps until some other ZCO of the account is created
  or destroyed, even with the account empty. Run `zco_space` with `unoffered` left out of
  `WaiterServed`.
- An inner cancel makes the outer `sdr_end_xn` reverse everything and return 0, whereas `sdr.pod:187` says that
  zero means that all updates succeeded; visible in `SdrCancelXn`, `SdrEndXn` and `TerminateXn`.
- After `crashXn`, a nested `sdr_begin_xn` opens a new transaction that commits, whereas `sdr.pod:182` says that all
  later activity of the transaction fails; visible in `CrashXn` and `SdrBeginXn`.
- `bpHandleXmitSuccess` after a partial `write()` (`libuartcla.c:375`), visible in `CloHandle`; a bundle lost with
  neither handler called when the port cannot be opened (`libuartcla.c:321`), visible in `CloOpen`.
- Chunks that end in the middle of a bundle, so that both its parts are lost (`libuartcla.c:413`), whereas the
  comment at `libbpP.c:7465` says that every convergence layer delivers whole bundles or ordered
  increments; visible in `CliRead` and `CliAcquire`.
- `startOutduct` does not reset a semaphore ended by `SIGTERM` or by `uartclo` itself, so the new daemon ends
  at once; visible in `StartOutduct` and `CloLoop`.

In the Bundle Protocol, visible in `BpXmit` where a definition is named:

- A success report is matched by key alone and `bpDestroyBundle` looks at all lists but `transit` (`libbpP.c:2986`): if the bundle has come back
  meanwhile by a routing loop, it is destroyed and its element in `transit` dangles. The comment at `libbpP.c:12054-12055` excepts a bundle
  "pending another transmission". Drop the second conjunct of `Receive` to see it.
- A bundle that a neighbour sends back while this node is still its steward is discarded as a duplicate (`libbpP.c:9260`), and the
  success report then destroys the original: nobody holds it. Excluded by the same conjunct.
- The copy of a critical bundle that is made for limbo ("Must put bundle in limbo, keep on trying to send it.", `ipnfw.c:866-882`) is refused by `enqueueToLimbo`
  and is in no list until its lifetime ends; so is a critical bundle whose plan is blocked or has no duct for it (`SendCriticalBundle`,
  `EnqueueToLimbo`, `BpReforwardBundle`; the reason why `InOnePlace` excepts critical bundles). From the third
  route on, `sendCriticalBundle` clones the clone onto itself, which loses its extension blocks.
- `bpBlockPlan` says that it sends bundles to limbo but passes 0 for `sendToLimbo` (`libbpP.c:11097-11128`): they are re-forwarded (`ReverseEnqueue`).
- A bundle that may not be fragmented and is too long for the duct, or needs a duct of another class, is sent back to routing, which may
  choose the same plan for ever: `EveryBundleLeaves` assumes that open plans have a duct for it (`Usable`).
- The confidence of a transmission that failed is never taken back (`ipnfw.c:516-518`), so that a re-forwarded bundle may be sent without the copy in
  limbo that it was sent with first.
- `bp_suspend` sets `suspended` in its own copy of the bundle (`libbp.c:472`), which `reverseEnqueue` reads again: the bundle waits in limbo
  unsuspended, and the next flush sends it on; `bp.pod:169-176` says until `bp_resume`. `bp_resume` looks for it with `ductXmitElt` instead of
  `planXmitElt` (`libbp.c:521`). `bp_release` clears `detained` only, so that a finished bundle stays until its lifetime ends.
- `flushOutducts` copies the protocol's name twice and the duct's never (`bpclock.c:366-369`): no stuck duct is flushed, whereas the comment at
  `bpclock.c:250` says that its bundles are re-forwarded.
- `enqueueUrgentBundle` (`libbpP.c:10765`) passes boundaries with which seniority, which "must be honored" (`libbpP.c:10721-10723`), is not; `SeniorFirst`
  is about a queue of one priority.
- Anticipatory fragmentation updates only the callee's object address (`ipnfw.c:532`): the caller accepts the original, which is gone. The
  branch for static routes writes the bytes of a pointer in place of the bundle (`ipnfw.c:1369`).
- `ltpclo`: when `ltp_send` gives 0 or -1 neither handler is called for a bundle with a steward, against `libbpP.c:11511-11515`.

## What is not modelled

- In the transaction engine: a log file that `clearTransaction` cannot open again (`sdrxn.c:740-745`; the code reports it and
  goes on with an old log and `logLength` 0, so that a later reversal through another view's descriptor would read stale entries); the restart command (`SdrXn` loads the profile without one, as `sdrmend` does by
  default), `sdr_eject_xn`, `sdr_reload_profile` while tasks still run, `sdr_destroy`, tracing, object bounds as such
  (their violation is `BadAccess`), threads within one task.
- `libuart.c` (string parsing), the Arduino sketch, the search for routes over real-valued times, security blocks
  (data transformation), administration front ends, network management (mostly generated), `bpv6` (an older
  copy of the same architecture), `contrib`, tests, and vendored code.
- In LTP: green data and blocks of several service data units, suspended links, the coding of segments, extensions and
  authentication, segments of unknown engines and clients, reports that need several segments, blocks in files.
- In ZCO space: `ionStopAttendant`, requests for several kinds of space at once, `ionAppendZcoExtent` (the same steps as
  `ionCreateZco`), the reference counts of `zco.c`.
- In the Bundle Protocol: local delivery, reassembly, fragmentation, priorities, suspension, status reports, static routes and passageways,
  administration of plans and ducts, `flushOutducts`, the coding of blocks, stations and convergence layers other than the UART.
- The heap, shared memory and the rest of the table above: planned below.

## Plan

Done, in this order: `AtomicStore`, `SdrXn` with its runs; `SdrXn_proofs`; `UartCl` with its runs;
`SdrAtomic_proofs`; `LtpBlock`, `LtpSession` with its runs; `ZcoSpace` with its runs;
`BpXmit` with its runs; `SdrStore_proofs`, `UartCl_proofs`, `ZcoSpace_proofs`, `LtpSession_proofs`, `BpXmit_proofs`.

1. `IonRestart`: `terminateXn` with a restart command, `halted`, the hijack by `ionrestart`, `sdr_eject_xn` and
   `sdr_reload_profile` under live tasks. Property: one owner across the hijack; the restart ends. Composes
   with the lock part of `SdrXn`.
2. Fragmentation and reassembly, priorities, suspension and local delivery in `BpXmit`; the crash of a convergence layer that is a steward.
3. Green data and suspended links in `LtpSession`: the last green segment closes a session of which a checkpoint may be
   queued again (`libltpP.c:3842`).
4. `SdrHeap`: small and large free lists of `sdrmgt.c` against a reference allocator, with recursive functions
   so that lemmas can be proved.
5. `PlatformSem` and `SmList`: the semaphore contract that the other modules assume, from `platform_sm.c`.

Theorems to come: all invariants and refinements that the runs check are proved. The modules above bring their own; of the present ones, what
could be proved next is the safety half of the liveness properties, such as that a give owed to a waiting task is never missing.
