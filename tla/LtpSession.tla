------------------------------ MODULE LtpSession ------------------------------
(***************************************************************************)
(* LTP sessions (ltp/library/libltpP.c): the export sessions of the engine *)
(* that sends red blocks, the import sessions of the one that receives     *)
(* them, and the segments between them.                                    *)
(*                                                                         *)
(* At each engine clients, ltpmeter, the link service output (lso) and     *)
(* input (lsi) tasks, ltpdeliv and ltpclock share the sessions; each step  *)
(* below is one of their SDR transactions.  Segments get lost, duplicated  *)
(* and reordered.  A timer that runs may expire at any moment.             *)
(*                                                                         *)
(* Every block is one service data unit of RedPart segments of length 1,   *)
(* all red; segment i covers offsets i-1..i.                               *)
(***************************************************************************)
EXTENDS Integers, Sequences, FiniteSets, SequencesExt, FiniteSetsExt, Lists

CONSTANTS
  LastSession,      \* model bound: session numbers are 1..LastSession
  RedPart,          \* redPartLength of every block
  MaxExports,       \* span.maxExportSessions
  MaxImports,       \* span.maxImportSessions
  MaxTimeouts,      \* vspan->maxTimeouts at the sending engine
  RcvMaxTimeouts,   \* and at the receiving one
  MaxReports,       \* getMaxReports: maxCheckpoints and maxReports
  MaxBacklog,       \* ltpdb->maxBacklog
  Purge,            \* span.purge
  Interrupted,      \* sessions may end while ltpdeliv waits for ZCO space
  MaxFlight,        \* model bound on the segments under way at a time
  MaxDups           \* model bound on duplicated segments

ASSUME LtpAssumption ==
  /\ LastSession \in Nat \ {0} /\ RedPart \in Nat \ {0}
  /\ MaxExports \in Nat /\ MaxImports \in Nat
  /\ MaxTimeouts \in Nat /\ RcvMaxTimeouts \in Nat
  /\ MaxReports \in Nat \ {0} /\ MaxBacklog \in Nat /\ MaxBacklog >= 2
  /\ MaxDups \in Nat
  /\ MaxFlight \in Nat
  /\ Purge \in BOOLEAN /\ Interrupted \in BOOLEAN

Session == 1..LastSession
Segment == 1..RedPart

VARIABLES
  export,           \* LtpExportSession of each session number
  meter,            \* ltpmeter: "idle", or "starting" the next session
  client,           \* "ready", or "waiting" for bufOpenRedSemaphore
  bufOpen,          \* bufOpenRedSemaphore has been given
  xmitQueue,        \* span.segments at the sending engine
  net,              \* the segments on their way
  dups,             \* how many have been duplicated
  import,           \* LtpImportSession of each session number
  closedImports,    \* span.closedImports
  importBuffers,    \* span.importBuffers: the free ones
  importBufferCount,
  deliverables,     \* ltpdb.deliverables
  deliv,            \* the deliverable ltpdeliv has found, and its buffer
  rcvQueue,         \* span.segments at the receiving engine
  whole,            \* history: the blocks that have been received whole
  received          \* history: LtpRecvRedPart notices of each session

sender   == <<export, meter, client, bufOpen, xmitQueue>>
buffers  == <<importBuffers, importBufferCount>>
delivery == <<deliverables, deliv, received>>
receiver == <<import, closedImports, buffers, delivery, rcvQueue, whole>>
vars == <<sender, net, dups, receiver>>

-----------------------------------------------------------------------------
(* Segments.  Report serial numbers are random numbers in each import      *)
(* session, here pairs that no two import sessions share; the first        *)
(* checkpoint of an export session, a random number too, is number 1.      *)

NoReport == <<0, 0>>

Ds(s, i, ckpt, rpt) ==
  [type |-> "DS", session |-> s, seg |-> i, ckpt |-> ckpt, rpt |-> rpt]
Rs(s, serial, ckpt, lower, upper, claims) ==
  [type |-> "RS", session |-> s, serial |-> serial, ckpt |-> ckpt,
   lower |-> lower, upper |-> upper, claims |-> claims]
Ra(s, serial) == [type |-> "RA", session |-> s, serial |-> serial]
Cs(s)  == [type |-> "CS", session |-> s]
Cas(s) == [type |-> "CAS", session |-> s]
Cr(s)  == [type |-> "CR", session |-> s]
Car(s) == [type |-> "CAR", session |-> s]

(* enqueueAckSegment: reports and acknowledgments go before the first      *)
(* segment that is neither.                                                *)
NotAck(m) == m.type \in {"DS", "CS", "CR"}
EnqueueAck(queue, m) ==
  LET i == SelectInSeq(queue, NotAck)
  IN  IF i = 0 THEN Append(queue, m) ELSE InsertAt(queue, i, m)

(* stopExportSession, stopImportSession: what a session has queued.        *)
(* Mutant: what is queued is forgotten in place.                           *)
StopExportUnqueued(queue, s) == queue
StopExport(queue, s) ==
  Only(queue, {m \in ToSet(queue) : m.type # "DS" \/ m.session # s})
StopImport(queue, s) ==
  Only(queue, {m \in ToSet(queue) : m.type # "RS" \/ m.session # s})

(* A segment that is sent may get lost.                                    *)
Sends(m) ==
  \/ UNCHANGED net
  \/ Cardinality(net) < MaxFlight /\ net' = net \cup {m}

(* Arrival of a segment, of which a copy may still be on its way.          *)
Receives(m) ==
  /\ m \in net
  /\ \/ net' = net \ {m} /\ UNCHANGED dups
     \/ dups < MaxDups /\ dups' = dups + 1 /\ UNCHANGED net

-----------------------------------------------------------------------------
(* The sending engine.                                                     *)

(* A checkpoint keeps the segment it is, the report it cites, its          *)
(* expirationCount and whether its timer counts.                           *)
Checkpoint(i, rpt) == [seg |-> i, rpt |-> rpt, tries |-> 0, timer |-> FALSE]

NoExport ==
  [state |-> "none", sdus |-> "none", ckpts |-> <<>>, claims |-> {},
   rsSerials |-> {}, tries |-> 0, timer |-> FALSE]

Ended(notice, state) == [NoExport EXCEPT !.state = state, !.sdus = notice]

ExportHash == {s \in Session : export[s].state \in {"open", "buffered", "live"}}

(* startExportSession takes the next session number.                       *)
StartExport(e) ==
  [s \in Session |->
     IF e[s].state = "none" /\ \A t \in Session : t < s => e[t].state # "none"
     THEN [e[s] EXCEPT !.state = "open"] ELSE e[s]]

(* ltp_send: while the number of sessions exceeds the limit, the current   *)
(* one takes no red data.                                                  *)
Appendable(s) ==
  export[s].state = "open" /\ Cardinality(ExportHash) <= MaxExports

ClientSends ==
  /\ client = "ready"
  /\ \E s \in Session :
       /\ Appendable(s)
       /\ export' = [export EXCEPT ![s].state = "buffered", ![s].sdus = "held"]
  /\ UNCHANGED <<meter, client, bufOpen, xmitQueue, net, dups, receiver>>

ClientBlocks ==
  /\ client = "ready"
  /\ \E s \in Session : export[s].state \in {"none", "open"}
  /\ ~\E s \in Session : Appendable(s)
  /\ client' = "waiting"
  /\ UNCHANGED <<export, meter, bufOpen, xmitQueue, net, dups, receiver>>

ClientWakes ==
  /\ client = "waiting" /\ bufOpen
  /\ client' = "ready" /\ bufOpen' = FALSE
  /\ UNCHANGED <<export, meter, xmitQueue, net, dups, receiver>>

(* ltpmeter segments the buffered block; the last red segment is a         *)
(* checkpoint.  It starts the next session in another transaction.         *)
MeterIssues ==
  /\ meter = "idle"
  /\ \E s \in Session :
       /\ export[s].state = "buffered"
       /\ export' = [export EXCEPT ![s].state = "live",
                       ![s].ckpts = <<Checkpoint(RedPart, NoReport)>>]
       /\ xmitQueue' = xmitQueue \o
            [i \in Segment |-> Ds(s, i, IF i = RedPart THEN 1 ELSE 0, NoReport)]
  /\ meter' = "starting"
  /\ UNCHANGED <<client, bufOpen, net, dups, receiver>>

MeterStarts ==
  /\ meter = "starting"
  /\ export' = StartExport(export)
  /\ meter' = "idle" /\ bufOpen' = TRUE
  /\ UNCHANGED <<client, xmitQueue, net, dups, receiver>>

(* ltpDequeueOutboundSegment: the lso sends the first segment and starts   *)
(* its timer.                                                              *)
(* Mutant: the timers of checkpoints are not started.                      *)
SetTimerOfCancels(m) ==
  IF m.type = "CS" /\ export[m.session].state = "dead"
  THEN [export EXCEPT ![m.session].timer = TRUE] ELSE export
SetTimer(m) ==
  IF m.type = "DS" /\ m.ckpt # 0
  THEN [export EXCEPT ![m.session].ckpts[m.ckpt].timer = TRUE]
  ELSE IF m.type = "CS" /\ export[m.session].state = "dead"
  THEN [export EXCEPT ![m.session].timer = TRUE] ELSE export

LsoSends ==
  /\ xmitQueue # <<>>
  /\ xmitQueue' = Tail(xmitQueue)
  /\ Sends(Head(xmitQueue))
  /\ export' = SetTimer(Head(xmitQueue))
  /\ UNCHANGED <<meter, client, bufOpen, dups, receiver>>

(* cancelSessionBySender: the client gets its data back, nothing of the    *)
(* session stays queued, the receiver is told.                             *)
(* Mutant: the client that waits is not told.                              *)
CancelBySenderSilent(s, queue) ==
  /\ export' = [export EXCEPT ![s] = Ended("canceled", "dead")]
  /\ xmitQueue' = Append(StopExport(queue, s), Cs(s))
  /\ UNCHANGED bufOpen
CancelBySender(s, queue) ==
  /\ export' = [export EXCEPT ![s] = Ended("canceled", "dead")]
  /\ xmitQueue' = Append(StopExport(queue, s), Cs(s))
  /\ bufOpen' = TRUE

(* ltpStopXmit: a span that purges cancels the sessions with data in them, *)
(* the current one, which is replaced, included.                           *)
StopXmit ==
  LET doomed == {s \in Session : export[s].state \in {"buffered", "live"}}
      kept == {m \in ToSet(xmitQueue) : m.type # "DS" \/ m.session \notin doomed}
      ended == [s \in Session |-> IF s \in doomed THEN Ended("canceled", "dead")
                                  ELSE export[s]]
      numbers == Only([s \in Session |-> s], doomed)
  IN  /\ Purge /\ doomed # {}
      /\ export' = IF \E s \in doomed : export[s].state = "buffered"
                   THEN StartExport(ended) ELSE ended
      /\ xmitQueue' = Only(xmitQueue, kept) \o
                        [i \in DOMAIN numbers |-> Cs(numbers[i])]
      /\ bufOpen' = TRUE
      /\ UNCHANGED <<meter, client, net, dups, receiver>>

(* ltpResendCheckpoint.                                                    *)
CheckpointExpires ==
  \E s \in Session : \E c \in DOMAIN export[s].ckpts :
    LET ckpt == export[s].ckpts[c]
    IN  /\ export[s].state = "live" /\ ckpt.timer
        /\ \/ /\ ckpt.tries = MaxTimeouts
              /\ CancelBySender(s, xmitQueue)
           \/ /\ ckpt.tries < MaxTimeouts
              /\ export' = [export EXCEPT ![s].ckpts[c].tries = @ + 1,
                                          ![s].ckpts[c].timer = FALSE]
              /\ xmitQueue' = Append(xmitQueue, Ds(s, ckpt.seg, c, ckpt.rpt))
              /\ UNCHANGED bufOpen
        /\ UNCHANGED <<meter, client, net, dups, receiver>>

(* ltpResendXmitCancel.                                                    *)
XmitCancelExpires ==
  \E s \in Session :
    /\ export[s].state = "dead" /\ export[s].timer
    /\ \/ /\ export[s].tries = MaxTimeouts
          /\ export' = [export EXCEPT ![s] = Ended(@.sdus, "closed")]
          /\ UNCHANGED xmitQueue
       \/ /\ export[s].tries < MaxTimeouts
          /\ export' = [export EXCEPT ![s].tries = @ + 1, ![s].timer = FALSE]
          /\ xmitQueue' = Append(xmitQueue, Cs(s))
    /\ UNCHANGED <<meter, client, bufOpen, net, dups, receiver>>

(* The segments that fill the gaps a report shows; the last one is the     *)
(* next checkpoint and cites the report.                                   *)
Gaps(m, claims) == {i \in Segment : m.lower < i /\ i <= m.upper /\ i \notin claims}
(* Mutant: one segment too low.                                            *)
RetransmissionShifted(m, claims, ckpt) ==
  LET missing == Only([i \in Segment |-> i], Gaps(m, claims))
      n == Len(missing)
  IN  [k \in 1..n |-> Ds(m.session, missing[k] - 1, IF k = n THEN ckpt ELSE 0, m.serial)]
Retransmission(m, claims, ckpt) ==
  LET missing == Only([i \in Segment |-> i], Gaps(m, claims))
      n == Len(missing)
  IN  [k \in 1..n |-> Ds(m.session, missing[k], IF k = n THEN ckpt ELSE 0, m.serial)]

(* All that the reports of the session have claimed.                       *)
(* Mutant: all of a report's scope is taken for claimed.                   *)
ClaimedScope(e, m) == e.claims \cup (m.lower + 1)..m.upper
Claimed(e, m) == e.claims \cup m.claims

(* handleRS.                                                               *)
HandleRs(m) ==
  LET s == m.session
      e == export[s]
      queue == EnqueueAck(xmitQueue, Ra(s, m.serial))
      claims == Claimed(e, m)
      next == Len(e.ckpts) + 1
  IN  /\ m.type = "RS" /\ Receives(m)
      /\ \/ /\ e.state # "live"           \* late: it is not acknowledged
            /\ UNCHANGED <<export, xmitQueue, bufOpen>>
         \/ /\ e.state = "live" /\ m.serial \in e.rsSerials
            /\ xmitQueue' = queue
            /\ UNCHANGED <<export, bufOpen>>
         \/ /\ e.state = "live" /\ m.serial \notin e.rsSerials
            /\ claims = Segment
            /\ export' = [export EXCEPT ![s] = Ended("complete", "closed")]
            /\ xmitQueue' = StopExport(queue, s)
            /\ bufOpen' = TRUE
         \/ /\ e.state = "live" /\ m.serial \notin e.rsSerials
            /\ claims # Segment /\ Len(e.ckpts) >= MaxReports
            /\ CancelBySender(s, queue)
         \/ /\ e.state = "live" /\ m.serial \notin e.rsSerials
            /\ claims # Segment /\ Len(e.ckpts) < MaxReports
            /\ LET acked == [c \in DOMAIN e.ckpts |->
                               IF c = m.ckpt THEN [e.ckpts[c] EXCEPT !.timer = FALSE]
                               ELSE e.ckpts[c]]
                   again == Retransmission(m, claims, next)
               IN  /\ export' = [export EXCEPT
                        ![s].rsSerials = @ \cup {m.serial}, ![s].claims = claims,
                        ![s].ckpts = IF again = <<>> THEN acked ELSE
                           Append(acked, Checkpoint(Last(again).seg, m.serial))]
                   /\ xmitQueue' = queue \o again
            /\ UNCHANGED bufOpen
      /\ UNCHANGED <<meter, client, receiver>>

(* handleCR.                                                               *)
HandleCr(m) ==
  /\ m.type = "CR" /\ Receives(m)
  /\ \/ /\ export[m.session].state # "live"
        /\ UNCHANGED <<export, xmitQueue, bufOpen>>
     \/ /\ export[m.session].state = "live"
        /\ export' = [export EXCEPT ![m.session] = Ended("canceled", "closed")]
        /\ xmitQueue' = StopExport(EnqueueAck(xmitQueue, Car(m.session)), m.session)
        /\ bufOpen' = TRUE
  /\ UNCHANGED <<meter, client, receiver>>

(* handleCAS.                                                              *)
HandleCas(m) ==
  /\ m.type = "CAS" /\ Receives(m)
  /\ export' = IF export[m.session].state = "dead"
               THEN [export EXCEPT ![m.session] = Ended(@.sdus, "closed")]
               ELSE export
  /\ UNCHANGED <<meter, client, bufOpen, xmitQueue, receiver>>

-----------------------------------------------------------------------------
(* The receiving engine.                                                   *)

NoImport ==
  [state |-> "none", obj |-> 0, red |-> {}, cleared |-> FALSE, reports |-> {},
   reportsCount |-> 0, next |-> 0, finalRpt |-> NoReport,
   finalRptAcked |-> FALSE, delivered |-> FALSE, buffer |-> 0,
   tries |-> 0, timer |-> FALSE]

NoDeliverable == [session |-> 0, obj |-> 0, buffer |-> 0]

(* What ends a session may have to wait for ltpdeliv.                      *)
Undisturbed(s) == Interrupted \/ deliv.session # s

(* Mutant: the buffer is lost.                                             *)
RecycledNever(free, i) == free
Recycled(free, i) == IF i.buffer = 0 THEN free ELSE Append(free, i.buffer)

(* stopImportSession, removeImportSession, closeImportSession: the session *)
(* number is noted, its object freed.                                      *)
CloseImport(s, queue) ==
  /\ import' = [import EXCEPT ![s] = [NoImport EXCEPT !.obj = import[s].obj]]
  /\ closedImports' = closedImports \cup {s}
  /\ rcvQueue' = StopImport(queue, s)

(* cancelSessionByReceiver.                                                *)
CancelByReceiver(s, i, free) ==
  /\ Undisturbed(s)
  /\ import' = [import EXCEPT ![s] =
       [NoImport EXCEPT !.state = "dead", !.obj = i.obj, !.cleared = TRUE]]
  /\ importBuffers' = Recycled(free, i)
  /\ rcvQueue' = Append(StopImport(rcvQueue, s), Cr(s))

(* startImportSession takes a free import buffer or adds one.              *)
NoBuffer == importBuffers = <<>> /\ importBufferCount >= MaxImports
StartedImport(s) ==
  [NoImport EXCEPT !.state = "live", !.obj = import[s].obj + 1,
     !.buffer = IF importBuffers = <<>> THEN importBufferCount + 1
                ELSE Head(importBuffers)]

(* sendReport, for the segments up to upper: the final report if the red   *)
(* part is complete, else a report of what has arrived in the scope that   *)
(* starts where the cited report did.  It is counted, but not sent, when   *)
(* there is nothing to report.                                             *)
SendReport(s, i, m, upper, free) ==
  LET n == i.next + 1
      cited == {r \in i.reports : r.serial = m.rpt}
      lower == IF cited = {} THEN 0 ELSE (CHOOSE r \in cited : TRUE).lower
      complete == i.red = Segment
      claims == IF complete THEN Segment ELSE {k \in i.red : lower < k /\ k <= upper}
      rs == IF complete THEN Rs(s, <<i.obj, n>>, m.ckpt, 0, RedPart, claims)
            ELSE Rs(s, <<i.obj, n>>, m.ckpt, lower, upper, claims)
      report == [serial |-> rs.serial, ckpt |-> rs.ckpt, lower |-> rs.lower,
                 upper |-> rs.upper, claims |-> claims, tries |-> 0, timer |-> FALSE]
      maxReports == IF RedPart \in i.red THEN MaxReports ELSE 0
      counted == [i EXCEPT !.next = n, !.reportsCount = @ + 1]
  IN  \/ /\ i.finalRpt # NoReport
         /\ import' = [import EXCEPT ![s] = i]
         /\ importBuffers' = free
         /\ UNCHANGED rcvQueue
      \/ /\ i.finalRpt = NoReport /\ ~complete /\ i.reportsCount >= maxReports
         /\ CancelByReceiver(s, i, free)
      \/ /\ i.finalRpt = NoReport
         /\ complete \/ i.reportsCount < maxReports
         /\ import' = [import EXCEPT ![s] =
              IF claims = {} THEN counted
              ELSE [counted EXCEPT !.reports = @ \cup {report},
                      !.finalRpt = IF complete THEN rs.serial ELSE NoReport]]
         /\ importBuffers' = free
         /\ rcvQueue' = IF claims = {} THEN rcvQueue ELSE EnqueueAck(rcvQueue, rs)

(* handleDataSegment, acceptRedContent: the segments that are of no use.   *)
(* Mutant: closed sessions are not looked up.                              *)
DiscardsNoLate(m) ==
  LET i == import[m.session]
  IN  \/ Len(deliverables) >= MaxBacklog
      \/ i.state = "live" /\ i.cleared
      \/ i.state = "dead"
      \/ i.state = "none" /\ NoBuffer
Discards(m) ==
  LET i == import[m.session]
  IN  \/ m.session \in closedImports
      \/ Len(deliverables) >= MaxBacklog
      \/ i.state = "live" /\ i.cleared
      \/ i.state = "dead"
      \/ i.state = "none" /\ NoBuffer

(* handleDataSegment.  A complete red part that is not cleared is queued   *)
(* for delivery by every segment that comes, new or not.                   *)
HandleDs(m) ==
  LET s == m.session
      new == import[s].state = "none"
      before == IF new THEN StartedImport(s) ELSE import[s]
      i == [before EXCEPT !.red = @ \cup {m.seg}]
      fresh == m.seg \notin before.red
      complete == i.red = Segment
      acts == (m.ckpt # 0 \/ complete) /\ (fresh \/ RedPart \in i.red)
      free == IF new /\ importBuffers # <<>> THEN Tail(importBuffers)
              ELSE importBuffers
  IN  /\ m.type = "DS" /\ Receives(m)
      /\ \/ /\ Discards(m)
            /\ UNCHANGED <<import, buffers, rcvQueue, deliverables, whole>>
         \/ /\ ~Discards(m)
            /\ importBufferCount' = IF new /\ importBuffers = <<>>
                                    THEN importBufferCount + 1
                                    ELSE importBufferCount
            /\ \/ /\ ~acts
                  /\ import' = [import EXCEPT ![s] = i]
                  /\ importBuffers' = free
                  /\ UNCHANGED rcvQueue
               \/ /\ acts
                  /\ SendReport(s, i, m, IF fresh THEN m.seg ELSE RedPart, free)
            /\ deliverables' = IF acts /\ complete THEN Append(deliverables, s)
                               ELSE deliverables
            /\ whole' = IF acts /\ complete THEN whole \cup {s} ELSE whole
      /\ UNCHANGED <<sender, closedImports, deliv, received>>

(* ltpDequeueOutboundSegment at this engine.                               *)
RcvLsoSends ==
  LET m == Head(rcvQueue)
      s == m.session
      Started(r) == IF r.serial = m.serial THEN [r EXCEPT !.timer = TRUE] ELSE r
  IN  /\ rcvQueue # <<>>
      /\ rcvQueue' = Tail(rcvQueue)
      /\ Sends(m)
      /\ import' =
           IF m.type = "RS"
           THEN [import EXCEPT ![s].reports = {Started(r) : r \in @}]
           ELSE IF m.type = "CR" /\ import[s].state = "dead"
           THEN [import EXCEPT ![s].timer = TRUE]
           ELSE import
      /\ UNCHANGED <<sender, dups, closedImports, buffers, delivery, whole>>

(* ltpResendReport.                                                        *)
ReportExpires ==
  \E s \in Session : \E r \in import[s].reports :
    /\ import[s].state = "live" /\ r.timer
    /\ \/ /\ r.tries = RcvMaxTimeouts
          /\ CancelByReceiver(s, import[s], importBuffers)
       \/ /\ r.tries < RcvMaxTimeouts
          /\ import' = [import EXCEPT ![s].reports =
               (@ \ {r}) \cup {[r EXCEPT !.tries = @ + 1, !.timer = FALSE]}]
          /\ rcvQueue' = Append(rcvQueue,
               Rs(s, r.serial, r.ckpt, r.lower, r.upper, r.claims))
          /\ UNCHANGED importBuffers
    /\ UNCHANGED <<sender, net, dups, closedImports, importBufferCount, delivery, whole>>

(* ltpResendRecvCancel.                                                    *)
RecvCancelExpires ==
  \E s \in Session :
    /\ import[s].state = "dead" /\ import[s].timer
    /\ \/ /\ import[s].tries = RcvMaxTimeouts
          /\ CloseImport(s, rcvQueue)
       \/ /\ import[s].tries < RcvMaxTimeouts
          /\ import' = [import EXCEPT ![s].tries = @ + 1, ![s].timer = FALSE]
          /\ rcvQueue' = Append(rcvQueue, Cr(s))
          /\ UNCHANGED closedImports
    /\ UNCHANGED <<sender, net, dups, buffers, delivery, whole>>

(* handleRA.                                                               *)
HandleRa(m) ==
  LET s == m.session
      i == import[s]
      final == m.serial = i.finalRpt
      Acked(r) == IF r.serial = m.serial THEN [r EXCEPT !.timer = FALSE] ELSE r
  IN  /\ m.type = "RA" /\ Receives(m)
      /\ \/ /\ ~\E r \in i.reports : r.serial = m.serial
            /\ UNCHANGED <<import, closedImports, rcvQueue>>
         \/ /\ \E r \in i.reports : r.serial = m.serial
            /\ final /\ i.delivered
            /\ Undisturbed(s)
            /\ CloseImport(s, rcvQueue)
         \/ /\ \E r \in i.reports : r.serial = m.serial
            /\ ~(final /\ i.delivered)
            /\ import' = [import EXCEPT ![s].reports = {Acked(r) : r \in @},
                            ![s].finalRptAcked = @ \/ final]
            /\ UNCHANGED <<closedImports, rcvQueue>>
      /\ UNCHANGED <<sender, buffers, delivery, whole>>

(* handleCS: an unknown session is acknowledged but not noted as closed.   *)
HandleCs(m) ==
  LET s == m.session
      queue == EnqueueAck(rcvQueue, Cas(s))
  IN  /\ m.type = "CS" /\ Receives(m)
      /\ \/ /\ import[s].state # "live"
            /\ rcvQueue' = queue
            /\ UNCHANGED <<import, closedImports, importBuffers>>
         \/ /\ import[s].state = "live"
            /\ Undisturbed(s)
            /\ CloseImport(s, queue)
            /\ importBuffers' = Recycled(importBuffers, import[s])
      /\ UNCHANGED <<sender, importBufferCount, delivery, whole>>

(* handleCAR.                                                              *)
HandleCar(m) ==
  /\ m.type = "CAR" /\ Receives(m)
  /\ IF import[m.session].state = "dead" THEN CloseImport(m.session, rcvQueue)
     ELSE UNCHANGED <<import, closedImports, rcvQueue>>
  /\ UNCHANGED <<sender, buffers, delivery, whole>>

(* LtpForgetImportSession comes late enough for the sender to be done with *)
(* the session (the assumption of noteClosedImport).                       *)
ForgetImport ==
  \E s \in closedImports :
    /\ export[s].state \in {"dead", "closed"}
    /\ \A m \in net : m.type = "DS" => m.session # s
    /\ closedImports' = closedImports \ {s}
    /\ UNCHANGED <<sender, net, dups, import, buffers, delivery, rcvQueue, whole>>

(* ltpdeliv's first transaction: it finds a deliverable, looks its session *)
(* up and goes for the ZCO space.  A deliverable without a session is      *)
(* discarded.                                                              *)
DelivFinds ==
  LET s == Head(deliverables)
  IN  /\ deliv = NoDeliverable /\ deliverables # <<>>
      /\ \/ /\ import[s].state # "live"
            /\ deliverables' = Tail(deliverables)
            /\ UNCHANGED deliv
         \/ /\ import[s].state = "live"
            /\ deliv' = [session |-> s, obj |-> import[s].obj,
                         buffer |-> import[s].buffer]
            /\ UNCHANGED deliverables
      /\ UNCHANGED <<sender, net, dups, import, closedImports, buffers, received,
                     rcvQueue, whole>>

(* Its second one: the list still starts with that deliverable, since      *)
(* nobody else removes one.                                                *)
(* Mutant: a session whose report is acknowledged stays.                   *)
DelivDeliversOnly ==
  LET s == deliv.session
      i == import[s]
  IN  /\ s # 0 /\ i.state = "live" /\ i.obj = deliv.obj
      /\ importBuffers' = Recycled(importBuffers, i)
      /\ import' = [import EXCEPT ![s].cleared = TRUE,
                       ![s].delivered = TRUE, ![s].buffer = 0]
      /\ received' = [received EXCEPT ![s] = @ + 1]
      /\ deliverables' = Tail(deliverables)
      /\ deliv' = NoDeliverable
      /\ UNCHANGED <<sender, net, dups, closedImports, rcvQueue, importBufferCount,
                     whole>>
DelivDelivers ==
  LET s == deliv.session
      i == import[s]
  IN  /\ s # 0 /\ i.state = "live" /\ i.obj = deliv.obj
      /\ importBuffers' = Recycled(importBuffers, i)
      /\ IF i.finalRptAcked
         THEN CloseImport(s, rcvQueue)
         ELSE /\ import' = [import EXCEPT ![s].cleared = TRUE,
                              ![s].delivered = TRUE, ![s].buffer = 0]
              /\ UNCHANGED <<closedImports, rcvQueue>>
      /\ received' = [received EXCEPT ![s] = @ + 1]
      /\ deliverables' = Tail(deliverables)
      /\ deliv' = NoDeliverable
      /\ UNCHANGED <<sender, net, dups, importBufferCount, whole>>

(* It does not look the session up again.  If the session has been         *)
(* cancelled, its buffer is gone; if it has been freed, its object is      *)
(* still read as it was.                                                   *)
DelivDeliversStale ==
  LET s == deliv.session
      i == import[s]
  IN  /\ s # 0 /\ ~(i.state = "live" /\ i.obj = deliv.obj)
      /\ importBuffers' = IF i.state = "dead" /\ i.obj = deliv.obj
                          THEN importBuffers ELSE Recycled(importBuffers, deliv)
      /\ received' = [received EXCEPT ![s] = @ + 1]
      /\ deliverables' = Tail(deliverables)
      /\ deliv' = NoDeliverable
      /\ UNCHANGED <<sender, net, dups, import, closedImports, importBufferCount,
                     rcvQueue, whole>>

-----------------------------------------------------------------------------
Init ==
  /\ export = [s \in Session |-> IF s = 1 THEN [NoExport EXCEPT !.state = "open"]
                                 ELSE NoExport]
  /\ meter = "idle" /\ client = "ready" /\ bufOpen = TRUE
  /\ xmitQueue = <<>> /\ net = {} /\ dups = 0
  /\ import = [s \in Session |-> NoImport]
  /\ closedImports = {} /\ importBuffers = <<>> /\ importBufferCount = 0
  /\ deliverables = <<>> /\ deliv = NoDeliverable
  /\ rcvQueue = <<>> /\ whole = {}
  /\ received = [s \in Session |-> 0]

Client   == ClientSends \/ ClientBlocks \/ ClientWakes
Meter    == MeterIssues \/ MeterStarts
Clock    == CheckpointExpires \/ XmitCancelExpires
RcvClock == ReportExpires \/ RecvCancelExpires
Lsi      == \E m \in net : HandleRs(m) \/ HandleCr(m) \/ HandleCas(m)
RcvLsi   == \E m \in net : HandleDs(m) \/ HandleRa(m) \/ HandleCs(m) \/ HandleCar(m)
Deliv    == DelivFinds \/ DelivDelivers \/ DelivDeliversStale

Next == Client \/ Meter \/ LsoSends \/ StopXmit \/ Clock \/ Lsi
          \/ RcvLsoSends \/ RcvClock \/ RcvLsi \/ ForgetImport \/ Deliv

Spec == Init /\ [][Next]_vars

(* Every task runs: the operating system schedules it and the semaphores   *)
(* that the enqueueing code gives wake it; timers do expire.  Nothing is   *)
(* owed by the medium, by the operator or by the timers of closed notes.   *)
FairSpec ==
  /\ Spec
  /\ WF_vars(Client) /\ WF_vars(Meter) /\ WF_vars(LsoSends) /\ WF_vars(Clock)
  /\ WF_vars(RcvLsoSends) /\ WF_vars(RcvClock) /\ WF_vars(Deliv)

-----------------------------------------------------------------------------
(* Properties.                                                             *)

Serial == Nat \X Nat
Segments ==
  [type : {"DS"}, session : Session, seg : Segment, ckpt : Nat, rpt : Serial]
    \cup [type : {"RS"}, session : Session, serial : Serial, ckpt : Nat,
          lower : Nat, upper : Nat, claims : SUBSET Segment]
    \cup [type : {"RA"}, session : Session, serial : Serial]
    \cup [type : {"CS", "CAS", "CR", "CAR"}, session : Session]
Exports ==
  [state : {"none", "open", "buffered", "live", "dead", "closed"},
   sdus : {"none", "held", "complete", "canceled"},
   ckpts : Seq([seg : Segment, rpt : Serial, tries : Nat, timer : BOOLEAN]),
   claims : SUBSET Segment, rsSerials : SUBSET Serial, tries : Nat, timer : BOOLEAN]
Reports ==
  [serial : Serial, ckpt : Nat, lower : Nat, upper : Nat, claims : SUBSET Segment,
   tries : Nat, timer : BOOLEAN]
Imports ==
  [state : {"none", "live", "dead"}, obj : Nat, red : SUBSET Segment,
   cleared : BOOLEAN, reports : SUBSET Reports, reportsCount : Nat, next : Nat,
   finalRpt : Serial, finalRptAcked : BOOLEAN, delivered : BOOLEAN, buffer : Nat,
   tries : Nat, timer : BOOLEAN]

(* Every variable has its type.                                            *)
TypeOK ==
  /\ export \in [Session -> Exports] /\ import \in [Session -> Imports]
  /\ meter \in {"idle", "starting"} /\ client \in {"ready", "waiting"}
  /\ bufOpen \in BOOLEAN
  /\ xmitQueue \in Seq(Segments) /\ rcvQueue \in Seq(Segments)
  /\ net \subseteq Segments /\ dups \in Nat
  /\ closedImports \subseteq Session /\ whole \subseteq Session
  /\ importBuffers \in Seq(Nat) /\ importBufferCount \in Nat
  /\ deliverables \in Seq(Session)
  /\ deliv \in [session : Session \cup {0}, obj : Nat, buffer : Nat]
  /\ received \in [Session -> Nat]

(* A data segment in the queue belongs to an open session.  The lso that   *)
(* finds another one returns from ltpDequeueOutboundSegment without ending *)
(* its transaction (libltpP.c:3585), and everything stops.                 *)
QueuedDataIsLive ==
  \A k \in DOMAIN xmitQueue : xmitQueue[k].type = "DS" =>
    LET m == xmitQueue[k]
    IN  /\ export[m.session].state = "live"
        /\ m.ckpt # 0 => m.ckpt \in DOMAIN export[m.session].ckpts

(* An import buffer is either free, once, or the buffer of one session     *)
(* that is still receiving; none is lost and none serves two blocks.       *)
BuffersOwned ==
  /\ importBufferCount <= MaxImports
  /\ \A b \in 1..importBufferCount :
       Cardinality({k \in DOMAIN importBuffers : importBuffers[k] = b})
         + Cardinality({s \in Session : import[s].buffer = b}) = 1

(* A session number noted as closed has no session: late segments do not   *)
(* resurrect it, and its block is not received again.                      *)
ClosedStaysClosed == \A s \in closedImports : import[s].state = "none"

(* The data of a block goes to the client once: libltpP.c:5871 queues for  *)
(* delivery what "has not yet been delivered".                             *)
DeliveredOnce == \A s \in Session : received[s] <= 1

(* What the client is told agrees with what the other engine has.          *)
Block == [s \in Session |->
  IF received[s] > 0 THEN "delivered"
  ELSE IF s \notin whole THEN "absent"
  ELSE IF import[s].state = "live" THEN "whole" ELSE "dropped"]
Promise == INSTANCE LtpBlock WITH sdus <- [s \in Session |-> export[s].sdus],
                                  block <- Block
RefinesLtpBlock == Promise!Spec

(* Whatever is lost, the client gets its data back: in Complete notices or *)
(* in Canceled ones.                                                       *)
SdusReturned ==
  \A s \in Session : export[s].sdus = "held" ~> export[s].sdus \in {"complete", "canceled"}

(* A client that waits for room in a block goes on.                        *)
ClientUnblocked == client = "waiting" ~> client = "ready"

(* Once the whole red part is there its session ends, whatever is lost.    *)
WholeSessionEnds ==
  \A s \in Session :
    import[s].state = "live" /\ import[s].red = Segment ~> import[s].state # "live"
=============================================================================
