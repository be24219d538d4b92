-------------------------------- MODULE UartCl --------------------------------
(***************************************************************************)
(* The UART convergence layer (bpv7/uart): the output daemon uartclo on    *)
(* one node, the serial line, and the input daemon uartcli on the other.   *)
(*                                                                         *)
(* bpclm puts a bundle in the outduct's buffer and gives the duct's        *)
(* semaphore; uartclo dequeues it and writes its bytes to the line; uartcli *)
(* gathers bytes until its buffer is full or the line has been silent for  *)
(* the one second that VTIME asks for, and hands what it has to bundle     *)
(* acquisition.  There is no framing on the line.                          *)
(*                                                                         *)
(* A byte is a pair <<bundle, index>>.  Bundles are told apart by their    *)
(* first byte; bytes from the middle of a bundle parse as no bundle.       *)
(***************************************************************************)
EXTENDS Integers, Sequences, FiniteSets, Lists

CONSTANTS
  Bundle,        \* bundles to send, in order of submission: 1..N
  Length,        \* [Bundle -> length of the catenated bundle]
  Reliable,      \* bundles for which bpDequeue accepts stewardship
  UARTCLA_BUFSZ, \* 255 in the code
  Faults,        \* faults that may strike, a subset of FaultKinds
  MaxFaults,     \* model bound on the number of faults
  MaxStops,      \* model bound on the operator's stop requests
  MaxStarts      \* model bound on the operator's starts of uartclo

FaultKinds == {"openFails", "writeFails", "shortWrite", "corrupt",
               "ttyFails", "readFails", "congestion"}

ASSUME UartAssumption ==
  /\ Bundle \subseteq Nat \ {0}
  /\ Length \in [Bundle -> Nat \ {0}]
  /\ Reliable \subseteq Bundle
  /\ UARTCLA_BUFSZ \in Nat \ {0}
  /\ Faults \subseteq FaultKinds
  /\ MaxFaults \in Nat /\ MaxStops \in Nat /\ MaxStarts \in Nat

VARIABLES
  fate,          \* what has become of each bundle at the sending node
  xmitBuffer,    \* outduct.xmitBuffer
  semGiven,      \* vduct->semaphore can be taken
  semEnded,      \* sm_SemEnded(vduct->semaphore)
  stopping,      \* bpStopOutduct is waiting for uartclo
  clo,           \* where uartclo is
  ductSocket,    \* uartclo's port is open
  bundle,        \* the bundle uartclo is sending, 0 if none
  bytesSent,     \* what its write() returned
  line,          \* bytes on their way
  cli,           \* where the receiver thread of uartcli is
  uartPort,      \* uartcli's port: "closed", "raw" or "open"
  received,      \* bytes gathered so far
  delivered,     \* history: the bundles acquired, in order
  written,       \* history: the bundles given to write(), in order
  spaced,        \* the line is silent for a second after each bundle
  openFailed,    \* history: an attempt to open the port has failed
  faults, stops, starts

sending   == <<fate, xmitBuffer, semGiven, semEnded, stopping>>
cloVars   == <<clo, ductSocket, bundle, bytesSent, written>>
cliVars   == <<cli, uartPort, received, delivered>>
struck    == <<faults, openFailed, spaced>>
bounds    == <<struck, stops, starts>>
vars == <<sending, cloVars, line, cliVars, bounds>>

Strikes(f) ==
  /\ f \in Faults
  /\ faults < MaxFaults /\ faults' = faults + 1
  /\ openFailed' = (openFailed \/ f = "openFails")
  /\ UNCHANGED spaced

Bytes(b) == [i \in 1..Length[b] |-> <<b, i>>]

-----------------------------------------------------------------------------
(* The sending node.                                                       *)

(* Mutant: bpclm does not give the semaphore.                              *)
BpclmSilent ==
  /\ \E b \in Bundle :
       /\ fate[b] = "forward"
       /\ \A c \in Bundle : fate[c] = "forward" => b <= c
       /\ fate' = [fate EXCEPT ![b] = "queued"]
       /\ xmitBuffer' = Append(xmitBuffer, b)
  /\ UNCHANGED <<semGiven, semEnded, stopping, cloVars, line, cliVars, bounds>>

(* bpclm: the bundle goes from the plan's queue to the outduct's buffer.   *)
Bpclm ==
  /\ \E b \in Bundle :
       /\ fate[b] = "forward"
       /\ \A c \in Bundle : fate[c] = "forward" => b <= c
       /\ fate' = [fate EXCEPT ![b] = "queued"]
       /\ xmitBuffer' = Append(xmitBuffer, b)
  /\ semGiven' = TRUE
  /\ UNCHANGED <<semEnded, stopping, cloVars, line, cliVars, bounds>>

(* Mutant: the end of the semaphore does not release its waiter.           *)
SemEndSilently == semEnded' = TRUE /\ UNCHANGED semGiven

SemEnd == semEnded' = TRUE /\ semGiven' = TRUE

(* SIGTERM: shutDownClo.                                                   *)
ShutDownClo ==
  /\ stops < MaxStops /\ stops' = stops + 1
  /\ clo # "ended"
  /\ SemEnd
  /\ UNCHANGED <<fate, xmitBuffer, stopping, cloVars, line, cliVars, struck, starts>>

(* bpStopOutduct ends the semaphore, waits until the daemon is gone and    *)
(* resets the semaphore: un-ended and taken.                               *)
StopOutduct ==
  /\ stops < MaxStops /\ stops' = stops + 1
  /\ ~stopping
  /\ stopping' = TRUE
  /\ SemEnd
  /\ UNCHANGED <<fate, xmitBuffer, cloVars, line, cliVars, struck, starts>>

ResetOutduct ==
  /\ stopping /\ clo = "ended"
  /\ stopping' = FALSE
  /\ semEnded' = FALSE
  /\ semGiven' = FALSE
  /\ UNCHANGED <<fate, xmitBuffer, cloVars, line, cliVars, bounds>>

(* bpStartOutduct does not reset the semaphore.                            *)
StartOutduct ==
  /\ starts < MaxStarts /\ starts' = starts + 1
  /\ clo = "ended" /\ ~stopping
  /\ clo' = "loop"
  /\ UNCHANGED <<sending, ductSocket, bundle, bytesSent, written, line, cliVars,
                 struck, stops>>

(* Top of uartclo's loop; sm_SemEnded gives an ended semaphore again.      *)
CloLoop ==
  /\ clo = "loop"
  /\ IF semEnded THEN /\ clo' = "ended"
                      /\ ductSocket' = FALSE
                      /\ semGiven' = TRUE
                 ELSE /\ clo' = "dequeue"
                      /\ UNCHANGED <<ductSocket, semGiven>>
  /\ bundle' = 0
  /\ UNCHANGED <<fate, xmitBuffer, semEnded, stopping, bytesSent, written, line, cliVars,
                 bounds>>

(* bpDequeue finds a bundle.  Without stewardship the bundle object is     *)
(* destroyed here; a corrupt bundle is destroyed and skipped.              *)
CloDequeue ==
  LET b == Head(xmitBuffer)
  IN  /\ clo = "dequeue"
      /\ xmitBuffer # <<>>
      /\ xmitBuffer' = Tail(xmitBuffer)
      /\ \/ /\ fate' = [fate EXCEPT ![b] =
                          IF b \in Reliable THEN "steward" ELSE "destroyed"]
            /\ bundle' = b
            /\ clo' = "send"
            /\ UNCHANGED struck
         \/ /\ Strikes("corrupt")
            /\ fate' = [fate EXCEPT ![b] = "destroyed"]
            /\ clo' = "loop"
            /\ UNCHANGED bundle
      /\ UNCHANGED <<semGiven, semEnded, stopping, ductSocket, bytesSent, written,
                     line, cliVars, stops, starts>>

(* bpDequeue finds none: it leaves its transaction, then takes the         *)
(* semaphore, then looks whether it has been ended.                        *)
CloNoBundle ==
  /\ clo = "dequeue" /\ xmitBuffer = <<>>
  /\ clo' = "wait"
  /\ UNCHANGED <<sending, ductSocket, bundle, bytesSent, written, line, cliVars,
                 bounds>>

CloTakeSemaphore ==
  /\ clo = "wait" /\ semGiven
  /\ IF semEnded THEN clo' = "loop" /\ UNCHANGED semGiven
                 ELSE clo' = "dequeue" /\ semGiven' = FALSE
  /\ UNCHANGED <<fate, xmitBuffer, semEnded, stopping, ductSocket, bundle,
                 bytesSent, written, line, cliVars, bounds>>

(* sendBundleByUart refuses a bundle that is too big with -1, which the    *)
(* caller compares, unsigned, with the bundle's length: it goes on.        *)
CloTooBig ==
  /\ clo = "send" /\ Length[bundle] > UARTCLA_BUFSZ
  /\ clo' = "loop"
  /\ UNCHANGED <<sending, ductSocket, bundle, bytesSent, written, line, cliVars,
                 bounds>>

Fits == clo = "send" /\ Length[bundle] <= UARTCLA_BUFSZ

(* openUartPortWrite; when it fails nothing is sent and uartclo stops.     *)
CloOpen ==
  /\ Fits /\ ~ductSocket
  /\ \/ /\ ductSocket' = TRUE
        /\ UNCHANGED <<clo, semEnded, semGiven, struck>>
     \/ /\ Strikes("openFails")
        /\ SemEnd
        /\ clo' = "loop"
        /\ UNCHANGED ductSocket
  /\ UNCHANGED <<fate, xmitBuffer, stopping, bundle, bytesSent, written, line,
                 cliVars, stops, starts>>

(* One write().  When the line is spaced out, it has been silent for a     *)
(* second since the last bundle.  A write error forgets the port.          *)
CloWrite ==
  /\ Fits /\ ductSocket
  /\ spaced /\ cli # "ended" =>
       line = <<>> /\ (received = <<>> \/ uartPort = "raw")
  /\ \/ /\ bytesSent' = Length[bundle]
        /\ UNCHANGED <<ductSocket, struck>>
     \/ /\ Strikes("shortWrite")
        /\ bytesSent' \in 0..(Length[bundle] - 1)
        /\ UNCHANGED ductSocket
     \/ /\ Strikes("writeFails")
        /\ bytesSent' = -1
        /\ ductSocket' = FALSE
  /\ line' = line \o SubSeq(Bytes(bundle), 1, bytesSent')
  /\ written' = Append(written, bundle)
  /\ clo' = "handle"
  /\ UNCHANGED <<sending, bundle, cliVars, stops, starts>>

(* Mutants: the bundle is given back to BP whatever write() returned; it is *)
(* not given back after an error.                                          *)
CloHandleResends ==
  /\ clo = "handle"
  /\ fate' = [fate EXCEPT ![bundle] = "forward"]
  /\ clo' = "loop"
  /\ UNCHANGED <<xmitBuffer, semGiven, semEnded, stopping, ductSocket, bundle,
                 bytesSent, written, line, cliVars, bounds>>
CloHandleForgets ==
  /\ clo = "handle"
  /\ fate' = IF fate[bundle] = "steward" /\ bytesSent >= 0
             THEN [fate EXCEPT ![bundle] = "sent"] ELSE fate
  /\ IF bytesSent < Length[bundle] THEN SemEnd ELSE UNCHANGED <<semEnded, semGiven>>
  /\ clo' = "loop"
  /\ UNCHANGED <<xmitBuffer, stopping, ductSocket, bundle, bytesSent, written, line,
                 cliVars, bounds>>

(* bpHandleXmitSuccess or, after a write error, bpHandleXmitFailure, which *)
(* find the bundle object only if stewardship was accepted; then the test  *)
(* of the result in uartclo's loop.                                        *)
CloHandle ==
  /\ clo = "handle"
  /\ fate' = IF fate[bundle] # "steward" THEN fate
             ELSE [fate EXCEPT ![bundle] = IF bytesSent >= 0 THEN "sent"
                                           ELSE "forward"]
  /\ IF bytesSent < Length[bundle] THEN SemEnd ELSE UNCHANGED <<semEnded, semGiven>>
  /\ clo' = "loop"
  /\ UNCHANGED <<xmitBuffer, stopping, ductSocket, bundle, bytesSent, written, line,
                 cliVars, bounds>>

-----------------------------------------------------------------------------
(* The receiving node.                                                     *)

(* openUartPortRead remembers the port before it sets the terminal up; if  *)
(* that fails, the next call reads from the port as it is.                 *)
CliOpen ==
  /\ cli = "read" /\ uartPort = "closed"
  /\ \/ uartPort' = "open" /\ UNCHANGED struck
     \/ uartPort' = "raw" /\ Strikes("ttyFails")
  /\ UNCHANGED <<sending, cloVars, line, cli, received, delivered,
                 stops, starts>>

Mangled == <<0, 0>>

(* Mutant: the whole buffer is offered to every read().                    *)
CliReadOverruns ==
  /\ cli = "read" /\ uartPort # "closed"
  /\ \E k \in 1..Len(line) :
       /\ k <= UARTCLA_BUFSZ
       /\ received' = received \o SubSeq(line, 1, k)
       /\ line' = SubSeq(line, k + 1, Len(line))
  /\ cli' = IF Len(received') >= UARTCLA_BUFSZ THEN "acquire" ELSE "read"
  /\ UNCHANGED <<sending, cloVars, uartPort, delivered, bounds>>

(* read() takes some of the bytes that have arrived; a port that was never *)
(* set up may translate them.                                              *)
CliRead ==
  /\ cli = "read" /\ uartPort # "closed"
  /\ \E k \in 1..Len(line) :
       /\ Len(received) + k <= UARTCLA_BUFSZ
       /\ \/ received' = received \o SubSeq(line, 1, k)
          \/ /\ uartPort = "raw"
             /\ received' = received \o [i \in 1..k |-> Mangled]
       /\ line' = SubSeq(line, k + 1, Len(line))
  /\ cli' = IF Len(received') = UARTCLA_BUFSZ THEN "acquire" ELSE "read"
  /\ UNCHANGED <<sending, cloVars, uartPort, delivered, bounds>>

(* The line was silent for a second: read() returns 0.                     *)
CliTimeout ==
  /\ cli = "read" /\ uartPort = "open"
  /\ line = <<>> /\ received # <<>>
  /\ cli' = "acquire"
  /\ UNCHANGED <<sending, cloVars, line, uartPort, received, delivered,
                 bounds>>

CliReadFails ==
  /\ cli = "read" /\ uartPort # "closed"
  /\ Strikes("readFails")
  /\ received' = <<>>
  /\ UNCHANGED <<sending, cloVars, line, cli, uartPort, delivered,
                 stops, starts>>

(* bpEndAcq acquires bundles from the front of the chunk as long as a      *)
(* whole one is there, and discards the rest.                              *)
Whole(chunk, q) ==
  LET b == chunk[q][1]
      p == q - chunk[q][2]
  IN  b \in Bundle /\ p >= 0 /\ p + Length[b] <= Len(chunk)
        /\ SubSeq(chunk, p + 1, p + Length[b]) = Bytes(b)
WholeTo(chunk, n) == \A q \in 1..n : Whole(chunk, q)
Acquirable(chunk) ==
  LET n == CHOOSE k \in 0..Len(chunk) :
             WholeTo(chunk, k) /\ (k < Len(chunk) => ~WholeTo(chunk, k + 1))
      ends == Only(SubSeq(chunk, 1, n), {<<b, Length[b]>> : b \in Bundle})
  IN  [i \in DOMAIN ends |-> ends[i][1]]

(* handleDatagrams: a chunk of one byte is ignored; when no ZCO space is   *)
(* to be had bpContinueAcq returns 0 with no ZCO, bpEndAcq fails on it and *)
(* the daemon is taken down.                                               *)
CliAcquire ==
  /\ cli = "acquire"
  /\ received' = <<>>
  /\ \/ /\ Len(received) = 1
        /\ cli' = "read"
        /\ UNCHANGED <<uartPort, delivered, struck>>
     \/ /\ Len(received) > 1
        /\ delivered' = delivered \o Acquirable(received)
        /\ cli' = "read"
        /\ UNCHANGED <<uartPort, struck>>
     \/ /\ Len(received) > 1
        /\ Strikes("congestion")
        /\ cli' = "ended"
        /\ uartPort' = "closed"
        /\ UNCHANGED delivered
  /\ UNCHANGED <<sending, cloVars, line, stops, starts>>

(* SIGTERM: the main thread returns and takes the receiver thread along,   *)
(* whatever that is doing.                                                 *)
StopInduct ==
  /\ stops < MaxStops /\ stops' = stops + 1
  /\ cli # "ended"
  /\ cli' = "ended"
  /\ uartPort' = "closed"
  /\ received' = <<>>
  /\ UNCHANGED <<sending, cloVars, line, delivered, struck, starts>>

StartInduct ==
  /\ starts < MaxStarts /\ starts' = starts + 1
  /\ cli = "ended"
  /\ cli' = "read"
  /\ UNCHANGED <<sending, cloVars, line, uartPort, received, delivered,
                 struck, stops>>

-----------------------------------------------------------------------------
Init ==
  /\ fate = [b \in Bundle |-> "forward"]
  /\ xmitBuffer = <<>>
  /\ semGiven = FALSE /\ semEnded = FALSE /\ stopping = FALSE
  /\ clo = "loop" /\ ductSocket = FALSE /\ bundle = 0 /\ bytesSent = 0
  /\ line = <<>>
  /\ cli = "read" /\ uartPort = "closed" /\ received = <<>>
  /\ delivered = <<>> /\ written = <<>>
  /\ spaced \in BOOLEAN /\ openFailed = FALSE
  /\ faults = 0 /\ stops = 0 /\ starts = 0

Clo == CloLoop \/ CloDequeue \/ CloNoBundle \/ CloTakeSemaphore \/ CloTooBig
         \/ CloOpen \/ CloWrite \/ CloHandle
Cli == CliOpen \/ CliRead \/ CliTimeout \/ CliAcquire
Operator == ShutDownClo \/ StopOutduct \/ StartOutduct \/ StopInduct \/ StartInduct

Next == Bpclm \/ Clo \/ Cli \/ CliReadFails \/ ResetOutduct \/ Operator

Spec == Init /\ [][Next]_vars

(* The daemons are processes that the operating system keeps running, and  *)
(* bpStopOutduct returns; the operator and read errors owe nothing.        *)
FairSpec ==
  /\ Spec
  /\ WF_vars(Bpclm) /\ WF_vars(Clo) /\ WF_vars(Cli) /\ WF_vars(ResetOutduct)

-----------------------------------------------------------------------------
(* Properties.                                                             *)

Fates == {"forward", "queued", "steward", "destroyed", "sent"}
Byte  == (Bundle \X Nat) \cup {Mangled}

(* Every variable has its type.                                            *)
TypeOK ==
  /\ fate \in [Bundle -> Fates]
  /\ xmitBuffer \in Seq(Bundle) /\ bundle \in Bundle \cup {0}
  /\ semGiven \in BOOLEAN /\ semEnded \in BOOLEAN /\ stopping \in BOOLEAN
  /\ ductSocket \in BOOLEAN
  /\ clo \in {"loop", "dequeue", "wait", "send", "handle", "ended"}
  /\ bytesSent \in Nat \cup {-1}
  /\ line \in Seq(Byte) /\ received \in Seq(Byte)
  /\ Len(received) <= UARTCLA_BUFSZ
  /\ cli \in {"read", "acquire", "ended"} /\ uartPort \in {"closed", "raw", "open"}
  /\ delivered \in Seq(Bundle) /\ written \in Seq(Bundle)
  /\ spaced \in BOOLEAN /\ openFailed \in BOOLEAN

(* Bundles come out of the line in the order of the writes, none invented  *)
(* and none twice, however chunks split and merge them, and whatever the   *)
(* daemons' failures, retries and restarts.                                *)
InOrderOnce ==
  \A i, j \in DOMAIN delivered : i < j =>
    /\ delivered[i] # delivered[j]
    /\ \E m, n \in DOMAIN written :
         m < n /\ written[m] = delivered[i] /\ written[n] = delivered[j]

(* libbpP.c: a convergence-layer adapter must call bpHandleXmitSuccess or  *)
(* bpHandleXmitFailure for every bundle for which it accepted stewardship: *)
(* uartclo keeps none when it goes for the next one or ends, if the bundles *)
(* it is a steward of fit and its port can be opened.                      *)
StewardshipResolved ==
  clo \notin {"send", "handle"} =>
    \/ openFailed
    \/ \A b \in Bundle : fate[b] = "steward" => Length[b] > UARTCLA_BUFSZ

(* A request to stop is honoured: uartclo ends although it may be waiting  *)
(* for a bundle, dequeuing one or sending one, and although bpclm gives    *)
(* the same semaphore.                                                     *)
StopHonoured == semEnded ~> clo = "ended"

(* Every bundle put in the outduct's buffer that fits reaches the other    *)
(* node, if the line is spaced out, nothing fails and nobody stops a       *)
(* daemon.                                                                 *)
AllDelivered ==
  \A b \in {c \in Bundle : Length[c] <= UARTCLA_BUFSZ} :
    spaced /\ fate[b] = "queued" ~>
      \/ \E i \in DOMAIN delivered : delivered[i] = b
      \/ faults > 0 \/ stops > 0
=============================================================================
