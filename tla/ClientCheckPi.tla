------------------------------ MODULE ClientCheckPi ------------------------------
(***************************************************************************)
(* lib/client/ClientCheckPi.cc: CheckPiStatus, called once per segment on  *)
(* the main thread, with the console it shares with GrpcThread.            *)
(*                                                                         *)
(* cout and cerr are pointed at the log of the call and back.  GrpcThread  *)
(* prints meanwhile: operator<< takes the buffer of the stream, then puts  *)
(* the characters there.  Bytes and packets are those the kernel counts    *)
(* for wlan0; a packet received has two bytes, so that the two differ.     *)
(***************************************************************************)
EXTENDS Integers, Sequences, SequencesExt

CONSTANTS
  MaxCalls,    \* bound: calls of CheckPiStatus
  MaxPackets,  \* bound: packets in each direction
  MaxTime,     \* bound: milliseconds (coarse) on steady_clock
  MaxPrints    \* bound: messages GrpcThread prints

ASSUME ClientCheckPiAssumption ==
  {MaxCalls, MaxPackets, MaxTime, MaxPrints} \subseteq Nat

VARIABLES
  pc,        \* the main thread's next statement
  call,      \* number of the call of CheckPiStatus
  logFile,   \* its log: "open", "failed" (to open) or "closed"
  stream,    \* cout and cerr: where they write, and badbit
  parts,     \* wifiInfo, networkTraffic, cameraStatus
  status,    \* the result: the call each of its lines was taken in
  wlan0,     \* the kernel's counters
  now,       \* steady_clock
  prev,      \* the static prevRxBytes, prevTxBytes, prevTime
  sample,    \* what executeCommand(KCmdTraffic) read
  rates,     \* history: for each rate reported, what is divided by what
  printing,  \* the buffer GrpcThread is putting its message into, or Nowhere
  prints     \* number of messages it has begun

logVars     == <<logFile, stream>>
trafficVars == <<prev, sample, rates>>
kernelVars  == <<wlan0, now>>
grpcVars    == <<printing, prints>>
vars == <<pc, call, logVars, parts, status, kernelVars, trafficVars, grpcVars>>

Streams == {"cout", "cerr"}
Logs    == 1 .. MaxCalls             \* the log of the call with that number
Console == 0
Nowhere == -1
NoTime  == -1                        \* prevTime before its declaration is passed

Init ==
  /\ pc = "film" /\ call = 0
  /\ logFile = "closed"
  /\ stream = [s \in Streams |-> [buf |-> Console, bad |-> FALSE]]
  /\ parts = [wifi |-> 0, traffic |-> 0, camera |-> 0]
  /\ status = {}
  /\ wlan0 \in [rx : {0, 2}, rxPackets : {0, 1}, tx : {0, 2}]
  /\ wlan0.rx = 2 * wlan0.rxPackets
  /\ now = 0
  /\ prev = [rx |-> 0, tx |-> 0, time |-> NoTime]
  /\ sample = wlan0
  /\ rates = <<>>
  /\ printing = Nowhere /\ prints = 0

\* An open buffer takes what is put into it
Takes(buf) == buf = Console \/ (buf = call /\ logFile = "open")

\* rdbuf(sb) also clears the state of the stream
Redirect(s, buf) == stream' = [stream EXCEPT ![s] = [buf |-> buf, bad |-> FALSE]]

\* operator<< of the main thread: badbit if the buffer does not take it
Printed == [s \in Streams |->
             [stream[s] EXCEPT !.bad = @ \/ (s = "cout" /\ ~Takes(stream[s].buf))]]

Goto(from, to) == pc = from /\ pc' = to

-----------------------------------------------------------------------------

\* kDurationSeconds of filming, then EncodeToMemory calls CheckPiStatus. The
\* directory of the log may be missing.
Enter ==
  /\ Goto("film", "redirect_cout")
  /\ call < MaxCalls /\ now < MaxTime
  /\ call' = call + 1
  /\ now' = now + 1
  /\ logFile' \in {"open", "failed"}
  /\ status' = {}
  /\ parts' = [wifi |-> 0, traffic |-> 0, camera |-> 0]
  /\ UNCHANGED <<stream, wlan0, trafficVars, grpcVars>>

RedirectCout ==
  /\ Goto("redirect_cout", "redirect_cerr")
  /\ Redirect("cout", call)
  /\ UNCHANGED <<call, logFile, parts, status, kernelVars, trafficVars, grpcVars>>

RedirectCerr ==
  /\ Goto("redirect_cerr", "wifi")
  /\ Redirect("cerr", call)
  /\ UNCHANGED <<call, logFile, parts, status, kernelVars, trafficVars, grpcVars>>

\* executeCommand: the exception of a failed popen() ends the try block. Any
\* other failure leaves an output no pattern matches, and a part says "failed".
executeCommand(next) ==
  \/ pc' = next
  \/ pc' = "catch"

\* getWifiInfo: seven commands, each of which may throw
getWifiInfo ==
  /\ pc = "wifi"
  /\ executeCommand("traffic")
  /\ parts' = IF pc' = "catch" THEN parts ELSE [parts EXCEPT !.wifi = call]
  /\ stream' = Printed
  /\ UNCHANGED <<call, logFile, status, kernelVars, trafficVars, grpcVars>>

\* getNetworkTraffic up to the output of the command. prevTime is set when its
\* declaration is passed for the first time.
ReadTraffic ==
  /\ pc = "traffic"
  /\ executeCommand("rate")
  /\ prev' = [prev EXCEPT !.time = IF @ = NoTime THEN now ELSE @]
  /\ sample' = IF pc' = "catch" THEN sample ELSE wlan0
  /\ stream' = Printed
  /\ UNCHANGED <<call, logFile, parts, status, kernelVars, rates, grpcVars>>

\* matches[1] and matches[2] are the bytes and the packets of the RX line.
rxBytes == sample.rx
txBytes == sample.rxPackets

\* The rates: bytes since the last rate, and milliseconds to divide them by
Reported ==
  Append(rates, [rx |-> rxBytes - prev.rx, tx |-> txBytes - prev.tx, ms |-> now - prev.time,
                 at |-> now, read |-> sample])

TimeLeftAlone ==   \* mutant: prevTime is not updated
  /\ prev' = [prev EXCEPT !.rx = rxBytes, !.tx = txBytes]
  /\ rates' = Reported

\* The rest of getNetworkTraffic, whether or not the pattern matches
KbpsOfInterval ==
  \/ /\ prev' = [rx |-> rxBytes, tx |-> txBytes, time |-> now]
     /\ rates' = Reported
  \/ UNCHANGED <<prev, rates>>

ReportTraffic ==
  /\ Goto("rate", "camera")
  /\ KbpsOfInterval
  /\ parts' = [parts EXCEPT !.traffic = call]
  /\ UNCHANGED <<call, logVars, status, kernelVars, sample, grpcVars>>

getCamera ==
  /\ pc = "camera"
  /\ executeCommand("report")
  /\ parts' = IF pc' = "catch" THEN parts ELSE [parts EXCEPT !.camera = call]
  /\ stream' = Printed
  /\ UNCHANGED <<call, logFile, status, kernelVars, trafficVars, grpcVars>>

ReportWithoutReset ==   \* mutant: what is there is returned
  /\ pc \in {"report", "catch"} /\ pc' = "restore_cout"
  /\ status' = {parts.wifi, parts.camera, parts.traffic}
  /\ stream' = Printed
  /\ UNCHANGED <<call, logFile, parts, kernelVars, trafficVars, grpcVars>>

ReturnFromCatch ==   \* mutant: an exception skips the restoring
  /\ pc \in {"report", "catch"} /\ pc' = IF pc = "catch" THEN "close" ELSE "restore_cout"
  /\ status' = IF pc = "catch" THEN {} ELSE {parts.wifi, parts.camera, parts.traffic}
  /\ stream' = Printed
  /\ UNCHANGED <<call, logFile, parts, kernelVars, trafficVars, grpcVars>>

\* The status is put together when the three parts are there
Report ==
  /\ pc \in {"report", "catch"} /\ pc' = "restore_cout"
  /\ status' = IF pc = "catch" THEN {} ELSE {parts.wifi, parts.camera, parts.traffic}
  /\ stream' = Printed
  /\ UNCHANGED <<call, logFile, parts, kernelVars, trafficVars, grpcVars>>

RestoreCout ==
  /\ Goto("restore_cout", "restore_cerr")
  /\ Redirect("cout", Console)
  /\ UNCHANGED <<call, logFile, parts, status, kernelVars, trafficVars, grpcVars>>

RestoreCerr ==
  /\ Goto("restore_cerr", "close")
  /\ Redirect("cerr", Console)
  /\ UNCHANGED <<call, logFile, parts, status, kernelVars, trafficVars, grpcVars>>

CloseLog ==
  /\ Goto("close", "film")
  /\ logFile' = "closed"
  /\ UNCHANGED <<call, stream, parts, status, kernelVars, trafficVars, grpcVars>>

CheckPiStatus ==
  \/ Enter \/ RedirectCout \/ RedirectCerr
  \/ getWifiInfo \/ ReadTraffic \/ ReportTraffic \/ getCamera
  \/ Report \/ RestoreCout \/ RestoreCerr \/ CloseLog

mainVars == <<pc, call, logFile, parts, status, trafficVars>>

\* GrpcThread prints (cout << ... << endl in Grpc.cc)
BeginPrint ==
  /\ printing = Nowhere /\ prints < MaxPrints
  /\ prints' = prints + 1
  /\ printing' = stream["cout"].buf
  /\ UNCHANGED <<mainVars, stream, kernelVars>>

EndPrint ==
  /\ printing # Nowhere
  /\ printing' = Nowhere
  /\ stream' = [stream EXCEPT !["cout"].bad = @ \/ ~Takes(printing)]
  /\ UNCHANGED <<mainVars, kernelVars, prints>>

\* The interface and the clock
Receive ==
  /\ wlan0.rxPackets < MaxPackets
  /\ wlan0' = [wlan0 EXCEPT !.rx = @ + 2, !.rxPackets = @ + 1]
  /\ UNCHANGED <<mainVars, stream, now, grpcVars>>

Transmit ==
  /\ wlan0.tx < 2 * MaxPackets
  /\ wlan0' = [wlan0 EXCEPT !.tx = @ + 2]
  /\ UNCHANGED <<mainVars, stream, now, grpcVars>>

Tick ==
  /\ now < MaxTime
  /\ now' = now + 1
  /\ UNCHANGED <<mainVars, stream, wlan0, grpcVars>>

Next ==
  \/ CheckPiStatus \/ BeginPrint \/ EndPrint
  \/ Receive \/ Transmit \/ Tick

Spec == Init /\ [][Next]_vars

-----------------------------------------------------------------------------

\* Whatever commands throw, the console is back when filming goes on, and no
\* stream is left pointing at a log that is closed and destroyed (the order of
\* lines 183 to 187).
NoStreamOnClosedLog ==
  \A s \in Streams :
    /\ pc = "film" => stream[s].buf = Console
    /\ logFile = "closed" => stream[s].buf = Console

\* The rates follow one another, whichever commands failed in between: every
\* byte received since boot is counted in one of them, each is divided by the
\* time since the one before, and only the first may be divided by zero.
RatesTile ==
  /\ rates # <<>> => rates[1].rx = rates[1].read.rx
  /\ \A i \in 2 .. Len(rates) :
       /\ rates[i].rx = rates[i].read.rx - rates[i-1].read.rx
       /\ rates[i].rx >= 0
       /\ rates[i].ms > 0
       /\ rates[i].ms = rates[i].at - rates[i-1].at

\* A status is empty, or all of it was taken in this call: nothing of an
\* earlier call, and no half of it.
StatusOfThisCall ==
  pc \in {"restore_cout", "restore_cerr", "close"} =>
    status \in {{}, {call}}

\* "parse RX and TX bytes" (line 107): the TX rate is that of the bytes sent.
TxRateIsOfBytesSent ==
  \A i \in 2 .. Len(rates) : rates[i].tx = rates[i].read.tx - rates[i-1].read.tx

=============================================================================
