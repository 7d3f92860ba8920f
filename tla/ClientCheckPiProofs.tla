--------------------------- MODULE ClientCheckPiProofs ---------------------------
(***************************************************************************)
(* Proofs about ClientCheckPi, for any number of calls, packets and        *)
(* messages of GrpcThread: the console comes back, a status is of one      *)
(* call, and the rates of the calls follow one another.                    *)
(***************************************************************************)
EXTENDS ClientCheckPi, TLAPS

StreamType == [Streams -> [buf : Int, bad : BOOLEAN]]
PartsType  == [wifi : Int, traffic : Int, camera : Int]

\* Where the streams point from statement to statement
Redirected ==
  /\ logFile = "closed" => pc = "film"
  /\ pc \in {"film", "restore_cerr", "close"} => stream["cout"].buf = Console
  /\ pc \in {"film", "close"} => stream["cerr"].buf = Console

\* Which parts are of this call when the status is put together
PartsOfThisCall ==
  /\ pc \in {"traffic", "rate", "camera", "report"} => parts.wifi = call
  /\ pc \in {"camera", "report"} => parts.traffic = call
  /\ pc = "report" => parts.camera = call

IInv ==
  /\ call \in Int
  /\ stream \in StreamType
  /\ parts \in PartsType
  /\ Redirected
  /\ PartsOfThisCall
  /\ StatusOfThisCall

\* Wherever a stream points, what the main thread prints leaves it pointing there.
LEMMA PrintedStays ==
  ASSUME stream \in StreamType
  PROVE  /\ Printed \in StreamType
         /\ \A s \in Streams : Printed[s].buf = stream[s].buf
BY DEF Printed, StreamType, Streams

\* rdbuf() points one stream elsewhere and leaves the other alone.
LEMMA RedirectOne ==
  ASSUME stream \in StreamType, NEW s \in Streams, NEW b \in Int, Redirect(s, b)
  PROVE  /\ stream' \in StreamType
         /\ stream'[s].buf = b
         /\ \A t \in Streams : t # s => stream'[t] = stream[t]
BY DEF Redirect, StreamType, Streams

\* IInv holds at first.
LEMMA InitIInv == Init => IInv
BY DEF Init, IInv, StreamType, PartsType, Redirected, PartsOfThisCall, StatusOfThisCall,
       Console, Streams

\* IInv is kept by every step.
LEMMA NextIInv == IInv /\ [Next]_vars => IInv'
<1> SUFFICES ASSUME IInv, [Next]_vars PROVE IInv'
  OBVIOUS
<1> USE DEF IInv, Redirected, PartsOfThisCall, StatusOfThisCall
<1>. "cout" \in Streams /\ "cerr" \in Streams /\ Console \in Int
  BY DEF Streams, Console
<1>1. CASE Enter
  BY <1>1 DEF Enter, Goto, trafficVars, grpcVars, PartsType
<1>2. CASE RedirectCout
  BY <1>2, RedirectOne DEF RedirectCout, Goto
<1>3. CASE RedirectCerr
  BY <1>3, RedirectOne DEF RedirectCerr, Goto
<1>4. CASE getWifiInfo
  BY <1>4, PrintedStays DEF getWifiInfo, executeCommand, PartsType
<1>5. CASE ReadTraffic
  BY <1>5, PrintedStays DEF ReadTraffic, executeCommand
<1>6. CASE ReportTraffic
  BY <1>6 DEF ReportTraffic, Goto, logVars, PartsType
<1>7. CASE getCamera
  BY <1>7, PrintedStays DEF getCamera, executeCommand, PartsType
<1>8. CASE Report
  BY <1>8, PrintedStays DEF Report
<1>9. CASE RestoreCout
  BY <1>9, RedirectOne DEF RestoreCout, Goto
<1>10. CASE RestoreCerr
  BY <1>10, RedirectOne DEF RestoreCerr, Goto
<1>11. CASE CloseLog
  BY <1>11 DEF CloseLog, Goto
<1>12. CASE BeginPrint
  BY <1>12 DEF BeginPrint, mainVars
<1>13. CASE EndPrint
  <2>1. stream' \in StreamType /\ \A s \in Streams : stream'[s].buf = stream[s].buf
    BY <1>13 DEF EndPrint, StreamType, Streams, Takes
  <2> QED
    BY <2>1, <1>13 DEF EndPrint, mainVars
<1>14. CASE Receive \/ Transmit \/ Tick
  BY <1>14 DEF Receive, Transmit, Tick, mainVars
<1>15. CASE UNCHANGED vars
  BY <1>15 DEF vars, logVars
<1> QED
  BY <1>1, <1>2, <1>3, <1>4, <1>5, <1>6, <1>7, <1>8, <1>9, <1>10, <1>11, <1>12, <1>13, <1>14,
     <1>15 DEF Next, CheckPiStatus

\* IInv holds in every state.
THEOREM Invariance == Spec => []IInv
BY InitIInv, NextIInv, PTL DEF Spec

\* Whatever commands throw and whenever GrpcThread prints, cout and cerr are back on the
\* console before the log they were pointed at is closed.
THEOREM ConsoleComesBack == Spec => []NoStreamOnClosedLog
<1>1. IInv => NoStreamOnClosedLog
  BY DEF IInv, Redirected, NoStreamOnClosedLog, Streams
<1> QED
  BY <1>1, Invariance, PTL

\* A status is empty or all of it is of the call that reports it, though the parts are
\* members that outlive a call.
THEOREM StatusIsOfThisCall == Spec => []StatusOfThisCall
<1>1. IInv => StatusOfThisCall
  BY DEF IInv
<1> QED
  BY <1>1, Invariance, PTL

-----------------------------------------------------------------------------
(***************************************************************************)
(* The statics of getNetworkTraffic are those of the last rate reported,   *)
(* through calls whose command threw or whose output did not match: the    *)
(* kernel has counted since then and, from Enter on, the clock has moved.  *)
(***************************************************************************)

Counters == [rx : Int, rxPackets : Int, tx : Int]
Rate     == [rx : Int, tx : Int, ms : Int, at : Int, read : Counters]

RateTypes ==
  /\ now \in Nat
  /\ wlan0 \in Counters /\ sample \in Counters
  /\ prev \in [rx : Int, tx : Int, time : Int]
  /\ rates \in Seq(Rate)

Statics ==
  /\ prev.rx <= wlan0.rx
  /\ pc = "rate" => prev.rx <= sample.rx /\ sample.rx <= wlan0.rx
  /\ rates = <<>> => prev.rx = 0
  /\ rates # <<>> =>
       /\ prev.rx = Last(rates).read.rx
       /\ prev.time = Last(rates).at
       /\ 0 <= prev.time /\ prev.time <= now
       /\ pc \in {"redirect_cout", "redirect_cerr", "wifi", "traffic", "rate"} => prev.time < now

RInv == RateTypes /\ Statics /\ RatesTile

\* Steps that report nothing, and neither enter a call nor read the counters
LEMMA RatesKept ==
  ASSUME RInv, UNCHANGED <<prev, rates, sample>>, now' \in Nat, now <= now',
         wlan0' \in Counters, wlan0.rx <= wlan0'.rx,
         pc' \in {"redirect_cout", "redirect_cerr", "wifi", "traffic"} =>
           \/ pc \in {"redirect_cout", "redirect_cerr", "wifi", "traffic"}
           \/ now < now',
         pc' = "rate" => pc = "rate"
  PROVE  RInv'
<1>1. RateTypes'
  BY DEF RInv, RateTypes
<1>2. /\ prev.rx \in Int /\ prev.time \in Int /\ wlan0.rx \in Int /\ wlan0'.rx \in Int
      /\ now \in Int /\ now' \in Int /\ sample.rx \in Int
  BY DEF RInv, RateTypes, Counters
<1>3. Statics'
  BY <1>2 DEF RInv, Statics
<1>. QED
  BY <1>1, <1>3 DEF RInv, RatesTile

\* RInv holds at first.
LEMMA RInvInit == Init => RInv
<1>. SUFFICES ASSUME Init PROVE RInv
  OBVIOUS
<1>1. wlan0 \in Counters /\ wlan0.rx >= 0
  BY DEF Init, Counters
<1>. QED
  BY <1>1 DEF Init, RInv, RateTypes, Statics, RatesTile, NoTime

\* Passing the declaration of prevTime sets it only while there is no rate.
LEMMA ReadStep == ASSUME RInv, ReadTraffic PROVE RInv'
<1>1. /\ pc = "traffic" /\ pc' \in {"rate", "catch"}
      /\ prev' = [prev EXCEPT !.time = IF @ = NoTime THEN now ELSE @]
      /\ sample' = (IF pc' = "catch" THEN sample ELSE wlan0)
      /\ UNCHANGED <<now, wlan0, rates>>
  BY DEF ReadTraffic, executeCommand, kernelVars
<1>2. PICK t : t = IF prev.time = NoTime THEN now ELSE prev.time
  OBVIOUS
<1>3. t \in Int /\ (rates # <<>> => t = prev.time)
  BY <1>2 DEF RInv, RateTypes, Statics, NoTime
<1>4. prev' = [prev EXCEPT !.time = t]
  BY <1>1, <1>2
<1>5. prev' \in [rx : Int, tx : Int, time : Int] /\ prev'.rx = prev.rx /\ prev'.time = t
  BY <1>3, <1>4 DEF RInv, RateTypes
<1>6. RateTypes'
  BY <1>1, <1>5 DEF RInv, RateTypes
<1>7. prev.rx \in Int /\ wlan0.rx \in Int /\ now \in Int
  BY DEF RInv, RateTypes, Counters
<1>8. Statics'
  BY <1>1, <1>3, <1>5, <1>7 DEF RInv, Statics
<1>. QED
  BY <1>1, <1>6, <1>8 DEF RInv, RatesTile

\* A rate goes on where the last one ended.
LEMMA ReportStep == ASSUME RInv, ReportTraffic PROVE RInv'
<1>1. pc = "rate" /\ pc' = "camera" /\ UNCHANGED <<now, wlan0, sample>>
  BY DEF ReportTraffic, Goto, kernelVars
<1>2. CASE UNCHANGED <<prev, rates>>
  BY <1>1, <1>2 DEF RInv, RateTypes, Statics, RatesTile
<1>3. CASE prev' = [rx |-> rxBytes, tx |-> txBytes, time |-> now] /\ rates' = Reported
  <2>1. PICK r : r = [rx |-> rxBytes - prev.rx, tx |-> txBytes - prev.tx, ms |-> now - prev.time,
                      at |-> now, read |-> sample]
    OBVIOUS
  <2>2. /\ rxBytes \in Int /\ txBytes \in Int /\ rxBytes = sample.rx /\ now \in Nat
        /\ prev.rx \in Int /\ prev.tx \in Int /\ prev.time \in Int /\ sample \in Counters
        /\ sample.rx \in Int
    BY DEF RInv, RateTypes, Counters, rxBytes, txBytes
  <2>3. /\ r \in Rate /\ r.rx = sample.rx - prev.rx /\ r.ms = now - prev.time
        /\ r.at = now /\ r.read = sample
    BY <2>1, <2>2 DEF Rate
  <2>4. /\ rates \in Seq(Rate) /\ Len(rates) \in Nat /\ rates' = Append(rates, r)
        /\ rates = <<>> <=> Len(rates) = 0
    BY <1>3, <2>1 DEF RInv, RateTypes, Reported
  <2>5. /\ rates' \in Seq(Rate) /\ rates' # <<>> /\ Last(rates') = r
        /\ Len(rates') = Len(rates) + 1 /\ rates'[Len(rates')] = r
        /\ \A i \in 1 .. Len(rates) : rates'[i] = rates[i]
    BY <2>3, <2>4 DEF Last
  <2>6. /\ prev' \in [rx : Int, tx : Int, time : Int]
        /\ prev'.rx = sample.rx /\ prev'.time = now
    BY <1>3, <2>2
  <2>7. RateTypes'
    BY <1>1, <2>5, <2>6 DEF RInv, RateTypes
  <2>8. sample.rx <= wlan0.rx
    BY <1>1 DEF RInv, Statics
  <2>9. Statics'
    BY <1>1, <2>2, <2>3, <2>5, <2>6, <2>8 DEF Statics
  <2>10. RatesTile'
    <3>1. rates'[1].rx = rates'[1].read.rx
      <4>1. CASE rates = <<>>
        BY <2>2, <2>3, <2>4, <2>5, <4>1 DEF RInv, Statics
      <4>2. CASE rates # <<>>
        BY <2>4, <2>5, <4>2 DEF RInv, RatesTile
      <4>. QED
        BY <4>1, <4>2
    <3>2. ASSUME NEW i \in 2 .. Len(rates')
          PROVE  /\ rates'[i].rx = rates'[i].read.rx - rates'[i-1].read.rx
                 /\ rates'[i].rx >= 0
                 /\ rates'[i].ms > 0
                 /\ rates'[i].ms = rates'[i].at - rates'[i-1].at
      <4>1. CASE i \in 2 .. Len(rates)
        <5>1. rates'[i] = rates[i] /\ rates'[i-1] = rates[i-1]
          BY <2>4, <2>5, <4>1
        <5>. QED
          BY <4>1, <5>1 DEF RInv, RatesTile
      <4>2. CASE i = Len(rates) + 1
        <5>1. rates # <<>> /\ i - 1 = Len(rates) /\ i - 1 \in 1 .. Len(rates)
          BY <2>4, <2>5, <4>2
        <5>2. rates'[i] = r /\ rates'[i-1] = Last(rates)
          BY <2>5, <4>2, <5>1 DEF Last
        <5>3. /\ prev.rx = Last(rates).read.rx /\ prev.time = Last(rates).at
              /\ prev.time < now /\ prev.rx <= sample.rx
          BY <1>1, <5>1 DEF RInv, Statics
        <5>4. r.rx >= 0 /\ r.ms > 0
          BY <2>2, <2>3, <5>3
        <5>. QED
          BY <2>3, <5>2, <5>3, <5>4
      <4>. QED
        BY <2>4, <2>5, <4>1, <4>2
    <3>. QED
      BY <3>1, <3>2 DEF RatesTile
  <2>. QED
    BY <2>7, <2>9, <2>10 DEF RInv
<1>. QED
  BY <1>2, <1>3 DEF ReportTraffic, KbpsOfInterval

\* RInv is kept by every step.
LEMMA RInvNext == RInv /\ [Next]_vars => RInv'
<1>. SUFFICES ASSUME RInv, [Next]_vars PROVE RInv'
  OBVIOUS
<1>1. now \in Nat /\ now \in Int /\ wlan0 \in Counters /\ wlan0.rx \in Int
  BY DEF RInv, RateTypes, Counters
<1>2. CASE Enter
  BY <1>1, <1>2, RatesKept DEF Enter, Goto, trafficVars
<1>3. CASE RedirectCout \/ RedirectCerr \/ getWifiInfo \/ getCamera \/ Report
           \/ RestoreCout \/ RestoreCerr \/ CloseLog
  <2>1. UNCHANGED <<prev, rates, sample, now, wlan0>>
    BY <1>3 DEF RedirectCout, RedirectCerr, getWifiInfo, getCamera, Report, RestoreCout,
       RestoreCerr, CloseLog, trafficVars, kernelVars
  <2>2. /\ pc' \in {"redirect_cout", "redirect_cerr", "wifi", "traffic"} =>
             pc \in {"redirect_cout", "redirect_cerr", "wifi", "traffic"}
        /\ pc' # "rate"
    BY <1>3 DEF RedirectCout, RedirectCerr, getWifiInfo, getCamera, Report, RestoreCout,
       RestoreCerr, CloseLog, Goto, executeCommand
  <2>. QED
    BY <1>1, <2>1, <2>2, RatesKept
<1>4. CASE ReadTraffic
  BY <1>4, ReadStep
<1>5. CASE ReportTraffic
  BY <1>5, ReportStep
<1>6. CASE BeginPrint \/ EndPrint \/ UNCHANGED vars
  BY <1>1, <1>6, RatesKept DEF BeginPrint, EndPrint, vars, mainVars, trafficVars, kernelVars
<1>7. CASE Receive \/ Transmit
  <2>1. wlan0' \in Counters /\ wlan0.rx <= wlan0'.rx
    <3>1. CASE Receive
      <4>1. PICK a, b : a = wlan0.rx + 2 /\ b = wlan0.rxPackets + 1
        OBVIOUS
      <4>2. a \in Int /\ b \in Int /\ wlan0.rx <= a
        BY <1>1, <4>1 DEF Counters
      <4>3. wlan0' = [wlan0 EXCEPT !.rx = a, !.rxPackets = b]
        BY <3>1, <4>1 DEF Receive
      <4>4. wlan0' \in Counters /\ wlan0'.rx = a
        BY <1>1, <4>2, <4>3 DEF Counters
      <4>. QED
        BY <4>2, <4>4
    <3>2. CASE Transmit
      <4>1. PICK a : a = wlan0.tx + 2
        OBVIOUS
      <4>2. a \in Int
        BY <1>1, <4>1 DEF Counters
      <4>3. wlan0' = [wlan0 EXCEPT !.tx = a]
        BY <3>2, <4>1 DEF Transmit
      <4>4. wlan0' \in Counters /\ wlan0'.rx = wlan0.rx
        BY <1>1, <4>2, <4>3 DEF Counters
      <4>. QED
        BY <1>1, <4>4
    <3>. QED
      BY <1>7, <3>1, <3>2
  <2>2. UNCHANGED <<pc, prev, rates, sample, now>>
    BY <1>7 DEF Receive, Transmit, mainVars, trafficVars
  <2>. QED
    BY <1>1, <2>1, <2>2, RatesKept
<1>8. CASE Tick
  BY <1>1, <1>8, RatesKept DEF Tick, mainVars, trafficVars
<1>. QED
  BY <1>2, <1>3, <1>4, <1>5, <1>6, <1>7, <1>8 DEF Next, CheckPiStatus

\* However many calls fail between two of them, the rates follow one another: their
\* bytes add up to those received, over the time that has passed, which is not 0.
THEOREM RatesFollow == Spec => []RatesTile
<1>1. RInv => RatesTile
  BY DEF RInv
<1>. QED
  BY <1>1, RInvInit, RInvNext, PTL DEF Spec

=============================================================================
