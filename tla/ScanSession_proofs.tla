------------------------- MODULE ScanSession_proofs -------------------------
(***************************************************************************)
(* The scans of a path of any length: the types, and for a device and a    *)
(* network that keep to the deadlines, that a result is stored with the    *)
(* waypoint it was measured at and that none is lost while the websocket   *)
(* is up. Nothing in the exchange names the scan; that it works is because *)
(* nothing of one scan is left when the next one starts.                   *)
(***************************************************************************)
EXTENDS ScanSession, TLAPS

Started == Len(waypointOf)

-----------------------------------------------------------------------------
(* Types. At most one scan is started at each waypoint.                    *)

InBody == pc \notin {"check", "done"}

Types ==
  /\ pc \in Steps
  /\ processed \in BOOLEAN /\ stopped \in BOOLEAN /\ listening \in BOOLEAN
  /\ stopRequested \in BOOLEAN /\ mock \in BOOLEAN /\ link \in BOOLEAN /\ prompt \in BOOLEAN
  /\ inbox \in Seq({"processed", "stopped"})
  /\ measured \in Seq(0..Started) /\ result \in 0..Started /\ scanning \in 0..Started
  /\ finished \in Seq(1..Started) /\ results \in Seq(1..Started)
  /\ waypointOf \in Seq(0..PathLen - 1)

Counts ==
  /\ Waypoint <= PathLen /\ Started <= PathLen /\ Started <= Waypoint + 1
  /\ pc \in {"check", "clear", "forget", "start", "done"} => Started <= Waypoint
  /\ InBody => Waypoint < PathLen

-----------------------------------------------------------------------------
(* Prompt devices.                                                         *)

\* Nothing of a scan is under way, at the device or on the wire.
Nothing  == scanning = None /\ finished = <<>> /\ inbox = <<>>
\* The last result is that of the scan started last, and no other is to come.
OwnLast  == /\ results # <<>> /\ results[Len(results)] = Started
            /\ scanning = None /\ finished = <<>>
\* The first m results belong to waypoints that were recorded.
Past(m)  == \A k \in 1..m : waypointOf[results[k]] < Waypoint
AllPast  == Past(Len(results))
LastNew  == OwnLast /\ Past(Len(results) - 1)

\* Where the scan of the current waypoint is while the thread waits with the websocket up.
UnderWay ==
  \/ /\ AllPast /\ ~processed /\ ~stopped
     /\ \/ scanning = Started /\ finished = <<>> /\ inbox = <<>>
        \/ scanning = None /\ finished = <<Started>> /\ inbox = <<>>
        \/ scanning = None /\ finished = <<>> /\ inbox = <<"stopped">>
  \/ LastNew /\ inbox = <<"processed">> /\ ~processed /\ ~stopped
  \/ LastNew /\ inbox = <<>> /\ processed /\ ~stopped
  \/ AllPast /\ Nothing /\ ~processed /\ stopped

\* What each place of the thread knows, the websocket up or down.
Local ==
  /\ pc \in {"forget", "start"} => ~processed
  /\ pc = "start" => ~stopped
  /\ pc \in {"clear", "forget", "start", "wait", "poll"} => result = None
  /\ pc \in {"wait", "poll"} => Started > 0 /\ waypointOf[Started] = Waypoint
  /\ pc = "wait" /\ processed => OwnLast
  /\ pc = "poll" => OwnLast
  /\ pc = "record" /\ result # None => waypointOf[result] = Waypoint
Linked ==
  /\ pc \in {"check", "clear", "forget", "start", "done"} => Nothing /\ AllPast
  /\ pc = "wait" => UnderWay
  /\ pc = "poll" => Nothing /\ LastNew
  /\ pc = "record" => Nothing /\ (AllPast \/ (LastNew /\ result = Started))

Own      == \A i \in 1..Len(measured) : measured[i] # None => waypointOf[measured[i]] = i - 1
Recorded == \A k \in 1..Len(results) :
              LET i == waypointOf[results[k]] + 1 IN i <= Len(measured) => measured[i] = results[k]

PromptInv == /\ link => listening
             /\ mock => link
             /\ Local /\ Own
             /\ link => Linked /\ Recorded

-----------------------------------------------------------------------------
(* Sequences.                                                              *)

LEMMA Appended ==
  ASSUME NEW S, NEW s \in Seq(S), NEW a \in S
  PROVE  /\ Append(s, a) \in Seq(S) /\ Len(Append(s, a)) = Len(s) + 1 /\ Len(s) \in Nat
         /\ Append(s, a)[Len(s) + 1] = a
         /\ \A i \in 1..Len(s) : Append(s, a)[i] = s[i]
         /\ Append(s, a) # <<>>
<1>1. /\ Append(s, a) \in Seq(S) /\ Len(Append(s, a)) = Len(s) + 1 /\ Len(s) \in Nat
      /\ Append(s, a)[Len(s) + 1] = a
      /\ \A i \in 1..Len(s) : Append(s, a)[i] = s[i]
  OBVIOUS
<1>2. Len(<<>>) = 0 /\ Len(Append(s, a)) # 0
  BY <1>1
<1> QED
  BY <1>1, <1>2

LEMMA Dropped ==
  ASSUME NEW S, NEW s \in Seq(S), s # <<>>
  PROVE  /\ Head(s) \in S /\ Head(s) = s[1] /\ 1 \in 1..Len(s)
         /\ Tail(s) \in Seq(S) /\ Len(Tail(s)) = Len(s) - 1 /\ Len(s) \in Nat
         /\ \A i \in 1..Len(Tail(s)) : Tail(s)[i] = s[i + 1] /\ i + 1 \in 1..Len(s)
OBVIOUS

LEMMA ElementOf ==
  ASSUME NEW S, NEW s \in Seq(S), NEW i \in 1..Len(s)
  PROVE  s[i] \in S
OBVIOUS

LEMMA LastOne ==
  ASSUME NEW S, NEW s \in Seq(S), s # <<>>
  PROVE  s[Len(s)] \in S /\ Len(s) \in 1..Len(s)
OBVIOUS

LEMMA Single ==
  ASSUME NEW a
  PROVE  /\ Append(<<>>, a) = <<a>> /\ <<a>> # <<>> /\ Head(<<a>>) = a /\ Tail(<<a>>) = <<>>
OBVIOUS

LEMMA Wider ==
  ASSUME NEW S, NEW T, NEW s \in Seq(S), S \subseteq T
  PROVE  s \in Seq(T)
OBVIOUS

-----------------------------------------------------------------------------
(* Types.                                                                  *)

LEMMA Lengths ==
  ASSUME Types
  PROVE  /\ Started \in Nat /\ Waypoint \in Nat /\ PathLen \in Nat /\ PathLen > 0
         /\ Len(results) \in Nat
BY ScanSessionAssumption DEF ScanSessionAssumption, Types, Started, Waypoint

\* A result is that of a scan that was started at a waypoint.
LEMMA ResultsOfScans ==
  ASSUME Types, NEW k \in 1..Len(results)
  PROVE  results[k] \in 1..Started /\ waypointOf[results[k]] \in Nat
<1>1. results[k] \in 1..Len(waypointOf)
  BY ElementOf DEF Types, Started
<1>2. waypointOf[results[k]] \in 0..PathLen - 1
  BY <1>1, ElementOf DEF Types
<1>3. PathLen \in Nat
  BY Lengths
<1> QED
  BY <1>1, <1>2, <1>3 DEF Started

LEMMA TypesInit == Init => Types /\ Counts
<1> SUFFICES ASSUME Init PROVE Types /\ Counts
  OBVIOUS
<1>1. Started = 0 /\ Waypoint = 0
  BY DEF Init, Started, Waypoint
<1>2. /\ <<>> \in Seq({"processed", "stopped"}) /\ <<>> \in Seq(0..Started)
      /\ <<>> \in Seq(1..Started) /\ <<>> \in Seq(0..PathLen - 1)
      /\ 0 \in 0..Started
  BY <1>1
<1>3. mock \in BOOLEAN /\ listening \in BOOLEAN /\ link \in BOOLEAN /\ prompt \in BOOLEAN
  <2>1. listening \in BOOLEAN /\ link = listening
    <3>1. CASE mock
      BY <3>1 DEF Init
    <3>2. CASE ~mock
      BY <3>2 DEF Init
    <3> QED
      BY <3>1, <3>2
  <2> QED
    BY <2>1 DEF Init
<1>4. Types
  BY <1>1, <1>2, <1>3 DEF Init, Types, Steps, None
<1>5. Counts
  BY <1>1, ScanSessionAssumption DEF ScanSessionAssumption, Init, Counts, InBody
<1> QED
  BY <1>4, <1>5

\* Only the start of a scan, its end, its processing and the record touch the numbers.
LEMMA QuietTypes ==
  ASSUME Types, Counts,
         \/ NextWaypoint \/ ClearProcessed \/ ClearStopped
         \/ HearProcessed \/ GiveUpWaiting \/ GiveUpPolling \/ PollLatest
         \/ Dispatch \/ DropLink \/ RequestStop \/ StopScan \/ Finished \/ UNCHANGED vars
  PROVE  Types' /\ Counts'
<1> USE DEF Types, Counts, Go, Steps, threadVars, flags, wire, device, None, InBody
<1>0. Started \in Nat /\ Waypoint \in Nat /\ PathLen \in Nat
  BY Lengths
<1>a. UNCHANGED <<waypointOf, measured>> => Started' = Started /\ Waypoint' = Waypoint
  BY DEF Started, Waypoint
<1>1. CASE NextWaypoint
  BY <1>0, <1>a, <1>1 DEF NextWaypoint
<1>2. CASE ClearProcessed \/ ClearStopped
  BY <1>0, <1>a, <1>2 DEF ClearProcessed, ClearStopped
<1>3. CASE HearProcessed \/ GiveUpWaiting \/ GiveUpPolling
  BY <1>0, <1>a, <1>3 DEF HearProcessed, GiveUpWaiting, GiveUpPolling
<1>4. CASE PollLatest
  <2>1. results # <<>> => results[Len(results)] \in 1..Started
    BY LastOne
  <2>2. result' \in 0..Started
    BY <1>0, <1>4, <2>1 DEF PollLatest
  <2> QED
    BY <1>0, <1>a, <1>4, <2>2 DEF PollLatest
<1>5. CASE Dispatch
  <2>1. Tail(inbox) \in Seq({"processed", "stopped"})
    BY <1>5 DEF Dispatch
  <2> QED
    BY <1>0, <1>a, <1>5, <2>1 DEF Dispatch
<1>6. CASE DropLink
  <2>1. \A S : <<>> \in Seq(S)
    OBVIOUS
  <2> QED
    BY <1>0, <1>a, <1>6, <2>1 DEF DropLink
<1>7. CASE RequestStop
  BY <1>0, <1>a, <1>7 DEF RequestStop
<1>8. CASE StopScan
  <2>1. inbox' \in Seq({"processed", "stopped"})
    BY <1>8, Appended DEF StopScan, Tell
  <2> QED
    BY <1>0, <1>a, <1>8, <2>1 DEF StopScan
<1>9. CASE Finished \/ UNCHANGED vars
  BY <1>0, <1>a, <1>9 DEF Finished, vars
<1> QED
  BY <1>1, <1>2, <1>3, <1>4, <1>5, <1>6, <1>7, <1>8, <1>9

\* A scan that begins gets the next number and the current waypoint.
LEMMA BeginTypes ==
  ASSUME Types, Counts, StartScan, BeginScan
  PROVE  /\ Types' /\ Counts'
         /\ Started' = Started + 1 /\ NewScan = Started'
         /\ waypointOf'[Started'] = Waypoint
         /\ \A i \in 1..Started : waypointOf'[i] = waypointOf[i]
<1> USE DEF Types, Counts, Go, Steps, None, InBody
<1>0. Started \in Nat /\ Waypoint \in Nat /\ PathLen \in Nat
  BY Lengths
<1>1. /\ waypointOf' = Append(waypointOf, Waypoint) /\ Waypoint' = Waypoint
      /\ pc = "start" /\ pc' \in {"wait", "record"}
      /\ scanning' \in {scanning, NewScan} /\ results' \in {results, Append(results, NewScan)}
      /\ UNCHANGED <<result, measured, stopped, listening, stopRequested, mock, link, inbox,
                     finished, prompt>>
      /\ processed' \in {processed, TRUE}
  BY DEF StartScan, BeginScan, flags, wire, device, Waypoint
<1>2. Waypoint \in 0..PathLen - 1
  BY <1>0, <1>1
<1>3. /\ waypointOf' \in Seq(0..PathLen - 1) /\ Started' = Started + 1
      /\ waypointOf'[Started + 1] = Waypoint
      /\ \A i \in 1..Started : waypointOf'[i] = waypointOf[i]
  BY <1>1, <1>2, Appended DEF Started
<1>4. NewScan = Started' /\ NewScan \in 1..Started'
  BY <1>0, <1>3 DEF NewScan, Started
<1>5. 0..Started \subseteq 0..Started' /\ 1..Started \subseteq 1..Started'
  BY <1>0, <1>3
<1>6. measured \in Seq(0..Started') /\ finished \in Seq(1..Started') /\ results \in Seq(1..Started')
  BY <1>5, Wider
<1>7. Append(results, NewScan) \in Seq(1..Started')
  BY <1>4, <1>6
<1>8. scanning' \in 0..Started' /\ result' \in 0..Started'
  <2>1. scanning \in 0..Started' /\ result \in 0..Started' /\ NewScan \in 0..Started'
    BY <1>0, <1>3, <1>4
  <2> QED
    BY <1>1, <2>1
<1>9. Types'
  BY <1>1, <1>3, <1>6, <1>7, <1>8
<1>10. Counts'
  BY <1>0, <1>1, <1>3
<1> QED
  BY <1>3, <1>4, <1>9, <1>10

LEMMA CountTypes ==
  ASSUME Types, Counts, StartScan \/ Record \/ FinishScan \/ ProcessResults
  PROVE  Types' /\ Counts'
<1> USE DEF Types, Counts, Go, Steps, None, InBody
<1>0. Started \in Nat /\ Waypoint \in Nat /\ PathLen \in Nat
  BY Lengths
<1>1. CASE StartScan /\ ~BeginScan
  <2>1. /\ pc = "start" /\ pc' = "record" /\ Started' = Started /\ Waypoint' = Waypoint
        /\ UNCHANGED <<result, measured, flags, wire, device>>
    BY <1>1 DEF StartScan, device, Started, Waypoint
  <2> QED
    BY <1>0, <2>1 DEF flags, wire, device
<1>2. CASE StartScan /\ BeginScan
  BY <1>2, BeginTypes
<1>3. CASE Record
  <2>1. measured' \in Seq(0..Started) /\ Waypoint' = Waypoint + 1
    BY <1>3, Appended DEF Record, Waypoint
  <2>2. /\ pc = "record" /\ pc' = "check" /\ Started' = Started
        /\ UNCHANGED <<result, processed, stopped, listening, stopRequested, mock, link, inbox,
                       scanning, finished, results, waypointOf, prompt>>
    BY <1>3 DEF Record, flags, wire, device, Started
  <2> QED
    BY <1>0, <2>1, <2>2
<1>4. CASE FinishScan
  <2>1. /\ finished' = Append(finished, scanning) /\ scanning' = 0 /\ scanning # 0
        /\ UNCHANGED <<pc, result, measured, processed, stopped, listening, stopRequested,
                       mock, link, inbox, results, waypointOf, prompt>>
        /\ Started' = Started /\ Waypoint' = Waypoint
    BY <1>4 DEF FinishScan, threadVars, flags, wire, Started, Waypoint
  <2>2. scanning \in 1..Started
    BY <1>0, <2>1
  <2>3. finished' \in Seq(1..Started)
    BY <2>1, <2>2
  <2> QED
    BY <1>0, <2>1, <2>3
<1>5. CASE ProcessResults
  <2>1. /\ finished # <<>> /\ finished' = Tail(finished)
        /\ results' = Append(results, Head(finished))
        /\ UNCHANGED <<pc, result, measured, processed, stopped, listening, stopRequested,
                       mock, link, scanning, waypointOf, prompt>>
        /\ inbox' \in {inbox, Append(inbox, "processed")}
        /\ Started' = Started /\ Waypoint' = Waypoint
    BY <1>5 DEF ProcessResults, Tell, threadVars, flags, Started, Waypoint
  <2>2. results' \in Seq(1..Started) /\ finished' \in Seq(1..Started)
    BY <2>1, Appended, Dropped
  <2>3. inbox' \in Seq({"processed", "stopped"})
    BY <2>1, Appended
  <2> QED
    BY <1>0, <2>1, <2>2, <2>3
<1> QED
  BY <1>1, <1>2, <1>3, <1>4, <1>5

LEMMA TypesStep ==
  ASSUME Types, Counts, [Next]_vars
  PROVE  Types' /\ Counts'
BY QuietTypes, CountTypes DEF Next, Thread, Environment

LEMMA TypesAlways == Spec => [](Types /\ Counts)
BY TypesInit, TypesStep, PTL DEF Spec

\* Every variable of the scan keeps its type for any number of waypoints; at most one
\* scan is started at each.
THEOREM TypeCorrect == Spec => []ScanTypeOK
<1>1. Types /\ Counts => ScanTypeOK
  <2> SUFFICES ASSUME Types, Counts PROVE ScanTypeOK
    OBVIOUS
  <2>0. Started \in Nat /\ PathLen \in Nat /\ Started <= PathLen
    BY Lengths DEF Counts
  <2>1. 1..Started \subseteq Scans /\ 0..Started \subseteq Scans \cup {None}
    BY <2>0 DEF Scans, None
  <2>2. measured \in Seq(Scans \cup {None}) /\ finished \in Seq(Scans) /\ results \in Seq(Scans)
    BY <2>1, Wider DEF Types
  <2>3. result \in Scans \cup {None} /\ scanning \in Scans \cup {None}
    BY <2>1 DEF Types
  <2> QED
    BY <2>2, <2>3 DEF Types, Counts, ScanTypeOK, Started, Waypoint
<1> QED
  BY <1>1, TypesAlways, PTL

-----------------------------------------------------------------------------
(* Whose results are stored.                                               *)

LEMMA PromptInit == Init => PromptInv
<1> SUFFICES ASSUME Init PROVE PromptInv
  OBVIOUS
<1>1. /\ pc = "check" /\ result = None /\ Len(measured) = 0 /\ Len(results) = 0
      /\ Nothing /\ (mock => listening) /\ link = listening
  BY DEF Init, Nothing
<1> QED
  BY <1>1 DEF PromptInv, Local, Linked, Own, Recorded, AllPast, Past

\* What does not touch the numbers of the scans changes nothing that is said of them.
LEMMA Untouched ==
  ASSUME UNCHANGED <<measured, scanning, finished, results, waypointOf>>
  PROVE  /\ OwnLast' <=> OwnLast
         /\ AllPast' <=> AllPast
         /\ LastNew' <=> LastNew
         /\ Own' <=> Own
         /\ Recorded' <=> Recorded
         /\ Started' = Started /\ Waypoint' = Waypoint
BY DEF OwnLast, AllPast, LastNew, Past, Own, Recorded, Started, Waypoint

\* The thread between two scans, and at the end of its wait.
LEMMA ThreadMoves ==
  ASSUME Types, PromptInv, prompt,
         \/ NextWaypoint \/ ClearProcessed \/ ClearStopped \/ (StartScan /\ ~BeginScan)
         \/ HearProcessed \/ GiveUpWaiting \/ PollLatest
  PROVE  PromptInv'
<1>1. UNCHANGED <<measured, inbox, scanning, finished, results, waypointOf, listening, mock, link>>
  BY DEF NextWaypoint, ClearProcessed, ClearStopped, StartScan, HearProcessed, GiveUpWaiting,
         PollLatest, flags, wire, device
<1>2. /\ OwnLast' <=> OwnLast
      /\ AllPast' <=> AllPast
      /\ LastNew' <=> LastNew
      /\ Own' <=> Own
      /\ Recorded' <=> Recorded
      /\ Started' = Started /\ Waypoint' = Waypoint
      /\ Nothing' <=> Nothing
  BY <1>1, Untouched DEF Nothing
<1>3. (Local' /\ (link => Linked')) => PromptInv'
  BY <1>1, <1>2 DEF PromptInv
<1> USE DEF Go, Local, Linked
<1>4. CASE NextWaypoint
  BY <1>1, <1>2, <1>3, <1>4 DEF NextWaypoint, PromptInv, flags
<1>5. CASE ClearProcessed
  BY <1>1, <1>2, <1>3, <1>5 DEF ClearProcessed, PromptInv
<1>6. CASE ClearStopped
  BY <1>1, <1>2, <1>3, <1>6 DEF ClearStopped, PromptInv
<1>7. CASE StartScan /\ ~BeginScan
  <2>1. /\ pc = "start" /\ pc' = "record" /\ UNCHANGED <<result, processed, stopped>>
        /\ scanning # None
    BY <1>7 DEF StartScan, flags
  <2>2. ~link
    BY <2>1 DEF PromptInv, Nothing
  <2> QED
    BY <1>1, <1>2, <1>3, <2>1, <2>2 DEF PromptInv
<1>8. CASE HearProcessed
  <2>1. pc = "wait" /\ pc' = "poll" /\ processed /\ UNCHANGED <<result, processed, stopped>>
    BY <1>8 DEF HearProcessed, flags
  <2>2. Local'
    BY <1>1, <1>2, <2>1 DEF PromptInv
  <2>3. link => Linked'
    BY <1>1, <1>2, <2>1 DEF PromptInv, UnderWay, Nothing, LastNew, OwnLast
  <2> QED
    BY <1>3, <2>2, <2>3
<1>9. CASE GiveUpWaiting
  <2>1. /\ pc = "wait" /\ pc' = "record" /\ UNCHANGED <<result, processed, stopped>>
        /\ ~listening \/ stopped \/ ~MayHear
    BY <1>9 DEF GiveUpWaiting, flags
  <2>2. Local'
    BY <1>1, <1>2, <2>1 DEF PromptInv
  <2>3. ASSUME link
        PROVE  AllPast /\ Nothing
    <3>1. UnderWay /\ listening
      BY <2>1, <2>3 DEF PromptInv
    <3>2. Started # 0
      BY <2>1, Lengths DEF PromptInv
    <3>3. <<Started>> # <<>> /\ <<"stopped">> # <<>> /\ <<"processed">> # <<>>
      BY Single
    <3> QED
      BY <2>1, <2>3, <3>1, <3>2, <3>3 DEF UnderWay, MayHear, None
  <2> QED
    BY <1>2, <1>3, <2>1, <2>2, <2>3
<1>10. CASE PollLatest
  <2>1. /\ pc = "poll" /\ pc' = "record" /\ UNCHANGED <<processed, stopped>>
        /\ result' = IF results = <<>> THEN None ELSE results[Len(results)]
    BY <1>10 DEF PollLatest, flags
  <2>2. OwnLast /\ waypointOf[Started] = Waypoint
    BY <2>1 DEF PromptInv
  <2>3. result' = Started
    BY <2>1, <2>2 DEF OwnLast
  <2>4. waypointOf'[result'] = Waypoint'
    BY <1>1, <1>2, <2>2, <2>3
  <2> QED
    BY <1>1, <1>2, <1>3, <2>1, <2>3, <2>4 DEF PromptInv
<1> QED
  BY <1>4, <1>5, <1>6, <1>7, <1>8, <1>9, <1>10

\* A scan starts when nothing of the one before is left.
LEMMA StartPrompt ==
  ASSUME Types, Counts, PromptInv, prompt, StartScan, BeginScan
  PROVE  PromptInv'
<1>1. /\ pc = "start" /\ pc' = "wait"
      /\ UNCHANGED <<result, measured, stopped, listening, mock, link, inbox, finished>>
      /\ mock => processed' = TRUE /\ results' = Append(results, NewScan) /\ scanning' = scanning
      /\ ~mock => processed' = processed /\ results' = results /\ scanning' = NewScan
  <2>1. UNCHANGED wire
    BY DEF StartScan
  <2>2. ~(scanning # None)
    BY DEF BeginScan
  <2> QED
    BY <2>1, <2>2 DEF StartScan, Go, wire, flags
<1>2. /\ ~processed /\ ~stopped /\ result = None /\ (mock => link) /\ (link => listening)
      /\ link => Nothing /\ AllPast
      /\ Own /\ (link => Recorded)
  BY <1>1 DEF PromptInv, Local, Linked
<1>3. /\ Started' = Started + 1 /\ NewScan = Started' /\ Started \in Nat /\ Waypoint \in Nat
      /\ waypointOf'[Started'] = Waypoint /\ Waypoint' = Waypoint
      /\ \A i \in 1..Started : waypointOf'[i] = waypointOf[i]
  BY <1>1, BeginTypes, Lengths DEF Waypoint
<1>4. results \in Seq(1..Started) /\ results \in Seq(Nat) /\ NewScan \in Nat
  BY <1>3, Wider DEF Types
<1>5. /\ Len(results) \in Nat
      /\ \A k \in 1..Len(results) : results'[k] = results[k] /\ results[k] \in 1..Started
      /\ mock => /\ results' # <<>> /\ Len(results') = Len(results) + 1
                 /\ results'[Len(results) + 1] = Started'
      /\ ~mock => Len(results') = Len(results)
  BY <1>1, <1>3, <1>4, Appended
<1>6. \A k \in 1..Len(results) : waypointOf'[results'[k]] = waypointOf[results[k]]
  BY <1>3, <1>5
<1>7. mock => OwnLast'
  BY <1>1, <1>2, <1>5 DEF OwnLast, Nothing
<1>8. Local'
  <2>1. Started' > 0
    BY <1>3
  <2> QED
    BY <1>1, <1>2, <1>3, <1>7, <2>1 DEF Local
<1>9. Own'
  <2>1. \A i \in 1..Len(measured) : measured[i] \in 0..Started
    BY ElementOf DEF Types
  <2>2. \A i \in 1..Len(measured) : measured[i] # None => measured[i] \in 1..Started
    BY <1>3, <2>1 DEF None
  <2> QED
    BY <1>1, <1>2, <1>3, <2>2 DEF Own
<1>10. ASSUME link
       PROVE  Linked' /\ Recorded'
  <2>1. \A k \in 1..Len(results) : waypointOf'[results'[k]] < Waypoint
    BY <1>2, <1>6, <1>10 DEF AllPast, Past
  <2>2. CASE mock
    <3>1. Len(results') - 1 = Len(results)
      BY <1>5, <2>2
    <3>2. LastNew'
      BY <1>3, <1>7, <2>1, <2>2, <3>1 DEF LastNew, Past
    <3>3. Linked'
      BY <1>1, <1>2, <1>10, <2>2, <3>2 DEF Linked, UnderWay, Nothing
    <3>4. Recorded'
      <4> SUFFICES ASSUME NEW k \in 1..Len(results'),
                          waypointOf'[results'[k]] + 1 <= Len(measured)
                   PROVE  measured[waypointOf'[results'[k]] + 1] = results'[k]
        BY <1>1 DEF Recorded
      <4>1. CASE k \in 1..Len(results)
        BY <1>2, <1>5, <1>6, <1>10, <4>1 DEF Recorded
      <4>2. CASE k = Len(results) + 1
        <5>1. waypointOf'[results'[k]] = Len(measured)
          BY <1>3, <1>5, <2>2, <4>2 DEF Waypoint
        <5> QED
          BY <1>3, <5>1 DEF Waypoint
      <4> QED
        BY <1>5, <2>2, <4>1, <4>2
    <3> QED
      BY <3>3, <3>4
  <2>3. CASE ~mock
    <3>1. AllPast'
      BY <1>3, <1>5, <2>1, <2>3 DEF AllPast, Past
    <3>2. Linked'
      BY <1>1, <1>2, <1>3, <1>10, <2>3, <3>1 DEF Linked, UnderWay, Nothing
    <3>3. Recorded'
      BY <1>1, <1>2, <1>5, <1>6, <1>10, <2>3 DEF Recorded
    <3> QED
      BY <3>2, <3>3
  <2> QED
    BY <2>2, <2>3
<1> QED
  BY <1>1, <1>2, <1>8, <1>9, <1>10 DEF PromptInv

\* The result goes where the scan was started, and leaves nothing behind.
LEMMA RecordPrompt ==
  ASSUME Types, Counts, PromptInv, prompt, Record
  PROVE  PromptInv'
<1>1. /\ pc = "record" /\ pc' = "check" /\ measured' = Append(measured, result)
      /\ UNCHANGED <<result, processed, stopped, listening, mock, link, inbox, scanning, finished,
                     results, waypointOf>>
  BY DEF Record, Go, flags, wire, device
<1>2. /\ Waypoint' = Waypoint + 1 /\ Started' = Started /\ Started \in Nat /\ Waypoint \in Nat
      /\ Len(measured') = Len(measured) + 1 /\ measured'[Len(measured) + 1] = result
      /\ \A i \in 1..Len(measured) : measured'[i] = measured[i]
  BY <1>1, Lengths, Appended DEF Types, Waypoint, Started
<1>3. /\ result # None => waypointOf[result] = Waypoint
      /\ Own /\ (mock => link) /\ (link => listening)
      /\ link => Recorded /\ Nothing /\ (AllPast \/ (LastNew /\ result = Started))
  BY <1>1 DEF PromptInv, Local, Linked
<1>4. Local'
  BY <1>1 DEF Local
<1>5. Own'
  BY <1>1, <1>2, <1>3 DEF Own, Waypoint
<1>6. ASSUME link
      PROVE  Linked' /\ Recorded'
  <2>1. ASSUME NEW k \in 1..Len(results)
        PROVE  \/ waypointOf[results[k]] < Waypoint
               \/ waypointOf[results[k]] = Waypoint /\ results[k] = result
    <3>1. CASE AllPast
      BY <3>1 DEF AllPast, Past
    <3>2. CASE LastNew /\ result = Started
      <4>1. results[Len(results)] = Started /\ Started \in 1..Started
        <5>1. results # <<>> /\ results[Len(results)] = Started
          BY <3>2 DEF LastNew, OwnLast
        <5> QED
          BY <5>1, LastOne DEF Types
      <4>2. waypointOf[result] = Waypoint
        BY <1>2, <1>3, <3>2, <4>1 DEF None
      <4>3. CASE k = Len(results)
        BY <3>2, <4>1, <4>2, <4>3
      <4>4. CASE k # Len(results)
        <5>1. k \in 1..(Len(results) - 1)
          BY <4>4, Lengths
        <5> QED
          BY <3>2, <5>1 DEF LastNew, Past
      <4> QED
        BY <4>3, <4>4
    <3> QED
      BY <1>3, <1>6, <3>1, <3>2
  <2>2. AllPast'
    <3>1. \A k \in 1..Len(results) : waypointOf[results[k]] \in Nat
      BY ResultsOfScans
    <3>2. \A k \in 1..Len(results) : waypointOf[results[k]] < Waypoint + 1
      BY <1>2, <2>1, <3>1
    <3> QED
      BY <1>1, <1>2, <3>2 DEF AllPast, Past
  <2>3. Linked'
    BY <1>1, <1>3, <1>6, <2>2 DEF Linked, Nothing
  <2>4. Recorded'
    <3> SUFFICES ASSUME NEW k \in 1..Len(results),
                        waypointOf[results[k]] + 1 <= Len(measured')
                 PROVE  measured'[waypointOf[results[k]] + 1] = results[k]
      BY <1>1 DEF Recorded
    <3>1. results[k] \in 1..Started /\ waypointOf[results[k]] \in Nat
      BY ResultsOfScans
    <3>2. CASE waypointOf[results[k]] < Waypoint
      <4>1. waypointOf[results[k]] + 1 \in 1..Len(measured)
        BY <1>2, <3>1, <3>2 DEF Waypoint
      <4>2. measured[waypointOf[results[k]] + 1] = results[k]
        BY <1>3, <1>6, <4>1 DEF Recorded
      <4> QED
        BY <1>2, <4>1, <4>2
    <3>3. CASE waypointOf[results[k]] = Waypoint /\ results[k] = result
      BY <1>2, <3>3 DEF Waypoint
    <3> QED
      BY <2>1, <3>2, <3>3
  <2> QED
    BY <2>3, <2>4
<1> QED
  BY <1>1, <1>3, <1>4, <1>5, <1>6 DEF PromptInv

\* With the websocket up the device has a scan only while the thread waits for it.
LEMMA DevicePrompt ==
  ASSUME Types, Counts, PromptInv, prompt, Dispatch \/ FinishScan \/ ProcessResults \/ StopScan
  PROVE  PromptInv'
<1>1. UNCHANGED <<pc, result, measured, listening, mock, link, waypointOf>>
  BY DEF Dispatch, FinishScan, ProcessResults, StopScan, threadVars, flags, device, wire
<1>2. /\ Started' = Started /\ Waypoint' = Waypoint /\ Own'
      /\ Started \in Nat /\ Waypoint \in Nat /\ Len(results) \in Nat
  BY <1>1, Lengths DEF Own, PromptInv, Started, Waypoint
<1>3. scanning # None \/ finished # <<>> \/ inbox # <<>>
  BY DEF Dispatch, FinishScan, ProcessResults, StopScan
<1>4. link => pc = "wait" /\ UnderWay
  BY <1>3 DEF PromptInv, Linked, Nothing, Types, Steps
<1>5. pc = "wait" => Started # 0 /\ waypointOf[Started] = Waypoint /\ result = None
  BY <1>2 DEF PromptInv, Local
<1>6. <<Started>> # <<>> /\ <<"stopped">> # <<>> /\ <<"processed">> # <<>>
  BY Single
<1>7. CASE Dispatch
  <2>1. /\ link /\ inbox # <<>> /\ inbox' = Tail(inbox)
        /\ IF Head(inbox) = "processed" THEN processed' = TRUE /\ UNCHANGED stopped
                                        ELSE stopped' = TRUE /\ UNCHANGED processed
        /\ UNCHANGED <<scanning, finished, results>>
    BY <1>7 DEF Dispatch, device
  <2>2. /\ OwnLast' <=> OwnLast
        /\ AllPast' <=> AllPast
        /\ LastNew' <=> LastNew
        /\ Recorded' <=> Recorded
    BY <1>1, <2>1, Untouched
  <2>3. pc = "wait" /\ UnderWay
    BY <1>4, <2>1
  <2>4. \/ /\ AllPast /\ ~processed /\ ~stopped /\ scanning = None /\ finished = <<>>
           /\ inbox = <<"stopped">>
        \/ LastNew /\ inbox = <<"processed">> /\ ~processed /\ ~stopped
    BY <2>1, <2>3 DEF UnderWay, Nothing
  <2>5. CASE inbox = <<"stopped">>
    <3>1. inbox' = <<>> /\ stopped' = TRUE /\ processed' = processed
      BY <2>1, <2>5, Single
    <3> QED
      BY <1>1, <1>2, <2>1, <2>2, <2>3, <2>4, <2>5, <3>1
         DEF PromptInv, Local, Linked, UnderWay, Nothing
  <2>6. CASE inbox = <<"processed">>
    <3>1. inbox' = <<>> /\ processed' = TRUE /\ stopped' = stopped
      BY <2>1, <2>6, Single
    <3> QED
      BY <1>1, <1>2, <2>1, <2>2, <2>3, <2>4, <2>6, <3>1
         DEF PromptInv, Local, Linked, UnderWay, LastNew
  <2> QED
    BY <2>4, <2>5, <2>6
<1>8. CASE FinishScan \/ StopScan
  <2>1. /\ scanning # None /\ scanning' = None
        /\ UNCHANGED <<results, processed, stopped>>
        /\ \/ finished' = Append(finished, scanning) /\ inbox' = inbox
           \/ finished' = finished /\ inbox' = IF link THEN Append(inbox, "stopped") ELSE inbox
    BY <1>8 DEF FinishScan, StopScan, Tell, flags, wire
  <2>2. (AllPast' <=> AllPast) /\ (Recorded' <=> Recorded)
    BY <1>1, <2>1 DEF AllPast, Past, Recorded, Waypoint
  <2>3. ~OwnLast
    BY <2>1 DEF OwnLast
  <2>4. Local'
    BY <1>1, <1>2, <2>1, <2>3 DEF PromptInv, Local
  <2>5. link => Linked'
    <3>1. ASSUME link
          PROVE  /\ AllPast /\ ~processed /\ ~stopped
                 /\ scanning = Started /\ finished = <<>> /\ inbox = <<>>
      BY <1>4, <2>1, <2>3, <3>1 DEF UnderWay, LastNew, Nothing
    <3>2. Append(<<>>, Started) = <<Started>> /\ Append(<<>>, "stopped") = <<"stopped">>
      BY Single
    <3> QED
      BY <1>1, <1>2, <1>4, <2>1, <2>2, <3>1, <3>2 DEF Linked, UnderWay
  <2> QED
    BY <1>1, <1>2, <2>2, <2>4, <2>5 DEF PromptInv
<1>9. CASE ProcessResults
  <2>1. /\ finished # <<>> /\ finished' = Tail(finished)
        /\ results' = Append(results, Head(finished))
        /\ inbox' = IF link THEN Append(inbox, "processed") ELSE inbox
        /\ UNCHANGED <<processed, stopped, scanning>>
    BY <1>9 DEF ProcessResults, Tell, flags
  <2>2. ~OwnLast
    BY <2>1 DEF OwnLast
  <2>3. Local'
    BY <1>1, <1>2, <2>1, <2>2 DEF PromptInv, Local
  <2>4. ASSUME link
        PROVE  Linked' /\ Recorded'
    <3>1. /\ AllPast /\ ~processed /\ ~stopped
          /\ scanning = None /\ finished = <<Started>> /\ inbox = <<>>
      BY <1>4, <2>1, <2>2, <2>4 DEF UnderWay, LastNew, Nothing
    <3>2. finished' = <<>> /\ results' = Append(results, Started) /\ inbox' = <<"processed">>
      BY <2>1, <2>4, <3>1, Single
    <3>3. results \in Seq(Nat)
      BY <1>2, Wider DEF Types
    <3>4. /\ Len(results') = Len(results) + 1 /\ results'[Len(results) + 1] = Started
          /\ results' # <<>>
          /\ \A k \in 1..Len(results) : results'[k] = results[k]
      BY <1>2, <3>2, <3>3, Appended
    <3>5. OwnLast'
      BY <1>2, <2>1, <3>1, <3>2, <3>4 DEF OwnLast
    <3>6. \A k \in 1..Len(results) : waypointOf'[results'[k]] < Waypoint'
      BY <1>1, <1>2, <3>1, <3>4 DEF AllPast, Past
    <3>7. LastNew'
      <4>1. Len(results') - 1 = Len(results)
        BY <1>2, <3>4
      <4> QED
        BY <3>5, <3>6, <4>1 DEF LastNew, Past
    <3>8. Linked'
      BY <1>1, <1>4, <2>1, <2>4, <3>1, <3>2, <3>7 DEF Linked, UnderWay
    <3>9. Recorded'
      <4> SUFFICES ASSUME NEW k \in 1..Len(results'),
                          waypointOf[results'[k]] + 1 <= Len(measured)
                   PROVE  measured[waypointOf[results'[k]] + 1] = results'[k]
        BY <1>1 DEF Recorded
      <4>1. CASE k \in 1..Len(results)
        BY <2>4, <3>4, <4>1 DEF PromptInv, Recorded
      <4>2. CASE k = Len(results) + 1
        <5>1. waypointOf[results'[k]] = Len(measured)
          BY <1>4, <1>5, <2>4, <3>4, <4>2 DEF Waypoint
        <5> QED
          BY <1>2, <5>1 DEF Waypoint
      <4> QED
        BY <1>2, <3>4, <4>1, <4>2
    <3> QED
      BY <3>8, <3>9
  <2> QED
    BY <1>1, <1>2, <2>3, <2>4 DEF PromptInv
<1> QED
  BY <1>7, <1>8, <1>9

LEMMA PromptStep ==
  ASSUME Types, Counts, prompt => PromptInv, [Next]_vars
  PROVE  (prompt => PromptInv)'
<1>1. prompt' = prompt
  BY DEF Next, Thread, Environment, NextWaypoint, ClearProcessed, ClearStopped, StartScan,
         BeginScan, HearProcessed, GiveUpWaiting, PollLatest, GiveUpPolling, Record, Dispatch,
         DropLink, RequestStop, FinishScan, ProcessResults, StopScan, Finished, device, vars
<1> SUFFICES ASSUME prompt, PromptInv PROVE PromptInv'
  BY <1>1
<1>2. CASE DropLink
  <2>1. /\ ~mock /\ ~link' /\ UNCHANGED <<mock, listening, threadVars, flags, device>>
    BY <1>2 DEF DropLink, flags
  <2>2. Local' /\ Own'
    BY <2>1, Untouched DEF PromptInv, Local, threadVars, flags, device
  <2> QED
    BY <2>1, <2>2 DEF PromptInv
<1>3. CASE RequestStop \/ Finished \/ UNCHANGED vars
  <2>1. UNCHANGED <<pc, result, measured, processed, stopped, listening, mock, link, inbox,
                    scanning, finished, results, waypointOf>>
    BY <1>3 DEF RequestStop, Finished, vars, threadVars, flags, wire, device
  <2>2. /\ OwnLast' <=> OwnLast
        /\ AllPast' <=> AllPast
        /\ LastNew' <=> LastNew
        /\ Own' <=> Own
        /\ Recorded' <=> Recorded
        /\ Started' = Started /\ Waypoint' = Waypoint
    BY <2>1, Untouched
  <2>3. (Local' <=> Local) /\ (Linked' <=> Linked)
    <3>1. Nothing' <=> Nothing
      BY <2>1 DEF Nothing
    <3>2. UnderWay' <=> UnderWay
      BY <2>1, <2>2, <3>1 DEF UnderWay
    <3> QED
      BY <2>1, <2>2, <3>1, <3>2 DEF Local, Linked
  <2> QED
    BY <2>1, <2>2, <2>3 DEF PromptInv
<1>4. ~GiveUpPolling
  BY DEF GiveUpPolling
<1> QED
  BY <1>2, <1>3, <1>4, ThreadMoves, StartPrompt, RecordPrompt, DevicePrompt
     DEF Next, Thread, Environment

LEMMA PromptAlways == Spec => [](prompt => PromptInv)
<1>1. Init => (prompt => PromptInv)
  BY PromptInit
<1>2. Types /\ Counts /\ (prompt => PromptInv) /\ [Next]_vars => (prompt => PromptInv)'
  BY PromptStep
<1> QED
  BY <1>1, <1>2, TypesAlways, PTL DEF Spec

\* With a device and a network that keep to the deadlines no measurement has the
\* result of another waypoint's scan, whatever stops, drops and refusals happen.
THEOREM ResultsAreOwn == Spec => []OwnResultWhenPrompt
<1>1. (prompt => PromptInv) => OwnResultWhenPrompt
  BY DEF PromptInv, Own, OwnResultWhenPrompt
<1> QED
  BY <1>1, PromptAlways, PTL

\* With the websocket up as well, every result the device has processed for a recorded
\* waypoint is in its measurement: no wake-up is lost between the clearing of the
\* events and the wait.
THEOREM NoResultIsLost == Spec => []ProcessedIsRecorded
<1>1. (prompt => PromptInv) => ProcessedIsRecorded
  BY DEF PromptInv, Recorded, ProcessedIsRecorded
<1> QED
  BY <1>1, PromptAlways, PTL
=============================================================================
