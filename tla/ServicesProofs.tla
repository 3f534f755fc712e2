---------------------------- MODULE ServicesProofs ----------------------------
(***************************************************************************)
(* Theorems about the process, which starts and stops the services, for  *)
(* any number of signals; about the health monitor, for any streams, loops*)
(* and threshold; and about the wallet analyzer over the chain client, for*)
(* any number of calls and any times to live.                            *)
(***************************************************************************)
EXTENDS MCServices, TLAPS

-----------------------------------------------------------------------------
(***************************************************************************)
(* The process. StoppedIsClean and ServicesHaveConnections look at the   *)
(* state of the pipeline alone; what keeps them true is how far the main *)
(* task has come.                                                        *)
(***************************************************************************)

\* Which services can be alive, and which connections are open, where the main
\* task is: none before start() is done, no stream once it was joined, and
\* none at all when the clean-up begins.
Progress ==
    /\ main \in {"initialize", "sync", "abandon", "cleanup"} => tasks = {}
    /\ main = "sync" => open = Connections
    /\ main = "stop_sync" => "stream" \notin tasks

\* "stopped" is the last thing that happens, and the callback calls stop()
\* only on the way of an exception.
Ending ==
    /\ pstate = "stopped" => Gone
    /\ calling = "callback" => raised

Orderly ==
    TypeOK /\ Progress /\ Ending
    /\ StoppedIsClean /\ ServicesHaveConnections /\ SuccessIsStopped

LEMMA InitOrderly == Init => Orderly
<1> SUFFICES ASSUME Init PROVE Orderly
  OBVIOUS
<1>1. TypeOK
  <2>1. /\ raised \in BOOLEAN /\ requested \in BOOLEAN
        /\ forced \in BOOLEAN /\ handlers \in BOOLEAN
    BY Zenon DEF Init
  <2>2. signals \in 0 .. MaxSignals
    BY LifecycleAssumption DEF Init
  <2> QED
    BY <2>1, <2>2 DEF Init, TypeOK, Tasks, Connections, Labels
<1>2. Progress /\ Ending
  BY DEF Init, Progress, Ending
<1>3. StoppedIsClean /\ ServicesHaveConnections /\ SuccessIsStopped
  BY DEF Init, StoppedIsClean, ServicesHaveConnections, SuccessIsStopped
<1> QED
  BY <1>1, <1>2, <1>3 DEF Orderly

\* One step of the process keeps Orderly: every action in turn.
LEMMA NextOrderly == Orderly /\ [Next]_vars => Orderly'
<1> USE LifecycleAssumption
<1> SUFFICES ASSUME Orderly, [Next]_vars
             PROVE  Orderly'
  OBVIOUS
<1> USE DEF Orderly, TypeOK, Progress, Ending, Gone, StoppedIsClean,
            ServicesHaveConnections, SuccessIsStopped, Tasks, Connections, Labels
<1>1. CASE Initialized
  BY <1>1 DEF Initialized, Continue
<1>2. CASE InitializeFails
  BY <1>2 DEF InitializeFails, Continue
<1>3. CASE Started
  BY <1>3 DEF Started, Continue
<1>4. CASE SyncFails
  BY <1>4 DEF SyncFails, Continue
<1>5. CASE Abandoned
  BY <1>5 DEF Abandoned, LeftOpen, Leave
<1>6. CASE Woken
  BY <1>6 DEF Woken, Continue
<1>7. CASE StreamClosed
  BY <1>7 DEF StreamClosed, Continue, pipeline
<1>8. CASE StreamJoined
  BY <1>8 DEF StreamJoined, Continue
<1>9. CASE SyncStopped
  BY <1>9 DEF SyncStopped, Continue
<1>10. CASE Stopped
  BY <1>10 DEF Stopped, Leave, Exit
<1>11. CASE CleanupRaises
  <2>1. TypeOK'
    BY <1>11 DEF CleanupRaises, LeftOpen, Leave, Exit
  <2>2. (Progress /\ Ending)'
    <3>1. CASE calling = "body" /\ Leave("stopping", TRUE)
      <4>1. raised'
        BY <3>1, Zenon DEF Leave
      <4> QED
        BY <1>11, <3>1, <4>1 DEF CleanupRaises, LeftOpen, Leave
    <3>2. CASE calling = "callback" /\ Exit /\ UNCHANGED pstate
      BY <1>11, <3>2 DEF CleanupRaises, LeftOpen, Exit
    <3> QED
      BY <1>11, <3>1, <3>2 DEF CleanupRaises
  <2>3. (StoppedIsClean /\ ServicesHaveConnections)'
    BY <1>11 DEF CleanupRaises, LeftOpen, Leave, Exit
  <2>4. SuccessIsStopped'
    BY <1>11 DEF CleanupRaises, LeftOpen, Leave, Exit
  <2> QED
    BY <2>1, <2>2, <2>3, <2>4
<1>12. CASE FirstSignal
  BY <1>12 DEF FirstSignal, Handled, Signal, pipeline
<1>13. CASE SecondSignal
  <2>1. CASE Leave(pstate, TRUE)
    <3>1. raised'
      BY <2>1, Zenon DEF Leave
    <3>2. forced' \in BOOLEAN /\ handlers' \in BOOLEAN
      BY <1>13, <2>1, Zenon DEF SecondSignal, Leave
    <3>3. signals' \in 0 .. MaxSignals
      BY <1>13 DEF SecondSignal, Handled, Signal
    <3> QED
      BY <1>13, <2>1, <3>1, <3>2, <3>3 DEF SecondSignal, Leave
  <2>2. CASE main = "join_stream" /\ Continue("stop_sync") /\ UNCHANGED pstate
    <3>1. forced' \in BOOLEAN
      BY <1>13, Zenon DEF SecondSignal
    <3>2. signals' \in 0 .. MaxSignals
      BY <1>13 DEF SecondSignal, Handled, Signal
    <3> QED
      BY <1>13, <2>2, <3>1, <3>2 DEF SecondSignal, Continue
  <2>3. CASE main = "stop_sync" /\ Continue("cleanup") /\ UNCHANGED pstate
    <3>1. forced' \in BOOLEAN
      BY <1>13, Zenon DEF SecondSignal
    <3>2. signals' \in 0 .. MaxSignals
      BY <1>13 DEF SecondSignal, Handled, Signal
    <3> QED
      BY <1>13, <2>3, <3>1, <3>2 DEF SecondSignal, Continue
  <2> QED
    BY <1>13, <2>1, <2>2, <2>3, Zenon DEF SecondSignal
<1>14. CASE Interrupted
  <2>1. raised' = raised /\ handlers' = handlers /\ requested' = requested
    BY <1>14 DEF Interrupted, Exit, Continue
  <2>2. ~handlers /\ forced'
    BY <1>14, Zenon DEF Interrupted
  <2>3. /\ raised' \in BOOLEAN /\ requested' \in BOOLEAN
        /\ handlers' \in BOOLEAN /\ forced' \in BOOLEAN
    BY <2>1, <2>2, Zenon
  <2>4. signals' \in 0 .. MaxSignals
    BY <1>14 DEF Interrupted, Signal
  <2> QED
    BY <1>14, <2>1, <2>2, <2>3, <2>4 DEF Interrupted, Signal, Exit, Continue
<1>15. CASE Killed
  BY <1>15 DEF Killed, Signal, Handled
<1>16. CASE Unheard
  BY <1>16 DEF Unheard, Signal, pipeline
<1>17. CASE StreamSpins
  BY <1>17 DEF StreamSpins, Continue, pipeline
<1>18. CASE StreamDies
  BY <1>18 DEF StreamDies, shutdown
<1>19. CASE UNCHANGED vars
  BY <1>19 DEF vars, pipeline, shutdown
<1> QED
  BY <1>1, <1>2, <1>3, <1>4, <1>5, <1>6, <1>7, <1>8, <1>9, <1>10, <1>11,
     <1>12, <1>13, <1>14, <1>15, <1>16, <1>17, <1>18, <1>19 DEF Next, Start, Stop

LEMMA AlwaysOrderly == Spec => []Orderly
BY InitOrderly, NextOrderly, PTL DEF Spec

\* A pipeline that says it is stopped has no task and no connection left
\* (pipeline.py:180-198).
THEOREM CleanStop == Spec => []StoppedIsClean
BY AlwaysOrderly, PTL DEF Orderly

\* No service is alive without its connections (pipeline.py:339-370).
THEOREM OrderedShutdown == Spec => []ServicesHaveConnections
BY AlwaysOrderly, PTL DEF Orderly

\* EXIT_SUCCESS means the pipeline was stopped (__main__.py:238-256).
THEOREM HonestExit == Spec => []SuccessIsStopped
BY AlwaysOrderly, PTL DEF Orderly

-----------------------------------------------------------------------------
(***************************************************************************)
(* A report looks at one age of a stream: that of its last event or, when*)
(* it had none, that of its connection.  The invariant says that one of  *)
(* the two is there to look at.                                          *)
(***************************************************************************)
StreamRecord == [status : {"unregistered", "active", "stale", "disconnected"},
                 event_age : Ages \cup {Never},
                 connected_age : Ages \cup {Never}]

\* Nothing was ever recorded of a stream that is not registered.
BlankUntilRegistered == \A s \in Streams :
    stream[s].status = "unregistered" => stream[s] = Unregistered

\* A stream that is up has been heard of, or was connected and not disconnected since.
UpHasAnAge == \A s \in Streams :
    stream[s].status \in {"active", "stale"} =>
        stream[s].event_age # Never \/ stream[s].connected_age # Never

HealthInv == HealthTypeOK /\ BlankUntilRegistered /\ UpHasAnAge

-----------------------------------------------------------------------------
\* Records are the same when their fields are.
LEMMA SameFields ==
    ASSUME NEW x \in StreamRecord, NEW y \in StreamRecord, x.status = y.status,
           x.event_age = y.event_age, x.connected_age = y.connected_age
    PROVE  x = y
BY DEF StreamRecord

LEMMA StalenessIsAStatus ==
    ASSUME NEW x \in StreamRecord
    PROVE  /\ staleness(x) \in {"unregistered", "active", "stale", "disconnected"}
           /\ staleness(x) = "unregistered" <=> x.status = "unregistered"
           /\ staleness(x) \in {"active", "stale"} <=> x.status \in {"active", "stale"}
BY DEF StreamRecord, staleness

\* What get_health_report writes back keeps the ages, and every stream in its class.
LEMMA CheckedKeepsHealthInv ==
    ASSUME HealthInv
    PROVE  /\ Checked \in [Streams -> StreamRecord]
           /\ stream' = Checked => BlankUntilRegistered' /\ UpHasAnAge'
<1>1. \A s \in Streams :
          /\ stream[s] \in StreamRecord
          /\ Checked[s] = [stream[s] EXCEPT !.status = staleness(stream[s])]
  BY DEF HealthInv, HealthTypeOK, StreamRecord, Checked
<1>2. \A s \in Streams :
          /\ Checked[s] \in StreamRecord
          /\ Checked[s].status = staleness(stream[s])
          /\ Checked[s].event_age = stream[s].event_age
          /\ Checked[s].connected_age = stream[s].connected_age
  <2> SUFFICES ASSUME NEW s \in Streams
               PROVE  /\ Checked[s] \in StreamRecord
                      /\ Checked[s].status = staleness(stream[s])
                      /\ Checked[s].event_age = stream[s].event_age
                      /\ Checked[s].connected_age = stream[s].connected_age
    OBVIOUS
  <2>1. staleness(stream[s]) \in {"unregistered", "active", "stale", "disconnected"}
    BY <1>1, StalenessIsAStatus
  <2> QED
    BY <1>1, <2>1 DEF StreamRecord
<1>3. Checked \in [Streams -> StreamRecord]
  BY <1>2 DEF Checked
<1>4. ASSUME stream' = Checked, NEW s \in Streams, Checked[s].status = "unregistered"
      PROVE  Checked[s] = Unregistered
  <2>1. stream[s] = Unregistered /\ staleness(stream[s]) = "unregistered"
    BY <1>1, <1>2, <1>4, StalenessIsAStatus DEF HealthInv, BlankUntilRegistered
  <2>2. Unregistered \in StreamRecord
    BY DEF Unregistered, StreamRecord
  <2> QED
    BY <1>2, <1>4, <2>1, <2>2, SameFields DEF Unregistered
<1>5. ASSUME NEW s \in Streams, Checked[s].status \in {"active", "stale"}
      PROVE  Checked[s].event_age # Never \/ Checked[s].connected_age # Never
  BY <1>1, <1>2, <1>5, StalenessIsAStatus DEF HealthInv, UpHasAnAge
<1> QED
  BY <1>3, <1>4, <1>5 DEF BlankUntilRegistered, UpHasAnAge

\* A step that changes the record of one stream only.
LEMMA OneStreamChanges ==
    ASSUME HealthInv, NEW s \in Streams, NEW x \in StreamRecord,
           stream' = [stream EXCEPT ![s] = x],
           x.status = "unregistered" => x = Unregistered,
           x.status \in {"active", "stale"} => x.event_age # Never \/ x.connected_age # Never
    PROVE  stream' \in [Streams -> StreamRecord] /\ BlankUntilRegistered' /\ UpHasAnAge'
BY DEF HealthInv, HealthTypeOK, StreamRecord, BlankUntilRegistered, UpHasAnAge

\* Time passes: an age that is there stays there.
LEMMA TickKeepsHealthInv ==
    ASSUME HealthInv, HealthTick
    PROVE  stream' \in [Streams -> StreamRecord] /\ BlankUntilRegistered' /\ UpHasAnAge'
<1>1. \A age \in Ages \cup {Never} :
          Older(age) \in Ages \cup {Never} /\ (Older(age) = Never <=> age = Never)
  BY HealthAssumption DEF Older, Ages, Never
<1>2. \A s \in Streams :
          /\ stream[s] \in StreamRecord
          /\ stream'[s] = [stream[s] EXCEPT !.event_age = Older(@), !.connected_age = Older(@)]
  BY DEF HealthInv, HealthTypeOK, StreamRecord, HealthTick
<1>3. \A s \in Streams :
          /\ stream'[s] \in StreamRecord
          /\ stream'[s].status = stream[s].status
          /\ stream'[s].event_age = Older(stream[s].event_age)
          /\ stream'[s].connected_age = Older(stream[s].connected_age)
  <2> SUFFICES ASSUME NEW s \in Streams
               PROVE  /\ stream'[s] \in StreamRecord
                      /\ stream'[s].status = stream[s].status
                      /\ stream'[s].event_age = Older(stream[s].event_age)
                      /\ stream'[s].connected_age = Older(stream[s].connected_age)
    OBVIOUS
  <2>1. /\ Older(stream[s].event_age) \in Ages \cup {Never}
        /\ Older(stream[s].connected_age) \in Ages \cup {Never}
    BY <1>1, <1>2 DEF StreamRecord
  <2> QED
    BY <1>2, <2>1 DEF StreamRecord
<1>4. stream' \in [Streams -> StreamRecord]
  BY <1>3 DEF HealthTick
<1>5. UpHasAnAge'
  <2> SUFFICES ASSUME NEW s \in Streams, stream'[s].status \in {"active", "stale"}
               PROVE  stream'[s].event_age # Never \/ stream'[s].connected_age # Never
    BY DEF UpHasAnAge
  <2>1. stream[s].event_age # Never \/ stream[s].connected_age # Never
    BY <1>3 DEF HealthInv, UpHasAnAge
  <2>2. {stream[s].event_age, stream[s].connected_age} \subseteq Ages \cup {Never}
    BY <1>2 DEF StreamRecord
  <2> QED
    BY <1>1, <1>3, <2>1, <2>2
<1>6. ASSUME NEW s \in Streams, stream'[s].status = "unregistered"
      PROVE  stream'[s] = Unregistered
  <2>1. stream[s] = Unregistered
    BY <1>3, <1>6 DEF HealthInv, BlankUntilRegistered
  <2>2. Older(Never) = Never
    BY DEF Older
  <2>3. /\ stream'[s].status = "unregistered"
        /\ stream'[s].event_age = Never /\ stream'[s].connected_age = Never
    BY <1>3, <1>6, <2>1, <2>2 DEF Unregistered
  <2>4. Unregistered \in StreamRecord
    BY DEF Unregistered, StreamRecord
  <2> QED
    BY <1>3, <2>3, <2>4, SameFields DEF Unregistered
<1> QED
  BY <1>4, <1>5, <1>6 DEF BlankUntilRegistered

LEMMA HealthInvHolds ==
    ASSUME HealthInv, [HealthNext]_health_vars
    PROVE  HealthInv'
<1> DEFINE MonitorOK == /\ running \in BOOLEAN
                        /\ health_task \in Loops \cup {NoLoop}
                        /\ check_loop \in [Loops -> {"none", "check", "notify", "sleep"}]
                        /\ cancelled \subseteq Loops
                        /\ last_status \in {"none", "healthy", "degraded", "unhealthy"}
                        /\ stopping \in [Callers -> Loops \cup {NoLoop}]
           StreamsOK == stream \in [Streams -> StreamRecord] /\ BlankUntilRegistered /\ UpHasAnAge
<1>1. MonitorOK /\ StreamsOK
  BY DEF HealthInv, HealthTypeOK, StreamRecord
<1>2. SUFFICES MonitorOK' /\ StreamsOK'
  BY DEF HealthInv, HealthTypeOK, StreamRecord
<1>3. UNCHANGED stream => StreamsOK'
  BY <1>1 DEF BlankUntilRegistered, UpHasAnAge
<1>4. UNCHANGED <<monitor, stopping>> => MonitorOK'
  BY <1>1 DEF monitor
<1>5. CASE UNCHANGED health_vars
  BY <1>3, <1>4, <1>5 DEF health_vars
<1>6. ASSUME NEW s \in Streams,
             set_stream_connected(s) \/ set_stream_disconnected(s) \/ record_event(s)
      PROVE  MonitorOK' /\ StreamsOK'
  <2>1. stream[s] \in StreamRecord /\ 0 \in Ages /\ 0 # Never
    BY <1>1, HealthAssumption DEF Ages, Never
  <2>2. CASE set_stream_connected(s)
    <3> DEFINE x == [stream[s] EXCEPT !.status = "active", !.connected_age = 0]
    <3>1. x \in StreamRecord /\ x.status = "active" /\ x.connected_age = 0
      BY <2>1 DEF StreamRecord
    <3>2. stream' = [stream EXCEPT ![s] = x]
      BY <2>2, <1>1 DEF set_stream_connected
    <3> HIDE DEF x
    <3>3. StreamsOK'
      BY <2>1, <3>1, <3>2, OneStreamChanges
    <3> QED
      BY <1>4, <2>2, <3>3 DEF set_stream_connected
  <2>3. CASE set_stream_disconnected(s)
    <3> DEFINE x == [stream[s] EXCEPT !.status = "disconnected", !.connected_age = Never]
    <3>1. x \in StreamRecord /\ x.status = "disconnected"
      BY <2>1 DEF StreamRecord
    <3>2. stream' = [stream EXCEPT ![s] = x]
      BY <2>3, <1>1 DEF set_stream_disconnected
    <3> HIDE DEF x
    <3>3. StreamsOK'
      BY <3>1, <3>2, OneStreamChanges
    <3> QED
      BY <1>4, <2>3, <3>3 DEF set_stream_disconnected
  <2>4. CASE record_event(s)
    <3> DEFINE x == [stream[s] EXCEPT !.status = "active", !.event_age = 0]
    <3>1. x \in StreamRecord /\ x.status = "active" /\ x.event_age = 0
      BY <2>1 DEF StreamRecord
    <3>2. stream' = [stream EXCEPT ![s] = x]
      BY <2>4, <1>1 DEF record_event
    <3> HIDE DEF x
    <3>3. StreamsOK'
      BY <2>1, <3>1, <3>2, OneStreamChanges
    <3> QED
      BY <1>4, <2>4, <3>3 DEF record_event
  <2> QED
    BY <1>6, <2>2, <2>3, <2>4
<1>7. CASE HealthTick \/ Probe
  BY <1>4, <1>7, TickKeepsHealthInv, CheckedKeepsHealthInv DEF HealthTick, Probe
<1>8. ASSUME NEW l \in Loops, CheckStep(l)
      PROVE  MonitorOK' /\ StreamsOK'
  <2>1. CASE Check(l)
    <3>1. Report \in {"healthy", "degraded", "unhealthy"}
      BY DEF Report, Overall
    <3>2. MonitorOK'
      BY <1>1, <2>1, <3>1 DEF Check, Goto
    <3>3. stream' = Checked \/ UNCHANGED stream
      BY <2>1 DEF Check
    <3> QED
      BY <1>3, <3>2, <3>3, CheckedKeepsHealthInv
  <2>2. CASE Resume(l) \/ CheckCancelled(l)
    BY <1>1, <1>3, <2>2 DEF Resume, CheckCancelled, Goto
  <2> QED
    BY <1>8, <2>1, <2>2 DEF CheckStep
<1>9. CASE start
  BY <1>1, <1>3, <1>9 DEF start, Goto
<1>10. ASSUME NEW c \in Callers, stop(c) \/ StopAwaited(c)
       PROVE  MonitorOK' /\ StreamsOK'
  BY <1>1, <1>3, <1>10 DEF stop, StopAwaited
<1> QED
  BY <1>5, <1>6, <1>7, <1>8, <1>9, <1>10 DEF HealthNext

\* The report is "healthy" when every stream that is registered is active.
LEMMA HealthyMeansActive ==
    ASSUME Report = "healthy", NEW s \in Streams, Checked[s].status # "unregistered"
    PROVE  Checked[s].status = "active"
<1> DEFINE statuses == {Checked[r].status : r \in Streams} \ {"unregistered"}
<1>1. Checked[s].status \in statuses
  OBVIOUS
<1>2. statuses = {"active"}
  BY <1>1 DEF Report, Overall
<1> QED
  BY <1>1, <1>2

LEMMA HealthInitially == HealthInit => HealthInv
<1> SUFFICES ASSUME HealthInit PROVE HealthInv
  OBVIOUS
<1>1. Unregistered \in StreamRecord /\ Unregistered.status = "unregistered"
  BY DEF Unregistered, StreamRecord
<1>2. stream \in [Streams -> StreamRecord]
  BY <1>1 DEF HealthInit
<1>3. BlankUntilRegistered /\ UpHasAnAge
  BY <1>1 DEF HealthInit, BlankUntilRegistered, UpHasAnAge
<1> QED
  BY <1>2, <1>3 DEF HealthInit, HealthInv, HealthTypeOK, StreamRecord

(* Whatever order connections, events, probes, checks, starts and stops  *)
(* come in, what the monitor keeps of a stream is enough to tell its     *)
(* silence by.                                                           *)
THEOREM MonitorKeepsAnAge == HealthSpec => []HealthInv
<1>1. HealthInv /\ [HealthNext]_health_vars => HealthInv'
  BY HealthInvHolds
<1> QED
  BY <1>1, HealthInitially, PTL DEF HealthSpec

LEMMA AgesTellSilence ==
    ASSUME HealthInv
    PROVE  HealthyIsNotSilent
<1> SUFFICES ASSUME Report = "healthy", NEW s \in Streams, stream[s] # Unregistered
             PROVE  ~Silent(stream[s])
  BY DEF HealthyIsNotSilent
<1>1. stream[s] \in StreamRecord /\ Checked[s].status = staleness(stream[s])
  BY DEF HealthInv, HealthTypeOK, StreamRecord, Checked
<1>2. stream[s].status # "unregistered"
  BY DEF HealthInv, BlankUntilRegistered
<1>3. staleness(stream[s]) = "active"
  BY <1>1, <1>2, StalenessIsAStatus, HealthyMeansActive
<1>4. stream[s].event_age # Never \/ stream[s].connected_age # Never
  BY <1>1, <1>3, StalenessIsAStatus DEF HealthInv, UpHasAnAge
<1> QED
  BY <1>1, <1>3, <1>4, HealthAssumption DEF staleness, Silent, StreamRecord, Ages, Never

(* get_health_report never says "healthy" while a registered stream has  *)
(* been silent for longer than the threshold.                            *)
THEOREM HealthyIsWhatItSays == HealthSpec => []HealthyIsNotSilent
<1> QED
  BY AgesTellSilence, MonitorKeepsAnAge, PTL

(***************************************************************************)
(* A count ages in the nonce cache, in the call that carries it, and in  *)
(* the profile cache; each hands it on with a new time to live.  The     *)
(* invariant says how old it can be at each of them: what a cache keeps  *)
(* expires before it is older than the caches up to it allow, and a tick *)
(* that passes over an answer on its way (late) is passed over once.     *)
(***************************************************************************)
CallRecord == [at : {"idle", "count", "acquire", "primary", "fallback", "store", "build"},
               tries : 0 .. max_retries, age : Nat]

lateness(c) == IF c \in late THEN 1 ELSE 0

\* What is asked of the chain has no answer yet that a tick could pass over;
\* only an analysis has a count.
CallInStep(c) ==
    /\ call[c].at \in {"count", "store", "build"} => c \in Analyses
    /\ call[c].at \in {"acquire", "primary", "fallback"} => c \notin late

\* How old the count can be in a call, and in a cache that fills from it.
CallFits(c) ==
    /\ call[c].at = "store" => call[c].age <= lateness(c)
    /\ call[c].at = "build" => call[c].age <= client_ttl + lateness(c)

Fits(entry, oldest) == IF entry.ttl = 0 THEN entry.age = 0 ELSE entry.age + entry.ttl <= oldest

CallsInv == late \subseteq Analyses /\ \A c \in Calls : CallInStep(c) /\ CallFits(c)
CachesInv == Fits(nonce_cache, client_ttl + 1) /\ Fits(profile_cache, client_ttl + profile_ttl + 1)

ChainInv == ChainTypeOK /\ CallsInv /\ CachesInv

-----------------------------------------------------------------------------
LEMMA TimesToLive ==
    client_ttl \in Nat \ {0} /\ profile_ttl \in Nat \ {0} /\ max_retries \in Nat \ {0} /\ max_tokens \in Nat \ {0}
BY ChainClientAssumption

\* An entry that ages is as old, and has as long to live, as an entry may.
LEMMA AgedFits ==
    ASSUME NEW ttl \in Nat, NEW oldest \in Nat, NEW entry \in [age : Nat, ttl : 0 .. ttl],
           Fits(entry, oldest)
    PROVE  Aged(entry) \in [age : Nat, ttl : 0 .. ttl] /\ Fits(Aged(entry), oldest)
<1>1. CASE entry.ttl <= 1
  <2>1. Missing \in [age : Nat, ttl : 0 .. ttl] /\ Fits(Missing, oldest)
    BY DEF Missing, Fits
  <2> QED
    BY <1>1, <2>1 DEF Aged
<1>2. CASE ~(entry.ttl <= 1)
  <2> DEFINE older == [entry EXCEPT !.age = @ + 1, !.ttl = @ - 1]
  <2>1. entry.age \in Nat /\ entry.ttl \in 0 .. ttl /\ entry.age + entry.ttl <= oldest
    BY <1>2 DEF Fits
  <2>2. entry.age + 1 \in Nat /\ entry.ttl - 1 \in 0 .. ttl /\ entry.ttl - 1 # 0
    BY <1>2, <2>1
  <2>3. older \in [age : Nat, ttl : 0 .. ttl] /\ older.age = entry.age + 1 /\ older.ttl = entry.ttl - 1
    BY <2>2
  <2>4. Aged(entry) = older
    BY <1>2 DEF Aged
  <2> HIDE DEF older
  <2>5. Fits(older, oldest)
    BY <2>1, <2>2, <2>3 DEF Fits
  <2> QED
    BY <2>3, <2>4, <2>5
<1> QED
  BY <1>1, <1>2

\* A call that goes to another step with what it has.
LEMMA GoesTo ==
    ASSUME call \in [Calls -> CallRecord], NEW c \in Calls,
           NEW label \in {"idle", "count", "acquire", "primary", "fallback", "store", "build"},
           at(c, label)
    PROVE  /\ call' \in [Calls -> CallRecord]
           /\ call'[c].at = label /\ call'[c].age = call[c].age
           /\ \A d \in Calls \ {c} : call'[d] = call[d]
<1>1. call[c] \in CallRecord /\ 0 \in 0 .. max_retries
  BY TimesToLive
<1> DEFINE r == [call[c] EXCEPT !.at = label, !.tries = 0]
<1>2. r \in CallRecord /\ r.at = label /\ r.age = call[c].age
  BY <1>1 DEF CallRecord
<1>3. call' = [call EXCEPT ![c] = r]
  BY DEF at
<1> HIDE DEF r
<1> QED
  BY <1>2, <1>3

\* A call that goes to another step with a count of its own.
LEMMA GoesWith ==
    ASSUME call \in [Calls -> CallRecord], NEW c \in Calls, NEW r \in CallRecord,
           call' = [call EXCEPT ![c] = r]
    PROVE  /\ call' \in [Calls -> CallRecord] /\ call'[c] = r
           /\ \A d \in Calls \ {c} : call'[d] = call[d]
OBVIOUS

LEMMA Idles == NotCalling \in CallRecord /\ NotCalling.at = "idle"
BY TimesToLive DEF NotCalling, CallRecord

\* A step of one call leaves the others as they are.
LEMMA OneCallMoves ==
    ASSUME CallsInv, NEW c \in Calls, late' \in {late, late \ {c}},
           \A d \in Calls \ {c} : call'[d] = call[d],
           CallInStep(c)', CallFits(c)'
    PROVE  CallsInv'
<1>1. \A d \in Calls \ {c} : CallInStep(d)' /\ CallFits(d)'
  BY DEF CallsInv, CallInStep, CallFits, lateness
<1> QED
  BY <1>1 DEF CallsInv

\* Asking the chain: nothing is answered until an endpoint answers, and then now.
LEMMA AskingKeepsCalls ==
    ASSUME ChainInv, NEW c \in Calls, acquire(c) \/ TryPrimary(c) \/ TryFallback(c)
    PROVE  call' \in [Calls -> CallRecord] /\ CallsInv'
<1>1. /\ call \in [Calls -> CallRecord] /\ CallsInv /\ call[c] \in CallRecord
      /\ CallInStep(c) /\ c \notin late
  BY DEF ChainInv, ChainTypeOK, CallRecord, CallsInv, CallInStep, acquire, TryPrimary, TryFallback
<1>2. UNCHANGED late
  BY DEF acquire, TryPrimary, TryFallback
<1>3. ASSUME NEW label \in {"primary", "fallback"}, at(c, label)
      PROVE  call' \in [Calls -> CallRecord] /\ CallsInv'
  <2>1. /\ call' \in [Calls -> CallRecord] /\ call'[c].at = label
        /\ \A d \in Calls \ {c} : call'[d] = call[d]
    BY <1>1, <1>3, GoesTo
  <2>2. CallInStep(c)' /\ CallFits(c)'
    BY <1>1, <1>2, <2>1 DEF CallInStep, CallFits
  <2> QED
    BY <1>1, <1>2, <2>1, <2>2, OneCallMoves
<1>4. ASSUME NEW r \in CallRecord, call' = [call EXCEPT ![c] = r],
             \/ r.at = "idle"
             \/ r.at \in {"primary", "fallback"}
             \/ r.at = "store" /\ r.age = 0 /\ c \in Analyses
      PROVE  call' \in [Calls -> CallRecord] /\ CallsInv'
  <2>1. /\ call' \in [Calls -> CallRecord] /\ call'[c] = r
        /\ \A d \in Calls \ {c} : call'[d] = call[d]
    BY <1>1, <1>4, GoesWith
  <2>2. CallInStep(c)' /\ CallFits(c)'
    BY <1>1, <1>2, <1>4, <2>1 DEF CallInStep, CallFits, lateness
  <2> QED
    BY <1>1, <1>2, <2>1, <2>2, OneCallMoves
<1>5. fails(c) => call' \in [Calls -> CallRecord] /\ CallsInv'
  BY <1>4, Idles DEF fails
<1>6. answers(c) => call' \in [Calls -> CallRecord] /\ CallsInv'
  <2> DEFINE r == [at |-> "store", tries |-> 0, age |-> 0]
  <2>1. r \in CallRecord /\ r.at = "store" /\ r.age = 0
    BY TimesToLive DEF CallRecord
  <2>2. answers(c) /\ c \in Analyses => call' = [call EXCEPT ![c] = r]
    BY DEF answers
  <2>3. answers(c) /\ c \notin Analyses => fails(c)
    BY DEF answers, fails
  <2> HIDE DEF r
  <2> QED
    BY <1>4, <1>5, <2>1, <2>2, <2>3
<1>7. ASSUME call[c].at \in {"primary", "fallback"}, call[c].tries + 1 < max_retries,
             call' = [call EXCEPT ![c].tries = @ + 1]
      PROVE  call' \in [Calls -> CallRecord] /\ CallsInv'
  <2> DEFINE r == [call[c] EXCEPT !.tries = @ + 1]
  <2>1. call[c].tries + 1 \in 0 .. max_retries
    BY <1>1, <1>7, TimesToLive DEF CallRecord
  <2>2. r \in CallRecord /\ r.at = call[c].at
    BY <1>1, <2>1 DEF CallRecord
  <2>3. call' = [call EXCEPT ![c] = r]
    BY <1>7
  <2> HIDE DEF r
  <2> QED
    BY <1>4, <1>7, <2>2, <2>3
<1>8. CASE acquire(c)
  BY <1>3, <1>8 DEF acquire
<1>9. CASE TryPrimary(c)
  BY <1>3, <1>5, <1>6, <1>7, <1>9 DEF TryPrimary, Escapes
<1>10. CASE TryFallback(c)
  BY <1>5, <1>6, <1>7, <1>10 DEF TryFallback, Escapes
<1> QED
  BY <1>8, <1>9, <1>10

\* A query starts: no tick has passed over an answer of a call that is no analysis.
LEMMA QueryKeepsCalls ==
    ASSUME ChainInv, NEW c \in Calls, OtherQuery(c) \/ analyze(c)
    PROVE  call' \in [Calls -> CallRecord] /\ CallsInv'
<1>1. call \in [Calls -> CallRecord] /\ CallsInv /\ UNCHANGED late
  BY DEF ChainInv, ChainTypeOK, CallRecord, OtherQuery, analyze
<1>2. PICK label \in {"acquire", "count"} :
          at(c, label) /\ (label = "acquire" => c \in OtherCalls) /\ (label = "count" => c \in Analyses)
  BY DEF OtherQuery, analyze
<1>3. /\ call' \in [Calls -> CallRecord] /\ call'[c].at = label
      /\ \A d \in Calls \ {c} : call'[d] = call[d]
  BY <1>1, <1>2, GoesTo
<1>4. CallInStep(c)' /\ CallFits(c)'
  BY <1>1, <1>2, <1>3, ChainClientAssumption DEF CallInStep, CallFits, CallsInv
<1> QED
  BY <1>1, <1>3, <1>4, OneCallMoves

\* The count comes out of the nonce cache with time to live, or is to be asked for.
LEMMA CountKeepsCalls ==
    ASSUME ChainInv, NEW c \in Calls, get_transaction_count(c)
    PROVE  call' \in [Calls -> CallRecord] /\ CallsInv'
<1>1. /\ call \in [Calls -> CallRecord] /\ CallsInv /\ c \in Analyses
      /\ late' = late \ {c}
  BY DEF ChainInv, ChainTypeOK, CallRecord, CallsInv, CallInStep, get_transaction_count
<1>2. CASE at(c, "acquire")
  <2>1. /\ call' \in [Calls -> CallRecord] /\ call'[c].at = "acquire"
        /\ \A d \in Calls \ {c} : call'[d] = call[d]
    BY <1>1, <1>2, GoesTo
  <2>2. CallInStep(c)' /\ CallFits(c)'
    BY <1>1, <2>1 DEF CallInStep, CallFits
  <2> QED
    BY <1>1, <2>1, <2>2, OneCallMoves
<1>3. CASE /\ nonce_cache.ttl > 0
           /\ call' = [call EXCEPT ![c] = [at |-> "build", tries |-> 0, age |-> nonce_cache.age]]
  <2> DEFINE r == [at |-> "build", tries |-> 0, age |-> nonce_cache.age]
  <2>1. /\ nonce_cache.age \in Nat /\ nonce_cache.ttl \in 0 .. client_ttl
        /\ nonce_cache.age + nonce_cache.ttl <= client_ttl + 1
    BY <1>3 DEF ChainInv, ChainTypeOK, CachesInv, Fits
  <2>2. nonce_cache.age <= client_ttl
    BY <1>3, <2>1, TimesToLive
  <2>3. r \in CallRecord /\ r.at = "build" /\ r.age = nonce_cache.age
    BY <2>1, TimesToLive DEF CallRecord
  <2>4. call' = [call EXCEPT ![c] = r]
    BY <1>3
  <2> HIDE DEF r
  <2>5. /\ call' \in [Calls -> CallRecord] /\ call'[c] = r
        /\ \A d \in Calls \ {c} : call'[d] = call[d]
    BY <1>1, <2>3, <2>4, GoesWith
  <2>6. lateness(c)' = 0
    BY <1>1 DEF lateness
  <2>7. CallInStep(c)' /\ CallFits(c)'
    BY <1>1, <2>1, <2>2, <2>3, <2>5, <2>6, TimesToLive DEF CallInStep, CallFits
  <2> QED
    BY <1>1, <2>5, <2>7, OneCallMoves
<1> QED
  BY <1>2, <1>3 DEF get_transaction_count

\* The count goes into the nonce cache on its way to the profile.
LEMMA StoreKeepsCalls ==
    ASSUME ChainInv, NEW c \in Calls, set_cached(c)
    PROVE  /\ call' \in [Calls -> CallRecord] /\ CallsInv'
           /\ nonce_cache' \in [age : Nat, ttl : 0 .. client_ttl]
           /\ Fits(nonce_cache', client_ttl + 1)
<1>1. /\ call \in [Calls -> CallRecord] /\ CallsInv /\ call[c] \in CallRecord
      /\ c \in Analyses /\ UNCHANGED late
      /\ call[c].age \in Nat /\ call[c].age <= lateness(c) /\ lateness(c) \in 0 .. 1
  BY DEF ChainInv, ChainTypeOK, CallRecord, CallsInv, CallInStep, CallFits, set_cached, lateness
<1>2. /\ call' \in [Calls -> CallRecord] /\ call'[c].at = "build" /\ call'[c].age = call[c].age
      /\ \A d \in Calls \ {c} : call'[d] = call[d]
  BY <1>1, GoesTo DEF set_cached
<1>3. lateness(c)' = lateness(c)
  BY <1>1 DEF lateness
<1>4. CallInStep(c)' /\ CallFits(c)'
  BY <1>1, <1>2, <1>3, TimesToLive DEF CallInStep, CallFits
<1>5. CallsInv'
  BY <1>1, <1>2, <1>4, OneCallMoves
<1> DEFINE stored == [age |-> call[c].age, ttl |-> client_ttl]
<1>6. stored \in [age : Nat, ttl : 0 .. client_ttl] /\ Fits(stored, client_ttl + 1)
  BY <1>1, TimesToLive DEF Fits
<1>7. nonce_cache \in [age : Nat, ttl : 0 .. client_ttl] /\ Fits(nonce_cache, client_ttl + 1)
  BY DEF ChainInv, ChainTypeOK, CachesInv
<1>8. nonce_cache' = nonce_cache \/ nonce_cache' = stored
  BY DEF set_cached
<1> HIDE DEF stored
<1> QED
  BY <1>2, <1>5, <1>6, <1>7, <1>8

\* The profile goes into its cache, and the call is over.
LEMMA ProfileKeepsCalls ==
    ASSUME ChainInv, NEW c \in Calls, cache_profile(c)
    PROVE  /\ call' \in [Calls -> CallRecord] /\ CallsInv'
           /\ profile_cache' \in [age : Nat, ttl : 0 .. profile_ttl]
           /\ Fits(profile_cache', client_ttl + profile_ttl + 1)
<1>1. /\ call \in [Calls -> CallRecord] /\ CallsInv
      /\ UNCHANGED late
      /\ call[c].age \in Nat /\ call[c].age <= client_ttl + lateness(c) /\ lateness(c) \in 0 .. 1
  BY DEF ChainInv, ChainTypeOK, CallRecord, CallsInv, CallFits, cache_profile, lateness
<1>2. /\ call' \in [Calls -> CallRecord] /\ call'[c] = NotCalling
      /\ \A d \in Calls \ {c} : call'[d] = call[d]
  BY <1>1, Idles, GoesWith DEF cache_profile, fails
<1>3. CallInStep(c)' /\ CallFits(c)'
  BY <1>2, Idles DEF CallInStep, CallFits
<1>4. CallsInv'
  BY <1>1, <1>2, <1>3, OneCallMoves
<1> DEFINE stored == [age |-> call[c].age, ttl |-> profile_ttl]
<1>5. stored \in [age : Nat, ttl : 0 .. profile_ttl] /\ Fits(stored, client_ttl + profile_ttl + 1)
  BY <1>1, TimesToLive DEF Fits
<1>6. /\ profile_cache \in [age : Nat, ttl : 0 .. profile_ttl]
      /\ Fits(profile_cache, client_ttl + profile_ttl + 1)
  BY DEF ChainInv, ChainTypeOK, CachesInv
<1>7. profile_cache' = profile_cache \/ profile_cache' = stored
  BY DEF cache_profile
<1> HIDE DEF stored
<1> QED
  BY <1>2, <1>4, <1>5, <1>6, <1>7

\* Time passes: what it passes over is late, and what was late holds it up.
LEMMA TickKeepsCalls ==
    ASSUME ChainInv, ChainTick
    PROVE  call' \in [Calls -> CallRecord] /\ CallsInv'
<1>1. /\ call \in [Calls -> CallRecord] /\ CallsInv
      /\ \A c \in late : ~Answered(c)
      /\ late' = {c \in Calls : Answered(c)}
      /\ call' = [c \in Calls |-> IF Answered(c) THEN [call[c] EXCEPT !.age = @ + 1] ELSE call[c]]
  BY DEF ChainInv, ChainTypeOK, CallRecord, ChainTick
<1>2. \A c \in Calls : call'[c] \in CallRecord /\ CallInStep(c)' /\ CallFits(c)'
  <2> SUFFICES ASSUME NEW c \in Calls
               PROVE  call'[c] \in CallRecord /\ CallInStep(c)' /\ CallFits(c)'
    OBVIOUS
  <2>1. call[c] \in CallRecord /\ CallInStep(c) /\ CallFits(c)
    BY <1>1 DEF CallsInv
  <2>2. CASE Answered(c)
    <3>1. /\ call'[c] = [call[c] EXCEPT !.age = @ + 1]
          /\ c \in late' /\ c \notin late /\ call[c].at \in {"store", "build"}
      BY <1>1, <2>2 DEF Answered
    <3>2. call'[c] \in CallRecord /\ call'[c].at = call[c].at /\ call'[c].age = call[c].age + 1
      BY <2>1, <3>1 DEF CallRecord
    <3>3. lateness(c) = 0 /\ lateness(c)' = 1
      BY <3>1 DEF lateness
    <3>4. call[c].age \in Nat
      BY <2>1 DEF CallRecord
    <3> QED
      BY <2>1, <3>1, <3>2, <3>3, <3>4, TimesToLive DEF CallInStep, CallFits
  <2>3. CASE ~Answered(c)
    <3>1. call'[c] = call[c] /\ c \notin late' /\ call[c].at \notin {"store", "build"}
      BY <1>1, <2>3 DEF Answered
    <3> QED
      BY <2>1, <3>1 DEF CallInStep, CallFits
  <2> QED
    BY <2>2, <2>3
<1>3. late' \subseteq Analyses
  BY <1>1 DEF CallsInv, CallInStep, Answered
<1> QED
  BY <1>1, <1>2, <1>3 DEF CallsInv

\* The rest of the state: endpoints, tokens and what is known of the primary.
LEMMA ClientTypes ==
    ASSUME ChainInv, [ChainNext]_chain_vars
    PROVE  /\ up' \subseteq Endpoints
           /\ primary_healthy' \in BOOLEAN /\ since_check' \in 0 .. recovery_interval + 1
           /\ tokens' \in 0 .. max_tokens
<1> DEFINE OK == /\ up \subseteq Endpoints
                 /\ primary_healthy \in BOOLEAN /\ since_check \in 0 .. recovery_interval + 1
                 /\ tokens \in 0 .. max_tokens
<1>1. OK
  BY DEF ChainInv, ChainTypeOK
<1>2. UNCHANGED <<up, primary, tokens>> => OK'
  BY <1>1 DEF primary
<1>3. CASE UNCHANGED chain_vars
  BY <1>2, <1>3 DEF chain_vars
<1>4. CASE ChainTick
  BY <1>1, <1>4, ChainClientAssumption, TimesToLive DEF ChainTick
<1>5. CASE \E e \in Endpoints : EndpointChanges(e)
  BY <1>1, <1>5 DEF EndpointChanges, primary
<1>6. ASSUME NEW c \in Calls, OtherQuery(c) \/ analyze(c)
      PROVE  OK'
  BY <1>2, <1>6 DEF OtherQuery, analyze
<1>7. ASSUME NEW c \in Calls, CallStep(c)
      PROVE  OK'
  <2>1. CASE acquire(c)
    BY <1>1, <2>1, ChainClientAssumption DEF acquire
  <2>2. CASE TryPrimary(c)
    <3>1. /\ UNCHANGED <<up, tokens>>
          /\ \/ UNCHANGED primary
             \/ primary_healthy' = TRUE /\ UNCHANGED since_check
             \/ primary_healthy' = FALSE /\ since_check' = 0
      BY <2>2 DEF TryPrimary
    <3>2. UNCHANGED <<up, tokens>> /\ primary_healthy' \in BOOLEAN /\ since_check' \in {since_check, 0}
      BY <1>1, <3>1 DEF primary
    <3> QED
      BY <1>1, <3>2, ChainClientAssumption
  <2>3. CASE get_transaction_count(c) \/ set_cached(c) \/ cache_profile(c) \/ TryFallback(c)
    BY <1>2, <2>3 DEF get_transaction_count, set_cached, cache_profile, TryFallback
  <2> QED
    BY <1>7, <2>1, <2>2, <2>3 DEF CallStep
<1> QED
  BY <1>3, <1>4, <1>5, <1>6, <1>7 DEF ChainNext

LEMMA ChainInvHolds ==
    ASSUME ChainInv, [ChainNext]_chain_vars
    PROVE  ChainInv'
<1> DEFINE CallsOK == call \in [Calls -> CallRecord] /\ CallsInv
           NonceOK == nonce_cache \in [age : Nat, ttl : 0 .. client_ttl] /\ Fits(nonce_cache, client_ttl + 1)
           ProfileOK == /\ profile_cache \in [age : Nat, ttl : 0 .. profile_ttl]
                        /\ Fits(profile_cache, client_ttl + profile_ttl + 1)
<1>1. CallsOK /\ NonceOK /\ ProfileOK
  BY DEF ChainInv, ChainTypeOK, CallRecord, CachesInv
<1>2. SUFFICES CallsOK' /\ NonceOK' /\ ProfileOK'
  <2>1. late' \subseteq Calls
    BY <1>2 DEF CallsInv, Calls
  <2> QED
    BY <1>2, <2>1, ClientTypes DEF ChainInv, ChainTypeOK, CallRecord, CachesInv
<1>3. UNCHANGED <<call, late>> => CallsOK'
  BY <1>1 DEF CallsInv, CallInStep, CallFits, lateness
<1>4. UNCHANGED caches => NonceOK' /\ ProfileOK'
  BY <1>1 DEF caches
<1>5. CASE UNCHANGED chain_vars
  BY <1>3, <1>4, <1>5 DEF chain_vars
<1>6. CASE ChainTick
  <2>1. CallsOK'
    BY <1>6, TickKeepsCalls
  <2>2. client_ttl + 1 \in Nat /\ client_ttl + profile_ttl + 1 \in Nat /\ client_ttl \in Nat /\ profile_ttl \in Nat
    BY TimesToLive
  <2>3. nonce_cache' = Aged(nonce_cache) /\ profile_cache' = Aged(profile_cache)
    BY <1>6 DEF ChainTick
  <2>4. NonceOK'
    BY <1>1, <2>2, <2>3, AgedFits
  <2>5. ProfileOK'
    BY <1>1, <2>2, <2>3, AgedFits
  <2> QED
    BY <2>1, <2>4, <2>5
<1>7. CASE \E e \in Endpoints : EndpointChanges(e)
  BY <1>3, <1>4, <1>7 DEF EndpointChanges
<1>8. ASSUME NEW c \in Calls, OtherQuery(c) \/ analyze(c)
      PROVE  CallsOK' /\ NonceOK' /\ ProfileOK'
  BY <1>4, <1>8, QueryKeepsCalls DEF OtherQuery, analyze
<1>9. ASSUME NEW c \in Calls, CallStep(c)
      PROVE  CallsOK' /\ NonceOK' /\ ProfileOK'
  <2>1. CASE acquire(c) \/ TryPrimary(c) \/ TryFallback(c)
    BY <1>4, <2>1, AskingKeepsCalls DEF acquire, TryPrimary, TryFallback
  <2>2. CASE get_transaction_count(c)
    BY <1>4, <2>2, CountKeepsCalls DEF get_transaction_count
  <2>3. CASE set_cached(c)
    BY <1>1, <2>3, StoreKeepsCalls DEF set_cached
  <2>4. CASE cache_profile(c)
    BY <1>1, <2>4, ProfileKeepsCalls DEF cache_profile
  <2> QED
    BY <1>9, <2>1, <2>2, <2>3, <2>4 DEF CallStep
<1> QED
  BY <1>5, <1>6, <1>7, <1>8, <1>9 DEF ChainNext

LEMMA ChainInitially == ChainInit => ChainInv
<1> SUFFICES ASSUME ChainInit PROVE ChainInv
  OBVIOUS
<1>1. /\ nonce_cache \in [age : Nat, ttl : 0 .. client_ttl]
      /\ profile_cache \in [age : Nat, ttl : 0 .. profile_ttl]
      /\ CachesInv
  BY TimesToLive DEF ChainInit, Missing, CachesInv, Fits
<1>2. call \in [Calls -> CallRecord] /\ CallsInv
  BY Idles DEF ChainInit, CallsInv, CallInStep, CallFits
<1> QED
  BY <1>1, <1>2, TimesToLive, ChainClientAssumption DEF ChainInit, ChainInv, ChainTypeOK, CallRecord

(* A count is never older, on its way from the chain through both caches,*)
(* than the times to live it has been given allow.                       *)
THEOREM CountsExpire == ChainSpec => []ChainInv
<1>1. ChainInv /\ [ChainNext]_chain_vars => ChainInv'
  BY ChainInvHolds
<1> QED
  BY <1>1, ChainInitially, PTL DEF ChainSpec

LEMMA CountsAreRecent == ChainInv => ProfileIsRecent
<1> SUFFICES ASSUME ChainInv PROVE ProfileIsRecent
  OBVIOUS
<1>1. /\ profile_cache.age \in Nat /\ profile_cache.ttl \in Nat
      /\ Fits(profile_cache, client_ttl + profile_ttl + 1)
  BY DEF ChainInv, ChainTypeOK, CachesInv
<1> QED
  BY <1>1, TimesToLive DEF Fits, ProfileIsRecent

(* WalletAnalyzer never serves a count that is older than the two times  *)
(* to live together.                                                     *)
THEOREM ServedProfilesAreRecent == ChainSpec => []ProfileIsRecent
<1> QED
  BY CountsAreRecent, CountsExpire, PTL

-----------------------------------------------------------------------------
(* The parts together, as MCServices runs them.                          *)

\* A step of ServicesNext is one of a single part, and leaves the others alone.
LEMMA ServicesStep ==
    ASSUME [ServicesNext]_services_vars
    PROVE  [Next]_vars /\ [HealthNext]_health_vars /\ [ChainNext]_chain_vars
BY DEF ServicesNext, services_vars

\* The process, its health monitor and its chain client have no variable in
\* common: what is proved of each holds beside the others, however fair they are.
THEOREM ServicesAreSafe ==
    ServicesSpec => /\ []ServicesHaveConnections /\ []StoppedIsClean
                    /\ []HealthyIsNotSilent /\ []ProfileIsRecent
<1>1. ServicesInit => Init /\ HealthInit /\ ChainInit
  BY DEF ServicesInit
<1>2. ServicesSpec => [](Orderly /\ HealthInv /\ ChainInv)
  <2>1. HealthInv /\ [HealthNext]_health_vars => HealthInv'
    BY HealthInvHolds
  <2>2. ChainInv /\ [ChainNext]_chain_vars => ChainInv'
    BY ChainInvHolds
  <2> QED
    BY <1>1, <2>1, <2>2, InitOrderly, NextOrderly, HealthInitially, ChainInitially, ServicesStep, PTL
    DEF ServicesSpec
<1>3. Orderly => StoppedIsClean /\ ServicesHaveConnections
  BY DEF Orderly
<1> QED
  BY <1>2, <1>3, AgesTellSilence, CountsAreRecent, PTL
=============================================================================
