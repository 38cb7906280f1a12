-------------------------- MODULE RadioControlProofs --------------------------
(***************************************************************************)
(* Safety of RadioControl for any number of callers, any gain table and    *)
(* any faults of the connection.                                           *)
(***************************************************************************)
EXTENDS RadioControl, TLAPS

\* The worker has passed the wait and not yet declared the device lost or
\* come back to it: what it does next was started by some Start.
Past == WorkerStates \ {"check", "waiting", "report", "done"}

\* The search of doAutoGain never leaves the table while it probes.
SearchInTable == wpc \in {"ag_set", "ag_read"} => low <= high

\* A frequency waiting to be set is one that was asked for.
PendingFreq ==
  \A c \in Callers : cpc[c] \in {"sf_tune", "sf_reset", "sf_assign"} => carg[c] \in Freqs

\* The loss the worker may still declare is paid for by a Start of its own.
LossCredit == losses + (IF ~stopped \/ wpc \in Past THEN 1 ELSE 0) <= starts

\* Whoever is past workerWG.Wait has seen the worker leave, for good.
ExitSeen ==
  /\ wpc = "done" => closed
  /\ \A c \in Callers : cpc[c] = "cl_release" => wpc = "done"
  /\ \A c \in Callers : cpc[c] \in {"cl_join", "cl_release", "gone"} => closed

IInv ==
  /\ TypeOK
  /\ SearchInTable
  /\ PendingFreq
  /\ PauseImpliesStopped
  /\ NoLostWakeup
  /\ ExitSeen
  /\ ReleaseAfterExit
  /\ LossCredit
  /\ StaleReadsDropped
  /\ readStopped => stopped

-----------------------------------------------------------------------------

\* The middle of a search that has not ended is an index of the table.
LEMMA MidInRange ==
  ASSUME NEW a \in Nat, NEW b \in Int, a <= b
  PROVE  (a + b) \div 2 \in a..b
  OBVIOUS

USE DEF IInv, TypeOK, SearchInTable, PendingFreq, PauseImpliesStopped, NoLostWakeup,
        ExitSeen, ReleaseAfterExit, LossCredit, StaleReadsDropped, Past, WorkerStates,
        CallerStates, Faults, control, knobs, locals, calls, conn, tuner, history

\* The invariant holds as the radio is opened.
LEMMA InitIInv == Init => IInv
<1> SUFFICES ASSUME Init PROVE IInv
  OBVIOUS
<1>1. Len(gains) \in Nat
  BY GainsAssumption DEF Init
<1>2. TypeOK
  <2>1. low \in 0..Len(gains) /\ high \in -1..Len(gains) - 1
    BY <1>1 DEF Init
  <2>2. starts \in 0..MaxStarts
    BY BoundAssumption DEF Init
  <2>3. cpc \in [Callers -> CallerStates] /\ carg \in [Callers -> Int]
    BY DEF Init
  <2>4. gain \in Int /\ devGain \in Int /\ best \in Int
    BY DEF Init, Unset
  <2>5. freq \in Freqs \cup {NoFreq} /\ devFreq \in Freqs \cup {NoFreq}
    BY DEF Init
  <2> QED
    BY <2>1, <2>2, <2>3, <2>4, <2>5 DEF Init
<1>3. PendingFreq /\ ExitSeen
  BY DEF Init
<1> QED
  BY <1>2, <1>3 DEF Init

\* Start keeps it: the receiver that begins pays for the loss it may come to.
LEMMA StartIInv == ASSUME NEW c \in Callers PROVE IInv /\ Start(c) => IInv'
<1> SUFFICES ASSUME IInv, Start(c) PROVE IInv'
  OBVIOUS
<1> USE DEF Start, Resume, Broadcast
<1>1. TypeOK'
  <2>1. starts' \in 0..MaxStarts
    BY BoundAssumption
  <2>2. wpc' \in WorkerStates
    OBVIOUS
  <2> QED
    BY <2>1, <2>2
<1>2. LossCredit'
  BY BoundAssumption
<1>3. PendingFreq' /\ ExitSeen' 
  OBVIOUS
<1>4. SearchInTable' /\ PauseImpliesStopped' /\ NoLostWakeup' /\ ReleaseAfterExit'
  OBVIOUS
<1>5. StaleReadsDropped' /\ (readStopped => stopped)'
  OBVIOUS
<1> QED
  BY <1>1, <1>2, <1>3, <1>4, <1>5

\* Every step of the worker keeps it, doAutoGain and the loss of the device included.
LEMMA WorkerIInv == IInv /\ Worker => IInv'
<1> SUFFICES ASSUME IInv, Worker PROVE IInv'
  OBVIOUS
<1> USE BoundAssumption
<1>1. CASE Check
  BY <1>1 DEF Check, WorkerMoves, MustWait
<1>2. CASE ReadAutoGain
  BY <1>2 DEF ReadAutoGain, WorkerMoves
<1>3. CASE ReadGain
  BY <1>3 DEF ReadGain, WorkerMoves
<1>4. CASE BeginAutoGain
  BY <1>4, GainsAssumption DEF BeginAutoGain, LastGain
<1>5. CASE AutoGainSet
  <2>1. low \in Nat /\ high \in Int /\ low <= high /\ high <= Len(gains) - 1
    BY <1>5 DEF AutoGainSet, FlushExpires
  <2>2. Mid \in low..high
    BY <2>1, MidInRange DEF Mid
  <2>3. Mid + 1 \in 1..Len(gains)
    BY <2>1, <2>2, GainsAssumption
  <2>4. gains[Mid + 1] \in Int
    BY <2>3, GainsAssumption
  <2>5. devGain' \in Int /\ expired' \in BOOLEAN /\ wpc' \in {"ag_set", "ag_read"}
    BY <1>5, <2>4 DEF AutoGainSet, FlushExpires
  <2>6. UNCHANGED <<control, knobs, locals, calls, link, gains, devFreq, history>>
    BY <1>5 DEF AutoGainSet, FlushExpires
  <2>7. wpc = "ag_set"
    BY <1>5 DEF AutoGainSet, FlushExpires
  <2> HIDE DEF Mid
  <2> QED
    BY <2>5, <2>6, <2>7
<1>6. ASSUME NEW quiet \in BOOLEAN, AutoGainProbe(quiet) PROVE IInv'
  BY <1>6, MidInRange, GainsAssumption DEF AutoGainProbe, NextLow, NextHigh, Mid
<1>7. CASE AutoGainReadFails
  BY <1>7 DEF AutoGainReadFails, WorkerMoves
<1>8. CASE AutoGainStore
  BY <1>8 DEF AutoGainStore
<1>9. CASE AutoGainApply
  BY <1>9 DEF AutoGainApply, AppliedGain
<1>10. CASE Read
  BY <1>10 DEF Read, CanRead, ReadFails
<1>11. CASE Recheck
  BY <1>11 DEF Recheck, WorkerMoves, Discard, AfterRead
<1>12. CASE PushDone
  BY <1>12 DEF PushDone, WorkerMoves
<1>13. CASE MarkStopped
  BY <1>13 DEF MarkStopped, SetStopped
<1>14. CASE ReportLostDevice
  BY <1>14 DEF ReportLostDevice, WorkerMoves
<1> QED
  BY <1>1, <1>2, <1>3, <1>4, <1>5, <1>6, <1>7, <1>8, <1>9, <1>10, <1>11, <1>12, <1>13,
     <1>14 DEF Worker

\* So does every call as it begins.
LEMMA CallIInv == ASSUME NEW c \in Callers PROVE IInv /\ Call(c) => IInv'
<1> SUFFICES ASSUME IInv, Call(c) PROVE IInv'
  OBVIOUS
<1> USE BoundAssumption DEF CallerAt, BeginRetune
<1>1. CASE Start(c)
  BY <1>1, StartIInv
<1>2. CASE Stop(c)
  BY <1>2 DEF Stop, SetStopped, Broadcast
<1>3. CASE Close(c)
  BY <1>3 DEF Close, Broadcast
<1>4. ASSUME NEW f \in Freqs, SetFrequency(c, f) PROVE IInv'
  BY <1>4, FreqsAssumption DEF SetFrequency
<1>5. ASSUME NEW g \in UserGains, SetGain(c, g) PROVE IInv'
  BY <1>5, GainsAssumption DEF SetGain
<1>6. ASSUME NEW b \in BOOLEAN, SetAutoGain(c, b) PROVE IInv'
  BY <1>6 DEF SetAutoGain
<1> QED
  BY <1>1, <1>2, <1>3, <1>4, <1>5, <1>6 DEF Call

\* And every call as it goes on.
LEMMA ContinueIInv == ASSUME NEW c \in Callers PROVE IInv /\ Continue(c) => IInv'
<1> SUFFICES ASSUME IInv, Continue(c) PROVE IInv'
  OBVIOUS
<1> USE BoundAssumption DEF CallerAt, AfterCommand, Told
<1>1. CASE SetFrequencyTune(c)
  BY <1>1 DEF SetFrequencyTune
<1>2. CASE SetFrequencyReset(c)
  BY <1>2 DEF SetFrequencyReset
<1>3. CASE SetFrequencyAssign(c)
  BY <1>3 DEF SetFrequencyAssign
<1>4. CASE SetGainTune(c)
  BY <1>4 DEF SetGainTune
<1>5. CASE SetGainAssign(c)
  BY <1>5 DEF SetGainAssign
<1>6. CASE Unpause(c)
  <2>1. TypeOK'
    <3>1. carg' \in [Callers -> Int]
      BY <1>6 DEF Unpause
    <3>2. cpc' \in [Callers -> CallerStates]
      BY <1>6 DEF Unpause
    <3>3. /\ pause' = FALSE
          /\ UNCHANGED <<stopped, closed, knobs, wpc, locals, conn, tuner, history>>
      BY <1>6 DEF Unpause
    <3>4. pause' \in BOOLEAN /\ stopped' \in BOOLEAN /\ closed' \in BOOLEAN
      BY <3>3
    <3>5. UNCHANGED <<stopped, closed, freq, gain, autoGain, wpc, low, high, best, rdOK,
                      link, expired, gains, devFreq, devGain, starts, losses, readStopped,
                      lateTune, overlap>>
      BY <3>3
    <3>6. gains' \in GainTables /\ low' \in 0..Len(gains') /\ high' \in -1..Len(gains') - 1
      BY <3>5
    <3>7. wpc' \in WorkerStates /\ link' \in Faults \cup {"up", "closed"}
      BY <3>5
    <3>8. /\ freq' \in Freqs \cup {NoFreq} /\ devFreq' \in Freqs \cup {NoFreq}
          /\ gain' \in Int /\ devGain' \in Int /\ autoGain' \in BOOLEAN
          /\ best' \in Int /\ rdOK' \in BOOLEAN /\ expired' \in BOOLEAN
          /\ starts' \in 0..MaxStarts /\ losses' \in Nat /\ readStopped' \in BOOLEAN
          /\ lateTune' \in BOOLEAN /\ overlap' \in BOOLEAN
      BY <3>5
    <3> HIDE <1>6
    <3> QED
      BY <3>1, <3>2, <3>4, <3>6, <3>7, <3>8, Zenon DEF TypeOK
  <2>2. PendingFreq' /\ ExitSeen'
    BY <1>6 DEF Unpause
  <2>3. PauseImpliesStopped' /\ NoLostWakeup' /\ ReleaseAfterExit'
    BY <1>6 DEF Unpause
  <2>4. SearchInTable' /\ LossCredit' /\ StaleReadsDropped' /\ (readStopped => stopped)'
    BY <1>6 DEF Unpause
  <2> QED
    BY <2>1, <2>2, <2>3, <2>4
<1>7. CASE SetAutoGainClear(c)
  BY <1>7 DEF SetAutoGainClear, Unset
<1>8. CASE CloseJoin(c)
  BY <1>8 DEF CloseJoin, WorkerExited
<1>9. CASE CloseRelease(c)
  BY <1>9 DEF CloseRelease
<1> QED
  BY <1>1, <1>2, <1>3, <1>4, <1>5, <1>6, <1>7, <1>8, <1>9 DEF Continue

\* Every step keeps the invariant.
LEMMA NextIInv == IInv /\ [Next]_vars => IInv'
<1> SUFFICES ASSUME IInv, [Next]_vars PROVE IInv'
  OBVIOUS
<1>1. CASE LinkChanges \/ LinkResumes
  <2>1. link' \in Faults \cup {"up"}
    BY <1>1, FaultsAssumption DEF LinkChanges, LinkResumes
  <2>2. UNCHANGED <<control, knobs, wpc, locals, calls, expired, tuner, history>>
    BY <1>1 DEF LinkChanges, LinkResumes
  <2> QED
    BY <2>1, <2>2
<1>2. CASE UNCHANGED vars
  BY <1>2 DEF vars
<1> QED
  BY <1>1, <1>2, WorkerIInv, CallIInv, ContinueIInv DEF Next

-----------------------------------------------------------------------------

\* The inductive invariant holds of every behaviour of the receiver.
LEMMA InductiveInvariant == Spec => []IInv
  BY InitIInv, NextIInv, PTL DEF Spec

\* Every field keeps its type, the indices of doAutoGain's search included.
THEOREM TypeCorrect == Spec => []TypeOK
<1>1. IInv => TypeOK
  OBVIOUS
<1> HIDE DEF IInv, TypeOK
<1> QED
  BY <1>1, InductiveInvariant, PTL

\* Whatever calls overlap, a worker asleep in stateCond.Wait has a reason to
\* sleep: the pause that ends without a Broadcast strands nobody.
THEOREM NoWakeupIsLost == Spec => [](PauseImpliesStopped /\ NoLostWakeup)
<1>1. IInv => PauseImpliesStopped /\ NoLostWakeup
  OBVIOUS
<1> QED
  BY <1>1, InductiveInvariant, PTL

\* The worker has left before the connection is closed.
THEOREM ReleasedAfterExit == Spec => []ReleaseAfterExit
<1>1. IInv => ReleaseAfterExit
  OBVIOUS
<1> QED
  BY <1>1, InductiveInvariant, PTL

\* A device is declared lost at most once for every Start.
THEOREM LossesPaidFor == Spec => []OneLossPerStart
<1>1. IInv => OneLossPerStart
  BY DEF OneLossPerStart
<1> QED
  BY <1>1, InductiveInvariant, PTL

\* Samples read while stopped are dropped.
THEOREM StoppedReadsDropped == Spec => []StaleReadsDropped
<1>1. IInv => StaleReadsDropped
  OBVIOUS
<1> QED
  BY <1>1, InductiveInvariant, PTL

-----------------------------------------------------------------------------

\* One step of the receiver is one step of the lease, or none.
LEMMA LeaseStep == IInv /\ IInv' /\ [Next]_vars => [Lease!Next]_(Lease!vars)
<1> SUFFICES ASSUME IInv, IInv', [Next]_vars PROVE [Lease!Next]_(Lease!vars)
  OBVIOUS
<1> USE DEF Lease!Next, Lease!vars, Lease!BeginUse, Lease!EndUse, Lease!Request,
            Lease!Release
<1>1. CASE Worker
  <2>1. UNCHANGED <<link, closed>> /\ link # "closed"
    BY <1>1 DEF Worker, Check, WorkerMoves, ReadAutoGain, ReadGain, BeginAutoGain,
       AutoGainSet, AutoGainProbe, AutoGainReadFails, AutoGainStore, AutoGainApply, Read,
       Recheck, PushDone, MarkStopped, ReportLostDevice
  <2> QED
    BY <2>1
<1>2. ASSUME NEW c \in Callers, Call(c) PROVE [Lease!Next]_(Lease!vars)
  <2>1. UNCHANGED link /\ (closed' = closed \/ closed')
    BY <1>2 DEF Call, Start, Stop, Close, SetFrequency, SetGain, BeginRetune, SetAutoGain
  <2>2. wpc' = wpc \/ (wpc = "waiting" /\ wpc' = "check")
    BY <1>2 DEF Call, Start, Stop, Close, SetFrequency, SetGain, BeginRetune, SetAutoGain,
       Broadcast
  <2> QED
    BY <2>1, <2>2
<1>3. ASSUME NEW c \in Callers, Continue(c) PROVE [Lease!Next]_(Lease!vars)
  <2>1. UNCHANGED <<closed, wpc>>
    BY <1>3 DEF Continue, SetFrequencyTune, SetFrequencyReset, SetFrequencyAssign,
       SetGainTune, SetGainAssign, Unpause, SetAutoGainClear, CloseJoin, CloseRelease
  <2>2. CASE CloseRelease(c)
    BY <2>1, <2>2 DEF CloseRelease, CallerAt
  <2>3. CASE ~CloseRelease(c)
    BY <1>3, <2>1, <2>3 DEF Continue, SetFrequencyTune, SetFrequencyReset,
       SetFrequencyAssign, SetGainTune, SetGainAssign, Unpause, SetAutoGainClear, CloseJoin
  <2> QED
    BY <2>2, <2>3
<1>4. CASE LinkChanges \/ LinkResumes
  BY <1>4, FaultsAssumption DEF LinkChanges, LinkResumes
<1>5. CASE UNCHANGED vars
  BY <1>5 DEF vars
<1> QED
  BY <1>1, <1>2, <1>3, <1>4, <1>5 DEF Next

\* The receiver implements the safety part of DeviceLease: it uses the connection
\* only until it is released, and releases it on request and between two uses.
THEOREM ImplementsLease == Spec => Lease!SafeSpec
<1>1. Init => Lease!Init
  BY DEF Init, Lease!Init
<1> QED
  BY <1>1, InductiveInvariant, LeaseStep, PTL DEF Spec, Lease!SafeSpec

-----------------------------------------------------------------------------
(* That the Radio's fields and the tuner agree (radio.go:216, 240, 319): the recorded *)
(* frequency and gain are the commanded ones, as long as calls that tune do not overlap. *)

\* A caller inside SetFrequency or SetGain.
Retuning == {"sf_tune", "sf_reset", "sf_assign", "sg_tune", "sg_assign", "unpause"}

\* Without overlap at most one call is inside SetFrequency or SetGain.
OneRetunes ==
  ~overlap => \A c, d \in Callers : cpc[c] \in Retuning /\ cpc[d] \in Retuning => c = d

\* Between the command and the assignment the tuner has the argument of the call, and
\* otherwise what is recorded.
FreqOnItsWay ==
  ~overlap =>
    /\ \A c \in Callers : cpc[c] \in {"sf_reset", "sf_assign"} => devFreq = carg[c]
    /\ (\A c \in Callers : cpc[c] \notin {"sf_reset", "sf_assign"}) => freq = devFreq

\* Before the first Start the worker touches nothing.
QuietBeforeStart == starts = 0 => stopped /\ wpc \in {"check", "waiting", "done"}

\* What is recorded is told, or on its way.
TuneInv == OneRetunes /\ FreqOnItsWay /\ QuietBeforeStart

-----------------------------------------------------------------------------

USE DEF control, knobs, locals, calls, conn, tuner, history

\* Before the first call tuner and fields agree.
LEMMA InitTuneInv == Init => TuneInv
  BY DEF Init, TuneInv, OneRetunes, FreqOnItsWay, QuietBeforeStart, Retuning

\* The worker leaves the frequency as it is.
LEMMA WorkerTuneInv == IInv /\ TuneInv /\ Worker => TuneInv'
<1> SUFFICES ASSUME IInv, TuneInv, Worker PROVE TuneInv'
  OBVIOUS
<1>1. UNCHANGED <<freq, devFreq, cpc, carg, overlap, starts>>
  BY DEF Worker, Check, ReadAutoGain, ReadGain, BeginAutoGain, AutoGainSet, AutoGainProbe,
     AutoGainReadFails, AutoGainStore, AutoGainApply, Read, Recheck, PushDone, MarkStopped,
     ReportLostDevice, WorkerMoves
<1>2. OneRetunes' /\ FreqOnItsWay'
  BY <1>1 DEF TuneInv, OneRetunes, FreqOnItsWay
<1>3. QuietBeforeStart'
  <2> SUFFICES ASSUME starts = 0 PROVE stopped' /\ wpc' \in {"check", "waiting", "done"}
    BY <1>1 DEF QuietBeforeStart
  <2>1. stopped /\ wpc \in {"check", "waiting", "done"}
    BY DEF TuneInv, QuietBeforeStart
  <2>2. Check
    BY <2>1 DEF Worker, ReadAutoGain, ReadGain, BeginAutoGain, AutoGainSet, AutoGainProbe,
       AutoGainReadFails, AutoGainStore, AutoGainApply, Read, Recheck, PushDone, MarkStopped,
       ReportLostDevice, WorkerMoves
  <2> QED
    BY <2>1, <2>2 DEF Check, WorkerMoves, MustWait
<1> QED
  BY <1>2, <1>3 DEF TuneInv

\* A call puts its frequency on its way while no other call is.
LEMMA CallTuneInv == ASSUME NEW c \in Callers PROVE IInv /\ TuneInv /\ Call(c) => TuneInv'
<1> SUFFICES ASSUME IInv, TuneInv, Call(c) PROVE TuneInv'
  OBVIOUS
<1> USE BoundAssumption DEF IInv, TypeOK, CallerStates, TuneInv, OneRetunes, FreqOnItsWay, QuietBeforeStart, Retuning, CallerAt
<1>1. CASE Start(c)
  BY <1>1 DEF Start, Resume, Broadcast
<1>2. CASE Stop(c)
  BY <1>2 DEF Stop, SetStopped, Broadcast
<1>3. CASE Close(c)
  BY <1>3 DEF Close, Broadcast
<1>4. ASSUME NEW v \in Int, NEW q \in {"sf_tune", "sg_tune"}, BeginRetune(c, v, q)
      PROVE  TuneInv'
  <2>1. ~overlap' => ~overlap /\ \A d \in Callers : cpc[d] \notin Retuning
    BY <1>4 DEF BeginRetune, Tuning
  <2>2. OneRetunes'
    BY <1>4, <2>1 DEF BeginRetune
  <2>3. FreqOnItsWay'
    BY <1>4, <2>1 DEF BeginRetune
  <2>4. QuietBeforeStart'
    BY <1>4 DEF BeginRetune
  <2> QED
    BY <2>2, <2>3, <2>4
<1>5. ASSUME NEW f \in Freqs, SetFrequency(c, f) PROVE TuneInv'
  BY <1>4, <1>5, FreqsAssumption DEF SetFrequency
<1>6. ASSUME NEW g \in UserGains, SetGain(c, g) PROVE TuneInv'
  BY <1>4, <1>6, GainsAssumption DEF SetGain
<1>7. ASSUME NEW b \in BOOLEAN, SetAutoGain(c, b) PROVE TuneInv'
  BY <1>7 DEF SetAutoGain
<1> QED
  BY <1>1, <1>2, <1>3, <1>5, <1>6, <1>7 DEF Call

\* It records what it told the tuner.
LEMMA ContinueTuneInv ==
  ASSUME NEW c \in Callers PROVE IInv /\ TuneInv /\ Continue(c) => TuneInv'
<1> SUFFICES ASSUME IInv, TuneInv, Continue(c) PROVE TuneInv'
  OBVIOUS
<1> USE DEF IInv, TypeOK, CallerStates, TuneInv, OneRetunes, FreqOnItsWay, QuietBeforeStart, Retuning, CallerAt
<1>1. CASE SetFrequencyTune(c)
  BY <1>1 DEF SetFrequencyTune, AfterCommand, Told
<1>2. CASE SetFrequencyReset(c)
  BY <1>2 DEF SetFrequencyReset
<1>3. CASE SetFrequencyAssign(c)
  BY <1>3 DEF SetFrequencyAssign
<1>4. CASE SetGainTune(c)
  BY <1>4 DEF SetGainTune, AfterCommand
<1>5. CASE SetGainAssign(c)
  BY <1>5 DEF SetGainAssign
<1>6. CASE Unpause(c)
  BY <1>6 DEF Unpause
<1>7. CASE SetAutoGainClear(c)
  BY <1>7 DEF SetAutoGainClear
<1>8. CASE CloseJoin(c)
  BY <1>8 DEF CloseJoin
<1>9. CASE CloseRelease(c)
  BY <1>9 DEF CloseRelease
<1> QED
  BY <1>1, <1>2, <1>3, <1>4, <1>5, <1>6, <1>7, <1>8, <1>9 DEF Continue

\* Every step keeps tuner and recorded frequency together.
LEMMA NextTuneInv == IInv /\ TuneInv /\ [Next]_vars => TuneInv'
<1> SUFFICES ASSUME IInv, TuneInv, [Next]_vars PROVE TuneInv'
  OBVIOUS
<1>1. CASE LinkChanges \/ LinkResumes \/ UNCHANGED vars
  <2>1. UNCHANGED <<freq, devFreq, cpc, carg, overlap, starts, stopped, wpc>>
    BY <1>1 DEF LinkChanges, LinkResumes, vars
  <2> QED
    BY <2>1 DEF TuneInv, OneRetunes, FreqOnItsWay, QuietBeforeStart
<1> QED
  BY <1>1, WorkerTuneInv, CallTuneInv, ContinueTuneInv DEF Next

\* They are always together.
LEMMA AlwaysTuneInv == Spec => []TuneInv
<1> QED
  BY InitTuneInv, NextTuneInv, InductiveInvariant, PTL DEF Spec

\* When no call is in progress and none have overlapped, the recorded frequency is the
\* one the tuner was told, whichever commands failed (radio.go:216).
THEOREM FrequencyTold == Spec => []TunedAsAsked
<1>1. TuneInv => TunedAsAsked
  BY DEF TuneInv, FreqOnItsWay, TunedAsAsked
<1> HIDE DEF TuneInv
<1> QED
  BY <1>1, AlwaysTuneInv, PTL

-----------------------------------------------------------------------------

\* No gain below 0 dB, which is taken for "no gain chosen", but for the -1 dB that is just
\* that.  It holds of the tables of the R82xx and the E4000; those of the FC0012 and the FC0013
\* have others (rtltcp.go:111), and an application may ask for them.
GainsTell ==
  /\ UserGains \subseteq Nat
  /\ \A t \in GainTables : \A i \in 1..Len(t) : t[i] \in Nat \cup {Unset}

\* Nobody retunes beside a receiver that was started.
SettledAtStart ==
  ~overlap /\ ~lateTune /\ starts > 0 => \A c \in Callers : cpc[c] \notin Retuning

\* Gains are chosen, or Unset.
GainsChosen ==
  /\ gain \in Nat \cup {Unset} /\ best \in Nat \cup {Unset}
  /\ \A c \in Callers : cpc[c] \in {"sg_tune", "sg_assign"} => carg[c] \in Nat

Probing == wpc \in {"ag_set", "ag_read", "ag_store", "ag_apply"}

\* What the tuner was told is recorded, on its way to gain (a caller's argument, or best), or
\* doAutoGain is trying gains and none is recorded.
GainOnItsWay ==
  ~overlap /\ ~lateTune /\ CanWrite =>
    /\ \A c \in Callers : cpc[c] = "sg_assign" => devGain = carg[c]
    /\ wpc \in {"ag_set", "ag_read", "ag_store"} => gain = Unset
    /\ wpc = "ag_apply" => gain \in {Unset, best}
    /\ ~Probing /\ (\A c \in Callers : cpc[c] # "sg_assign") => gain \in {Unset, devGain}

GainInv == SettledAtStart /\ GainsChosen /\ GainOnItsWay

\* Before the first call no gain is told or recorded.
LEMMA InitGainInv == Init => GainInv
  BY BoundAssumption DEF Init, GainInv, SettledAtStart, GainsChosen, GainOnItsWay, Retuning, Probing

\* doAutoGain ends with the gain that it told the tuner last.
LEMMA WorkerGainInv ==
  ASSUME GainsTell PROVE IInv /\ TuneInv /\ GainInv /\ Worker => GainInv'
<1> SUFFICES ASSUME IInv, TuneInv, GainInv, Worker PROVE GainInv'
  OBVIOUS
<1> DEFINE Same == UNCHANGED <<cpc, carg, overlap, lateTune, starts, link, gains>>
<1>1. Same
  BY DEF Worker, Check, ReadAutoGain, ReadGain, BeginAutoGain, AutoGainSet, AutoGainProbe,
     AutoGainReadFails, AutoGainStore, AutoGainApply, Read, Recheck, PushDone, MarkStopped,
     ReportLostDevice, WorkerMoves
<1>2. SettledAtStart'
  BY <1>1 DEF GainInv, SettledAtStart
<1>3. CanWrite' <=> CanWrite
  BY <1>1 DEF CanWrite
<1>4. ~overlap /\ ~lateTune /\ wpc \notin {"check", "waiting", "done"}
        => \A c \in Callers : cpc[c] # "sg_assign"
  <2>1. starts \in Nat
    BY BoundAssumption DEF IInv, TypeOK
  <2>2. wpc \notin {"check", "waiting", "done"} => starts # 0
    BY DEF TuneInv, QuietBeforeStart
  <2>3. starts # 0 => starts > 0
    BY <2>1
  <2> QED
    BY <2>2, <2>3 DEF GainInv, SettledAtStart, Retuning
<1>5. GainsChosen /\ GainOnItsWay
  BY DEF GainInv
<1> SUFFICES GainsChosen' /\ GainOnItsWay'
  BY <1>2 DEF GainInv
<1> DEFINE Moves(P, Q) == wpc \in P /\ wpc' \in Q /\ UNCHANGED <<gain, best, devGain>>
<1> DEFINE Quiet == WorkerStates \ {"ag_set", "ag_read", "ag_store", "ag_apply"}
<1>6. CASE Moves(Quiet, Quiet)
  BY <1>1, <1>3, <1>5, <1>6 DEF GainsChosen, GainOnItsWay, Probing, WorkerStates
<1>7. CASE Check \/ ReadAutoGain \/ ReadGain \/ Read \/ Recheck \/ PushDone \/ MarkStopped \/ ReportLostDevice
  <2>1. Moves(Quiet, Quiet)
    BY <1>7 DEF Check, ReadAutoGain, ReadGain, Read, Recheck, PushDone, MarkStopped,
       ReportLostDevice, WorkerMoves, WorkerStates, AfterRead
  <2> QED
    BY <2>1, <1>6
<1>8. CASE BeginAutoGain
  <2>1. gain = Unset
    BY <1>5, <1>8 DEF BeginAutoGain, GainsChosen
  <2> QED
    BY <2>1, <1>1, <1>3, <1>5, <1>8 DEF BeginAutoGain, GainsChosen, GainOnItsWay, Probing
<1>9. CASE AutoGainSet
  <2>1. wpc = "ag_set" /\ wpc' \in {"ag_set", "ag_read"} /\ UNCHANGED <<gain, best>>
    BY <1>9 DEF AutoGainSet
  <2> QED
    BY <2>1, <1>1, <1>3, <1>4, <1>5 DEF GainsChosen, GainOnItsWay, Probing
<1>10. ASSUME NEW quiet \in BOOLEAN, AutoGainProbe(quiet) PROVE GainsChosen' /\ GainOnItsWay'
  <2>1. wpc = "ag_read" /\ wpc' \in {"ag_set", "ag_store"} /\ UNCHANGED <<gain, devGain>>
    BY <1>10 DEF AutoGainProbe
  <2>2. Mid + 1 \in 1..Len(gains)
    <3>1. low \in Nat /\ high \in Int /\ low <= high /\ high < Len(gains) /\ Len(gains) \in Nat
      BY <2>1, GainsAssumption DEF IInv, TypeOK, SearchInTable
    <3>2. Mid \in low..high
      BY <3>1, MidInRange DEF Mid
    <3> QED
      BY <3>1, <3>2
  <2>3. gains[Mid + 1] \in Nat \cup {Unset}
    BY <2>2, GainsTell DEF GainsTell, IInv, TypeOK
  <2>4. best' \in Nat \cup {Unset}
    BY <1>5, <1>10, <2>3 DEF AutoGainProbe, GainsChosen
  <2> QED
    BY <2>1, <2>4, <1>1, <1>3, <1>4, <1>5 DEF GainsChosen, GainOnItsWay, Probing
<1>11. CASE AutoGainReadFails
  BY <1>11, <1>1, <1>3, <1>5 DEF AutoGainReadFails, WorkerMoves, GainsChosen, GainOnItsWay, Probing
<1>12. CASE AutoGainStore
  BY <1>12, <1>1, <1>3, <1>4, <1>5 DEF AutoGainStore, GainsChosen, GainOnItsWay, Probing
<1>13. CASE AutoGainApply
  <2>1. wpc = "ag_apply" /\ wpc' = "read" /\ UNCHANGED <<gain, best>>
    BY <1>13 DEF AutoGainApply
  <2>2. CanWrite => devGain' = best
    BY <1>13 DEF AutoGainApply, AppliedGain
  <2> QED
    BY <2>1, <2>2, <1>1, <1>3, <1>4, <1>5 DEF GainsChosen, GainOnItsWay, Probing
<1> QED
  BY <1>7, <1>8, <1>9, <1>10, <1>11, <1>12, <1>13 DEF Worker

\* A call puts its gain on its way while nobody else tells one.
LEMMA CallGainInv ==
  ASSUME GainsTell, NEW c \in Callers PROVE IInv /\ GainInv /\ Call(c) => GainInv'
<1> SUFFICES ASSUME IInv, GainInv, Call(c) PROVE GainInv'
  OBVIOUS
<1> USE BoundAssumption DEF IInv, TypeOK, CallerStates, GainInv, SettledAtStart, GainsChosen,
        GainOnItsWay, Retuning, Probing, CanWrite, CallerAt
<1>1. CASE Start(c)
  <2>1. ~overlap' => ~overlap /\ \A d \in Callers : cpc[d] \notin Retuning
    BY <1>1 DEF Start, Tuning
  <2>2. SettledAtStart'
    BY <1>1, <2>1 DEF Start
  <2>3. GainsChosen'
    BY <1>1 DEF Start
  <2>4. GainOnItsWay'
    BY <1>1, <2>1 DEF Start, Broadcast
  <2> QED
    BY <2>2, <2>3, <2>4
<1>2. CASE Stop(c)
  BY <1>2 DEF Stop, Broadcast
<1>3. CASE Close(c)
  BY <1>3 DEF Close, Broadcast
<1>4. ASSUME NEW f \in Freqs, SetFrequency(c, f) PROVE GainInv'
  BY <1>4 DEF SetFrequency, BeginRetune
<1>5. ASSUME NEW g \in UserGains, SetGain(c, g) PROVE GainInv'
  BY <1>5, GainsTell DEF SetGain, BeginRetune, GainsTell
<1>6. ASSUME NEW b \in BOOLEAN, SetAutoGain(c, b) PROVE GainInv'
  BY <1>6 DEF SetAutoGain
<1> QED
  BY <1>1, <1>2, <1>3, <1>4, <1>5, <1>6 DEF Call

\* It records what it told the tuner.
LEMMA ContinueGainInv ==
  ASSUME NEW c \in Callers PROVE IInv /\ TuneInv /\ GainInv /\ Continue(c) => GainInv'
<1> SUFFICES ASSUME IInv, TuneInv, GainInv, Continue(c) PROVE GainInv'
  OBVIOUS
<1> USE BoundAssumption DEF IInv, TypeOK, CallerStates, GainInv, SettledAtStart, GainsChosen,
        GainOnItsWay, Retuning, Probing, CanWrite, CallerAt
<1>1. CASE SetFrequencyTune(c)
  BY <1>1 DEF SetFrequencyTune, AfterCommand
<1>2. CASE SetFrequencyReset(c)
  BY <1>2 DEF SetFrequencyReset
<1>3. CASE SetFrequencyAssign(c)
  BY <1>3 DEF SetFrequencyAssign
<1>4. CASE SetGainTune(c)
  <2>1. ~overlap /\ ~lateTune => ~Probing /\ \A d \in Callers : cpc[d] # "sg_assign"
    BY <1>4 DEF SetGainTune, TuneInv, QuietBeforeStart, OneRetunes
  <2> QED
    BY <1>4, <2>1 DEF SetGainTune, AfterCommand, Told
<1>5. CASE SetGainAssign(c)
  <2>1. ~overlap /\ ~lateTune => ~Probing
    BY <1>5 DEF SetGainAssign, TuneInv, QuietBeforeStart
  <2> QED
    BY <1>5, <2>1 DEF SetGainAssign, TuneInv, OneRetunes
<1>6. CASE Unpause(c)
  BY <1>6 DEF Unpause
<1>7. CASE SetAutoGainClear(c)
  BY <1>7 DEF SetAutoGainClear
<1>8. CASE CloseJoin(c)
  BY <1>8 DEF CloseJoin
<1>9. CASE CloseRelease(c)
  BY <1>9 DEF CloseRelease
<1> QED
  BY <1>1, <1>2, <1>3, <1>4, <1>5, <1>6, <1>7, <1>8, <1>9 DEF Continue

\* Every step keeps tuner and recorded gain together.
LEMMA NextGainInv ==
  ASSUME GainsTell PROVE IInv /\ TuneInv /\ GainInv /\ [Next]_vars => GainInv'
<1> SUFFICES ASSUME IInv, TuneInv, GainInv, [Next]_vars PROVE GainInv'
  OBVIOUS
<1>1. CASE LinkChanges \/ LinkResumes \/ UNCHANGED vars
  <2>1. UNCHANGED <<gain, best, devGain, cpc, carg, overlap, lateTune, starts, wpc>>
    BY <1>1 DEF LinkChanges, LinkResumes, vars
  <2>2. CanWrite' => CanWrite
    BY <1>1, FaultsAssumption DEF LinkChanges, LinkResumes, vars, CanWrite, Faults
  <2> QED
    BY <2>1, <2>2 DEF GainInv, SettledAtStart, GainsChosen, GainOnItsWay, Probing
<1> QED
  BY <1>1, GainsTell, WorkerGainInv, CallGainInv, ContinueGainInv DEF Next

\* For an application that tunes before its first Start only, one call at a time: the gain that
\* is recorded is the one the tuner has, through every search of doAutoGain, failed ones
\* included (radio.go:240, 319).  A gain below 0 dB would be searched over again, and
\* a search that fails leaves it recorded with the tuner at another.
THEOREM GainTold == ASSUME GainsTell PROVE Spec => []GainMatchesTuner
<1>1. GainInv => GainMatchesTuner
  BY DEF GainInv, GainOnItsWay, GainMatchesTuner, Probing
<1>2. IInv /\ TuneInv /\ GainInv /\ [Next]_vars => GainInv'
  BY GainsTell, NextGainInv
<1>3. GainsTell
  OBVIOUS
<1> HIDE DEF TuneInv, GainInv
<1> QED
  BY <1>1, <1>2, InitGainInv, AlwaysTuneInv, InductiveInvariant, PTL DEF Spec
=============================================================================
