----------------------------- MODULE RadioControl -----------------------------
(***************************************************************************)
(* The receiver's control plane for an rtl_tcp input (radio.go): the       *)
(* worker goroutine started by NewRadioRTLTCP, and the application         *)
(* goroutines that call Start, Stop, SetFrequency, SetGain, SetAutoGain    *)
(* and Close.                                                              *)
(*                                                                         *)
(* A step is a region executed under stateMu, one read or write of a Radio *)
(* field made outside it, or one command or read on the TCP connection.    *)
(* The decoder behind pushCU8 and Reset is opaque here: what matters is    *)
(* when the worker is inside it ("push") and when a caller reinitialises   *)
(* it ("sf_reset").  gains are in tenths of a dB, as on the wire.          *)
(***************************************************************************)
EXTENDS Integers, Sequences

CONSTANTS
  Callers,     \* application goroutines
  Freqs,       \* centre frequencies an application asks for
  UserGains,   \* gains an application asks for
  GainTables,  \* gain tables of the tuners, sequences in increasing order
  LinkFaults,  \* what the connection may suffer: subset of Faults
  MaxStarts    \* bound on the calls of Start

Unset  == -10           \* gain = -1 dB: no gain chosen yet
NoFreq == 0             \* freq of a fresh Radio
Faults == {"stalled", "eof", "reset"}

ASSUME CallersAssumption == Callers # {}
ASSUME FreqsAssumption   == Freqs \subseteq Nat \ {NoFreq}
ASSUME GainsAssumption   == UserGains \subseteq Int /\ GainTables \subseteq Seq(Int)
ASSUME FaultsAssumption  == LinkFaults \subseteq Faults
ASSUME BoundAssumption   == MaxStarts \in Nat

VARIABLES
  stopped, pause, closed,  \* Radio fields, written under stateMu
  freq, gain, autoGain,    \* Radio fields, written outside it
  wpc,                     \* where the worker is
  low, high, best,         \* doAutoGain's locals
  rdOK,                    \* the last read returned at least 4 bytes and no error
  cpc, carg,               \* where each caller is, and its argument
  link,                    \* state of the TCP connection seen from here
  expired,                 \* a read deadline left behind has passed
  gains,                   \* gain table of the connected tuner
  devFreq, devGain,        \* what the tuner was last told
  starts, losses,          \* history: calls of Start, devices declared lost
  readStopped,             \* history: no Start since a read ended while stopped
  lateTune,                \* history: the application tuned after its first Start
  overlap                  \* history: it tuned in two calls at once, or while it called Start

control == <<stopped, pause, closed>>
knobs   == <<freq, gain, autoGain>>
locals  == <<low, high, best, rdOK>>
calls   == <<cpc, carg>>
conn    == <<link, expired>>
tuner   == <<gains, devFreq, devGain>>
history == <<starts, losses, readStopped, lateTune, overlap>>
vars    == <<control, knobs, wpc, locals, calls, conn, tuner, history>>

WorkerStates == {"check", "waiting", "choose", "choose_auto", "ag_set", "ag_read",
                 "ag_store", "ag_apply", "read", "recheck", "push", "lost",
                 "report", "done"}
CallerStates == {"idle", "sf_tune", "sf_reset", "sf_assign", "sg_tune", "sg_assign",
                 "unpause", "sa_clear", "cl_join", "cl_release", "gone"}

CanWrite  == link \in {"up", "stalled", "eof"}
CanRead   == link = "up" /\ ~expired
ReadFails == link \in {"eof", "reset", "closed"} \/ expired

TypeOK ==
  /\ stopped \in BOOLEAN /\ pause \in BOOLEAN /\ closed \in BOOLEAN
  /\ freq \in Freqs \cup {NoFreq} /\ devFreq \in Freqs \cup {NoFreq}
  /\ gain \in Int /\ devGain \in Int /\ autoGain \in BOOLEAN
  /\ wpc \in WorkerStates
  /\ low \in 0..Len(gains) /\ high \in -1..Len(gains) - 1 /\ best \in Int
  /\ rdOK \in BOOLEAN
  /\ cpc \in [Callers -> CallerStates]
  /\ carg \in [Callers -> Int]
  /\ link \in Faults \cup {"up", "closed"}
  /\ expired \in BOOLEAN
  /\ starts \in 0..MaxStarts /\ losses \in Nat /\ readStopped \in BOOLEAN
  /\ gains \in GainTables /\ lateTune \in BOOLEAN /\ overlap \in BOOLEAN


\* NewRadioRTLTCP after startWorker: stopped, automatic gain, no gain chosen.
Init ==
  /\ stopped = TRUE /\ pause = FALSE /\ closed = FALSE
  /\ freq = NoFreq /\ devFreq = NoFreq
  /\ gain = Unset /\ devGain = Unset /\ autoGain = TRUE
  /\ wpc = "check"
  /\ gains \in GainTables
  /\ low = 0 /\ high = Len(gains) - 1 /\ best = 0
  /\ rdOK = FALSE
  /\ cpc = [c \in Callers |-> "idle"] /\ carg = [c \in Callers |-> 0]
  /\ link = "up" /\ expired = FALSE
  /\ starts = 0 /\ losses = 0 /\ readStopped = FALSE /\ lateTune = FALSE /\ overlap = FALSE

-----------------------------------------------------------------------------
(* The worker goroutine *)

\* Cond.Broadcast: a worker in Wait goes back to evaluate its condition.
BroadcastToNobody == UNCHANGED wpc  \* mutant
Broadcast == wpc' = IF wpc = "waiting" THEN "check" ELSE wpc

\* The step changes nothing but where the worker is.
WorkerMoves(p, q) ==
  /\ wpc = p /\ wpc' = q
  /\ UNCHANGED <<control, knobs, locals, calls, conn, tuner, history>>

\* Under stateMu: leave when closed, wait while stopped or paused.
MustWait == stopped \/ pause

Check == WorkerMoves("check", IF closed THEN "done" ELSE IF MustWait THEN "waiting"
                                                                    ELSE "choose")

\* st.autoGain, then st.gain, read without the lock.
ReadAutoGain == WorkerMoves("choose", IF autoGain THEN "choose_auto" ELSE "read")

ReadGain ==
  \/ gain >= 0 /\ WorkerMoves("choose_auto", "read")
  \/ gain < 0 /\ gains = <<>> /\ WorkerMoves("choose_auto", "lost")

LastGainPastEnd == Len(gains)  \* mutant
LastGain == Len(gains) - 1

BeginAutoGain ==
  /\ gain < 0 /\ gains # <<>>
  /\ wpc = "choose_auto" /\ wpc' = "ag_set"
  /\ low' = 0 /\ high' = LastGain /\ best' = 0
  /\ UNCHANGED <<control, knobs, rdOK, calls, conn, tuner, history>>

Mid == (low + high) \div 2

\* resetBuffer drains under a read deadline, which is cleared at the end only when
\* the samples keep coming.
FlushExpires == link # "up"

\* One probe of doAutoGain: command the middle gain, then resetBuffer.  A
\* command that fails leaves low and high alone and is tried again at once.
AutoGainSet ==
  /\ wpc = "ag_set"
  /\ IF CanWrite
     THEN wpc' = "ag_read" /\ devGain' = gains[Mid + 1] /\ expired' = FlushExpires
     ELSE UNCHANGED <<wpc, devGain, expired>>
  /\ UNCHANGED <<control, knobs, locals, calls, link, gains, devFreq, history>>

\* The probe's read: a quiet input moves the search up, a loud one down.
NextHighStuck(quiet) == IF quiet THEN high ELSE Mid  \* mutant
NextHigh(quiet) == IF quiet THEN high ELSE Mid - 1
NextLow(quiet)  == IF quiet THEN Mid + 1 ELSE low

AutoGainProbe(quiet) ==
  /\ CanRead
  /\ wpc = "ag_read"
  /\ wpc' = IF NextLow(quiet) <= NextHigh(quiet) THEN "ag_set" ELSE "ag_store"
  /\ low' = NextLow(quiet) /\ high' = NextHigh(quiet)
  /\ best' = IF quiet \/ Mid = 0 THEN gains[Mid + 1] ELSE best
  /\ UNCHANGED <<control, knobs, rdOK, calls, conn, tuner, history>>

AutoGainReadFails == ReadFails /\ WorkerMoves("ag_read", "lost")

AutoGainStore ==
  /\ wpc = "ag_store" /\ wpc' = "ag_apply"
  /\ gain' = best
  /\ UNCHANGED <<control, freq, autoGain, locals, calls, conn, tuner, history>>

\* The result of this last command is ignored.
GainNotApplied == devGain  \* mutant
AppliedGain == IF CanWrite THEN best ELSE devGain

AutoGainApply ==
  /\ wpc = "ag_apply" /\ wpc' = "read"
  /\ devGain' = AppliedGain
  /\ UNCHANGED <<control, knobs, locals, calls, conn, gains, devFreq, history>>

\* The blocking read, outside the lock.  Fewer than 4 bytes count as a failure.
Read ==
  /\ wpc = "read" /\ wpc' = "recheck"
  /\ \/ CanRead /\ rdOK' \in BOOLEAN
     \/ ReadFails /\ rdOK' = FALSE
  /\ readStopped' = stopped
  /\ UNCHANGED <<control, knobs, low, high, best, calls, conn, tuner, starts, losses, lateTune, overlap>>

\* closed and stopped are looked at again before the samples are used.
DiscardClosed == closed  \* mutant
Discard == closed \/ stopped

AfterReadRetry == IF rdOK THEN "push" ELSE "check"  \* mutant
AfterRead == IF rdOK THEN "push" ELSE "lost"

Recheck == WorkerMoves("recheck", IF Discard THEN "check" ELSE AfterRead)

\* pushCU8, and every decoder step and callback under it, ends.
PushDone == WorkerMoves("push", "check")

KeepGoing == UNCHANGED stopped  \* mutant
SetStopped == stopped' = TRUE

MarkStopped ==
  /\ wpc = "lost" /\ wpc' = "report"
  /\ SetStopped
  /\ losses' = losses + 1
  /\ UNCHANGED <<pause, closed, knobs, locals, calls, conn, tuner, starts, readStopped, lateTune, overlap>>

\* reportLostDevice runs the callback.
ReportLostDevice == WorkerMoves("report", "check")

Worker ==
  \/ Check \/ ReadAutoGain \/ ReadGain
  \/ BeginAutoGain \/ AutoGainSet \/ (\E quiet \in BOOLEAN : AutoGainProbe(quiet))
  \/ AutoGainReadFails \/ AutoGainStore \/ AutoGainApply
  \/ Read \/ Recheck \/ PushDone \/ MarkStopped \/ ReportLostDevice

-----------------------------------------------------------------------------
(* The application goroutines *)

CallerAt(c, p, q) == cpc[c] = p /\ cpc' = [cpc EXCEPT ![c] = q]

Resume == stopped' = FALSE /\ pause' = FALSE

\* A call of SetFrequency, SetGain or SetAutoGain is under way.
Tuning == \E c \in Callers : cpc[c] \notin {"idle", "cl_join", "cl_release", "gone"}

Start(c) ==
  /\ cpc[c] = "idle" /\ starts < MaxStarts
  /\ Resume /\ Broadcast
  /\ starts' = starts + 1
  /\ readStopped' = FALSE
  /\ overlap' = (overlap \/ Tuning)
  /\ UNCHANGED <<closed, knobs, locals, calls, conn, tuner, losses, lateTune>>

Stop(c) ==
  /\ cpc[c] = "idle"
  /\ SetStopped /\ Broadcast
  /\ UNCHANGED <<pause, closed, knobs, locals, calls, conn, tuner, history>>

\* The guard of SetFrequency and SetGain, and the pause they take under it.
BeginRetune(c, v, q) ==
  /\ CallerAt(c, "idle", q)
  /\ stopped
  /\ pause' = TRUE
  /\ carg' = [carg EXCEPT ![c] = v]
  /\ lateTune' = (lateTune \/ starts > 0)
  /\ overlap' = (overlap \/ Tuning)
  /\ UNCHANGED <<stopped, closed, knobs, wpc, locals, conn, tuner, starts, losses, readStopped>>

SetFrequency(c, f) == freq # f /\ BeginRetune(c, f, "sf_tune")
SetGain(c, g)      == gain # g /\ BeginRetune(c, g, "sg_tune")

\* A command to the tuner: where the caller goes on, and what the tuner then has.
AfterCommandBlind(q) == q  \* mutant
AfterCommand(q) == IF CanWrite THEN q ELSE "unpause"
Told(v, old) == IF CanWrite THEN v ELSE old

SetFrequencyTune(c) ==
  /\ CallerAt(c, "sf_tune", AfterCommand("sf_reset"))
  /\ devFreq' = Told(carg[c], devFreq)
  /\ UNCHANGED <<control, knobs, wpc, locals, carg, conn, gains, devGain, history>>

\* Reset returns: the decoder has been reinitialised while cpc[c] = "sf_reset".
SetFrequencyReset(c) ==
  /\ CallerAt(c, "sf_reset", "sf_assign")
  /\ UNCHANGED <<control, knobs, wpc, locals, carg, conn, tuner, history>>

SetFrequencyAssign(c) ==
  /\ CallerAt(c, "sf_assign", "unpause")
  /\ freq' = carg[c]
  /\ UNCHANGED <<control, gain, autoGain, wpc, locals, carg, conn, tuner, history>>

SetGainTune(c) ==
  /\ CallerAt(c, "sg_tune", AfterCommand("sg_assign"))
  /\ devGain' = Told(carg[c], devGain)
  /\ UNCHANGED <<control, knobs, wpc, locals, carg, conn, gains, devFreq, history>>

SetGainAssign(c) ==
  /\ CallerAt(c, "sg_assign", "unpause")
  /\ gain' = carg[c]
  /\ UNCHANGED <<control, freq, autoGain, wpc, locals, carg, conn, tuner, history>>

\* The deferred function of both: pause ends, and nobody is woken.
Unpause(c) ==
  /\ CallerAt(c, "unpause", "idle")
  /\ pause' = FALSE
  /\ carg' = [carg EXCEPT ![c] = 0]
  /\ UNCHANGED <<stopped, closed, knobs, wpc, locals, conn, tuner, history>>

\* Two unlocked writes.
SetAutoGain(c, enabled) ==
  /\ CallerAt(c, "idle", "sa_clear")
  /\ autoGain' = enabled
  /\ UNCHANGED <<control, freq, gain, wpc, locals, carg, conn, tuner, history>>

SetAutoGainClear(c) ==
  /\ CallerAt(c, "sa_clear", "idle")
  /\ gain' = Unset
  /\ UNCHANGED <<control, freq, autoGain, wpc, locals, carg, conn, tuner, history>>

Close(c) ==
  /\ CallerAt(c, "idle", "cl_join")
  /\ closed' = TRUE
  /\ Broadcast
  /\ UNCHANGED <<stopped, pause, knobs, locals, carg, conn, tuner, history>>

\* workerWG.Wait
JoinNobody == TRUE  \* mutant
WorkerExited == wpc = "done"

CloseJoin(c) ==
  /\ WorkerExited
  /\ CallerAt(c, "cl_join", "cl_release")
  /\ UNCHANGED <<control, knobs, wpc, locals, carg, conn, tuner, history>>

CloseRelease(c) ==
  /\ CallerAt(c, "cl_release", "gone")
  /\ link' = "closed"
  /\ UNCHANGED <<control, knobs, wpc, locals, carg, expired, tuner, history>>

\* A call already begun goes on.
Continue(c) ==
  \/ SetFrequencyTune(c) \/ SetFrequencyReset(c) \/ SetFrequencyAssign(c)
  \/ SetGainTune(c) \/ SetGainAssign(c) \/ Unpause(c)
  \/ SetAutoGainClear(c) \/ CloseJoin(c) \/ CloseRelease(c)

Call(c) ==
  \/ Start(c) \/ Stop(c) \/ Close(c)
  \/ \E f \in Freqs : SetFrequency(c, f)
  \/ \E g \in UserGains : SetGain(c, g)
  \/ \E b \in BOOLEAN : SetAutoGain(c, b)

-----------------------------------------------------------------------------
(* The connection *)

\* The server stops sending, closes its side or resets the connection.
LinkChanges ==
  /\ \/ link = "up" /\ link' \in LinkFaults
     \/ link = "stalled" /\ link' \in LinkFaults \ {"stalled"}
  /\ UNCHANGED <<control, knobs, wpc, locals, calls, expired, tuner, history>>

LinkResumes ==
  /\ link = "stalled" /\ link' = "up"
  /\ UNCHANGED <<control, knobs, wpc, locals, calls, expired, tuner, history>>

Next ==
  \/ Worker
  \/ \E c \in Callers : Call(c) \/ Continue(c)
  \/ LinkChanges \/ LinkResumes

Spec == Init /\ [][Next]_vars

\* The Go runtime runs every goroutine that can run; the server may hang for ever.
HangingSpec ==
  Spec /\ WF_vars(Worker) /\ \A c \in Callers : WF_vars(Continue(c))

\* Every stall ends, and a blocked read gets the samples that then arrive.
FairSpec ==
  HangingSpec /\ SF_vars(Worker) /\ WF_vars(LinkResumes)

-----------------------------------------------------------------------------
(* Properties *)

\* A worker asleep in stateCond.Wait has a reason to sleep.  The deferred
\* function of SetFrequency and SetGain clears pause without a Broadcast, so
\* nobody would wake a worker that slept on pause alone (radio.go:224).
NoLostWakeup == wpc = "waiting" => ~closed /\ (stopped \/ pause)

\* pause is only ever on while stopped is: the reason why NoLostWakeup survives
\* the missing Broadcast, whatever calls overlap (radio.go:168, 216, 240).
PauseImpliesStopped == pause => stopped

\* The connection is closed only after the worker has left its loop, so the
\* worker never reads from a released device (radio.go:185).
ReleaseAfterExit == link = "closed" => wpc = "done"

\* A lost device stops the receiver: however reads fail and calls overlap, it is
\* declared lost at most once for every Start (radio.go:108, 133).
OneLossPerStart == losses <= starts

\* Samples whose read ended while the receiver was stopped do not reach the
\* decoder unless Start was called in between (radio.go:126).
StaleReadsDropped == wpc = "push" => ~readStopped

\* When no call is in progress, the frequency SetFrequency reports as set is the
\* one the tuner was told, failed commands included (radio.go:216); two calls at once
\* may tell the tuner in one order and record in the other.
TunedAsAsked == ~overlap /\ (\A c \in Callers : cpc[c] \in {"idle", "gone"}) => freq = devFreq

\* For an application that tunes before its first Start only, one call at a time: once a
\* gain has been chosen, by SetGain or by doAutoGain, and neither is under way, it is the
\* gain the tuner was told, while commands get through (radio.go:240, 319).
GainMatchesTuner ==
  /\ ~lateTune /\ ~overlap /\ CanWrite
  /\ wpc \notin {"ag_set", "ag_read", "ag_store", "ag_apply"}
  /\ \A c \in Callers : cpc[c] # "sg_assign"
  => gain \in {Unset, devGain}

\* Reset reinitialises the decoder only while the worker is outside pushCU8: the
\* guard on stopped is there to ensure it (radio.go:218, 230).
ResetExclusive == ~(wpc = "push" /\ \E c \in Callers : cpc[c] = "sf_reset")

\* The worker and Close treat the connection as DeviceLease says.
Lease == INSTANCE DeviceLease WITH
  phase <- IF link = "closed" THEN "released" ELSE IF closed THEN "closing" ELSE "open",
  inUse <- wpc \in {"ag_set", "ag_read", "ag_apply", "read"}

\* The receiver implements DeviceLease, the promise that a requested release
\* happens included (radio.go:185).
LeaseSpec == Lease!Spec

\* Close returns: the worker notices closed from wherever it is (radio.go:185).
CloseReturns == \A c \in Callers : cpc[c] = "cl_join" ~> cpc[c] = "gone"

\* A receiver that was started gets to read samples, automatic gain selection
\* included, unless it is stopped or closed (radio.go:103).
StartedReads == (wpc = "check" /\ ~stopped /\ ~closed)
                  ~> (wpc = "read" \/ stopped \/ closed)

\* A connection that is gone is noticed and stops the receiver (radio.go:132).
LossNoticed == (link = "eof" /\ ~stopped) ~> (stopped \/ closed)
=============================================================================
