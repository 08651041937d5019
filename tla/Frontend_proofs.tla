--------------------------- MODULE Frontend_proofs ---------------------------
(***************************************************************************)
(* Proof that the exit status of the hook is honest, for any commands of   *)
(* the operator and any number of failures, and that the services of a     *)
(* frontend at work are those of Services.                                 *)
(***************************************************************************)
EXTENDS Frontend, Services_proofs

CallType ==
    [pc : {"none", "dial", "connected", "dispatched", "answered", "done"},
     action : Actions \cup {"none"}, answer : {"none", "SUCCESS", "ERROR"},
     exit : {0, 1}, cut : BOOLEAN]

CallTypeOK == call \in CallType /\ segment \in BOOLEAN

\* The outcome of a call is open until it is done.
OpenUntilDone ==
    call.pc \in {"dial", "connected", "dispatched", "answered"} =>
        call.exit = 0 /\ ~ call.cut

\* The segment that an answer promises is not freed before 0-db has read it.
AnswerIsTrue ==
    call.pc = "answered" /\ call.action = "missing-data" /\ call.answer # "ERROR" =>
        segment

HonestInv == CallTypeOK /\ OpenUntilDone /\ AnswerIsTrue /\ HonestExit

-----------------------------------------------------------------------------
\* A process that is not running has a record like the others.
LEMMA NoCallType == NoCall \in CallType /\ NoCall.pc = "none"
PROOF BY DEF NoCall, CallType, Actions

\* There is no call to begin with.
LEMMA InitHonest == FrontendInit => HonestInv
PROOF BY NoCallType DEF FrontendInit, HonestInv, CallTypeOK, OpenUntilDone, AnswerIsTrue,
                        HonestExit, NoCall

\* Where neither the call nor the segment changes there is nothing to show.
LEMMA CallUnchanged ==
    ASSUME HonestInv, UNCHANGED <<segment, call>>
    PROVE  HonestInv'
PROOF BY DEF HonestInv, CallTypeOK, OpenUntilDone, AnswerIsTrue, HonestExit

\* A call that has been returned from says nothing.
LEMMA CallEnds ==
    ASSUME HonestInv, call' = NoCall, segment' \in BOOLEAN
    PROVE  HonestInv'
PROOF BY NoCallType DEF HonestInv, CallTypeOK, OpenUntilDone, AnswerIsTrue, HonestExit

\* What ends or starts the services cuts calls, and never completes one.
LEMMA ServicesHonest == HonestInv /\ CallFollows => HonestInv'
<1> SUFFICES ASSUME HonestInv, CallFollows PROVE HonestInv'
  OBVIOUS
<1>1. CASE state'["zdb"] # "running"
  <2>1. call' = NoCall /\ segment' \in BOOLEAN
    BY <1>1 DEF CallFollows, HonestInv, CallTypeOK
  <2> QED
    BY <2>1, CallEnds
<1>2. CASE state'["zdb"] = "running"
  <2>1. CASE state'["quantumd"] # "running" /\ call.pc \in {"connected", "dispatched"}
    <3>1. call' = [call EXCEPT !.pc = "done", !.cut = TRUE] /\ segment' = segment
      BY <1>2, <2>1 DEF CallFollows
    <3>2. call \in CallType /\ call.exit = 0
      BY <2>1 DEF HonestInv, CallTypeOK, OpenUntilDone
    <3>3. call' \in CallType /\ call'.pc = "done" /\ call'.cut /\ call'.exit = 0
      BY <3>1, <3>2 DEF CallType
    <3> QED
      BY <3>1, <3>3 DEF HonestInv, CallTypeOK, OpenUntilDone, AnswerIsTrue, HonestExit
  <2>2. CASE ~ (state'["quantumd"] # "running" /\ call.pc \in {"connected", "dispatched"})
    BY <1>2, <2>2, CallUnchanged DEF CallFollows
  <2> QED
    BY <2>1, <2>2
<1> QED
  BY <1>1, <1>2

\* The hook process and the handler of its connection.
LEMMA HookHonest == HonestInv /\ HookStep => HonestInv'
<1> SUFFICES ASSUME HonestInv, HookStep PROVE HonestInv'
  OBVIOUS
<1> USE DEF HonestInv, CallTypeOK, CallType, OpenUntilDone, AnswerIsTrue, HonestExit, Step
<1>1. CASE Dial
  <2>1. CASE daemon = "listening"
    <3>1. /\ call' = [call EXCEPT !.pc = "connected"] /\ call.pc = "dial"
          /\ segment' = segment
      BY <1>1, <2>1 DEF Dial
    <3>2. /\ call' \in CallType /\ call'.pc = "connected"
          /\ call'.exit = call.exit /\ call'.cut = call.cut
      BY <3>1
    <3> QED
      BY <3>1, <3>2
  <2>2. CASE daemon # "listening"
    <3>1. /\ call' = [call EXCEPT !.pc = "done", !.cut = TRUE] /\ call.pc = "dial"
          /\ segment' = segment
      BY <1>1, <2>2 DEF Dial
    <3>2. /\ call' \in CallType /\ call'.pc = "done"
          /\ call'.exit = 0 /\ call'.cut
      BY <3>1
    <3> QED
      BY <3>1, <3>2
  <2> QED
    BY <2>1, <2>2
<1>2. CASE ReadAnswer
  <2>1. /\ call.pc = "answered" /\ segment' = segment
        /\ call' = [call EXCEPT !.pc = "done",
                                !.exit = IF call.answer = "ERROR" THEN 1 ELSE 0]
    BY <1>2 DEF ReadAnswer
  <2>2. /\ call' \in CallType /\ call'.pc = "done" /\ call'.cut = call.cut
        /\ call'.action = call.action
        /\ call'.exit = IF call.answer = "ERROR" THEN 1 ELSE 0
    BY <2>1
  <2> QED
    BY <2>1, <2>2
<1>3. CASE HandleConnection
  <2>1. CASE IsBlocking(call.action)
    BY <1>3, <2>1 DEF HandleConnection
  <2>2. CASE ~ IsBlocking(call.action)
    BY <1>3, <2>2 DEF HandleConnection, Answered, IsBlocking
  <2> QED
    BY <2>1, <2>2
<1>4. CASE DispatchSucceeds
  BY <1>4 DEF DispatchSucceeds, Answered
<1>5. CASE DispatchFails
  BY <1>5 DEF DispatchFails, AnswerError, Answered
<1> QED
  BY <1>1, <1>2, <1>3, <1>4, <1>5 DEF HookStep

\* Whatever commands are given, whatever ends, and however often a hook is
\* run, what is known of a call stays true.
LEMMA NextHonest == HonestInv /\ [FrontendNext]_allVars => HonestInv'
<1> SUFFICES ASSUME HonestInv, [FrontendNext]_allVars PROVE HonestInv'
  OBVIOUS
<1>1. CASE FrontendBegin
  BY <1>1, CallUnchanged DEF FrontendBegin
<1>2. CASE ServicesStep
  BY <1>2, ServicesHonest DEF ServicesStep
<1>3. CASE FrontendReboot
  BY <1>3, CallEnds DEF FrontendReboot, HonestInv, CallTypeOK
<1>4. CASE DaemonListens \/ DaemonIsMute
  BY <1>4, CallUnchanged DEF DaemonListens, DaemonIsMute
<1>5. CASE Evict
  BY <1>5 DEF Evict, HonestInv, CallTypeOK, OpenUntilDone, AnswerIsTrue, HonestExit
<1>6. ASSUME NEW a \in Actions, RunHook(a) PROVE HonestInv'
  <2>1. call' = [NoCall EXCEPT !.pc = "dial", !.action = a] /\ segment' = segment
    BY <1>6 DEF RunHook
  <2>2. call' \in CallType /\ call'.pc = "dial" /\ call'.exit = 0 /\ ~ call'.cut
    BY <1>6, <2>1 DEF NoCall, CallType
  <2> QED
    BY <2>1, <2>2 DEF HonestInv, CallTypeOK, OpenUntilDone, AnswerIsTrue, HonestExit
<1>7. CASE HookStep
  BY <1>7, HookHonest
<1>8. CASE ReturnToZdb
  BY <1>8, CallEnds DEF ReturnToZdb, HonestInv, CallTypeOK
<1>9. CASE UNCHANGED allVars
  BY <1>9, CallUnchanged DEF allVars
<1> QED
  BY <1>1, <1>2, <1>3, <1>4, <1>5, <1>6, <1>7, <1>8, <1>9 DEF FrontendNext

\* A hook for a missing segment that exits with 0 has left the segment on the
\* disk or got no answer; one that exits with 1 got an answer.
THEOREM ExitIsHonest == FrontendSpec => []HonestExit
<1>1. HonestInv => HonestExit
  BY DEF HonestInv
<1> QED
  BY InitHonest, NextHonest, <1>1, PTL DEF FrontendSpec

-----------------------------------------------------------------------------
(***************************************************************************)
(* The frontend at work implements its services.                           *)
(***************************************************************************)

\* To the services, the hook and the daemon's progress are stutters.
LEMMA NextServices == FrontendNext => [Next]_vars
<1> SUFFICES ASSUME FrontendNext PROVE [Next]_vars
  OBVIOUS
<1>1. CASE FrontendBegin
  BY <1>1 DEF FrontendBegin, Next
<1>2. CASE ServicesStep
  BY <1>2 DEF ServicesStep, Next
<1>3. CASE FrontendReboot
  BY <1>3 DEF FrontendReboot, Next
<1>4. CASE DaemonListens \/ DaemonIsMute \/ Evict \/ ReturnToZdb
  BY <1>4 DEF DaemonListens, DaemonIsMute, Evict, ReturnToZdb
<1>5. ASSUME NEW a \in Actions, RunHook(a) PROVE UNCHANGED vars
  BY <1>5 DEF RunHook
<1>6. CASE HookStep
  BY <1>6 DEF HookStep, Dial, ReadAnswer, HandleConnection, DispatchSucceeds, DispatchFails, Step
<1> QED
  BY <1>1, <1>2, <1>3, <1>4, <1>5, <1>6 DEF FrontendNext

\* Every behaviour of the frontend is one of its services: the hook calls and
\* the daemon's progress neither add to nor hinder what commands and systemd do.
THEOREM ImplementsServices == FrontendSpec => Spec
<1>1. FrontendInit => Init
  BY DEF FrontendInit
<1>2. [FrontendNext]_allVars => [Next]_vars
  <2>1. UNCHANGED allVars => UNCHANGED vars
    BY DEF allVars
  <2> QED
    BY <2>1, NextServices
<1> QED
  BY <1>1, <1>2, PTL DEF FrontendSpec, Spec

\* The daemon is down when its service does not run, and only then.
DaemonOK ==
    /\ daemon \in {"down", "starting", "listening", "mute"}
    /\ daemon = "down" <=> ~ Runs("quantumd")

\* It is down to begin with.
LEMMA InitDaemon == FrontendInit => DaemonOK
PROOF BY DEF FrontendInit, Init, DaemonOK, Runs, Service

\* It comes and goes with its service, and listens or not while that runs.
LEMMA NextDaemon == DaemonOK /\ [FrontendNext]_allVars => DaemonOK'
<1> SUFFICES ASSUME DaemonOK, [FrontendNext]_allVars PROVE DaemonOK'
  OBVIOUS
<1>1. CASE FrontendBegin
  BY <1>1 DEF FrontendBegin, Begin, DaemonOK, Runs
<1>2. CASE ServicesStep
  BY <1>2 DEF ServicesStep, DaemonFollows, DaemonOK, Runs
<1>3. CASE FrontendReboot
  BY <1>3 DEF FrontendReboot, DaemonOK, Runs
<1>4. CASE DaemonListens \/ DaemonIsMute
  BY <1>4 DEF DaemonListens, DaemonIsMute, DaemonOK, Runs, vars
<1>5. CASE Evict \/ ReturnToZdb
  BY <1>5 DEF Evict, ReturnToZdb, DaemonOK, Runs, vars
<1>6. ASSUME NEW a \in Actions, RunHook(a) PROVE DaemonOK'
  BY <1>6 DEF RunHook, DaemonOK, Runs, vars
<1>7. CASE HookStep
  BY <1>7 DEF HookStep, Dial, ReadAnswer, HandleConnection, DispatchSucceeds, DispatchFails,
              Step, DaemonOK, Runs, vars
<1>8. CASE UNCHANGED allVars
  BY <1>8 DEF allVars, DaemonOK, Runs, vars
<1> QED
  BY <1>1, <1>2, <1>3, <1>4, <1>5, <1>6, <1>7, <1>8 DEF FrontendNext

\* The services, the daemon, the segment and the call are of their types, and
\* the daemon runs when its service does.
THEOREM TypesAtWork == FrontendSpec => []TypeOK
<1>1. ServicesTypeOK /\ DaemonOK /\ HonestInv => TypeOK
  BY DEF DaemonOK, HonestInv, CallTypeOK, CallType, TypeOK
<1>2. FrontendSpec => []ServicesTypeOK
  BY ImplementsServices, TypeCorrect, PTL
<1> QED
  BY InitDaemon, NextDaemon, InitHonest, NextHonest, <1>1, <1>2, PTL DEF FrontendSpec

\* What setup, stop and uninstall report is what they leave behind also while
\* 0-db calls its hook.
THEOREM CommandsAtWork ==
    FrontendSpec => [](SetupComplete /\ StopComplete /\ UninstallComplete)
PROOF BY ImplementsServices, SetupIsComplete, StopIsComplete, UninstallIsComplete, PTL
=============================================================================
