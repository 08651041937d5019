------------------------------ MODULE Frontend ------------------------------
(***************************************************************************)
(* The services of a frontend at work: 0-db asks the daemon for a segment  *)
(* that it misses, through the hook (cmd/hook.go, internal/hook/hook.go,   *)
(* StartHookHandler of internal/daemon/daemon.go), while the operator's    *)
(* commands, systemd and failures stop and start both.                     *)
(*                                                                         *)
(* It composes with Services: each of its actions is one of Services with  *)
(* what it does to the daemon and to a call in progress, or a step of the  *)
(* call.                                                                   *)
(***************************************************************************)
EXTENDS Services

VARIABLES
    daemon,         \* down, starting, listening, or mute: alive without a socket
    segment,        \* whether the segment that is read is on the disk
    call            \* the hook process that 0-db runs, and its connection

allVars == <<vars, daemon, segment, call>>

Actions == {"missing-data", "ready", "jump-data"}

\* answer is what the handler wrote into the connection, if anything; exit the
\* status of the process; cut whether it got no answer.
NoCall == [pc |-> "none", action |-> "none", answer |-> "none", exit |-> 0, cut |-> FALSE]

FrontendInit ==
    /\ Init
    /\ daemon = "down"
    /\ segment \in BOOLEAN
    /\ call = NoCall

-----------------------------------------------------------------------------
(***************************************************************************)
(* What the services do to the hook.                                       *)
(***************************************************************************)

Runs(s) == state[s] = "running"

\* A daemon that starts has neither metadata nor a socket; one that ends
\* closes its connections, and takes zstor processes along.
DaemonFollows ==
    daemon' = IF state'["quantumd"] # "running" THEN "down"
              ELSE IF Runs("quantumd") THEN daemon ELSE "starting"

\* A handler that has been asked goes on when its client is gone.
CallFollows ==
    IF state'["zdb"] # "running"
    THEN /\ call' = NoCall
         /\ \/ UNCHANGED segment
            \/ call.pc = "dispatched" /\ call.action = "missing-data" /\ segment' = TRUE
    ELSE /\ call' = IF /\ state'["quantumd"] # "running"
                       /\ call.pc \in {"connected", "dispatched"}
                    THEN [call EXCEPT !.pc = "done", !.cut = TRUE]
                    ELSE call
         /\ UNCHANGED segment

ServicesStep == (Execute \/ Systemd) /\ DaemonFollows /\ CallFollows

\* All processes are new.
FrontendReboot ==
    /\ Reboot
    /\ daemon' = IF state'["quantumd"] = "running" THEN "starting" ELSE "down"
    /\ call' = NoCall
    /\ UNCHANGED segment

FrontendBegin ==
    /\ \E op \in Operations, s \in Service : Begin(op, s)
    /\ UNCHANGED <<daemon, segment, call>>

\* Init succeeds, and the hook handler listens; or it fails, and the process
\* waits for ever.
DaemonListens ==
    /\ daemon = "starting"
    /\ daemon' = "listening"
    /\ UNCHANGED <<vars, segment, call>>

DaemonIsMute ==
    /\ daemon = "starting"
    /\ daemon' = "mute"
    /\ UNCHANGED <<vars, segment, call>>

-----------------------------------------------------------------------------
(***************************************************************************)
(* 0-db, zstor and the reader of a file.                                   *)
(***************************************************************************)

\* zstor makes room.
Evict ==
    /\ segment /\ call.pc = "none"
    /\ segment' = FALSE
    /\ UNCHANGED <<vars, daemon, call>>

\* 0-db runs the hook.
RunHook(a) ==
    /\ Runs("zdb") /\ call.pc = "none"
    /\ a = "missing-data" => ~ segment
    /\ call' = [NoCall EXCEPT !.pc = "dial", !.action = a]
    /\ UNCHANGED <<vars, daemon, segment>>

\* The hook process has ended, and 0-db goes on.
ReturnToZdb ==
    /\ call.pc = "done"
    /\ call' = NoCall
    /\ UNCHANGED <<vars, daemon, segment>>

-----------------------------------------------------------------------------
(***************************************************************************)
(* The hook command.                                                       *)
(***************************************************************************)

Step(c) == call' = c /\ UNCHANGED <<vars, daemon>>

\* A daemon that does not listen cannot be reached: the exit status is 0.
Dial ==
    /\ call.pc = "dial"
    /\ Step(IF daemon = "listening"
            THEN [call EXCEPT !.pc = "connected"]
            ELSE [call EXCEPT !.pc = "done", !.cut = TRUE])
    /\ UNCHANGED segment

ReadAnswer ==
    /\ call.pc = "answered"
    /\ Step([call EXCEPT !.pc = "done", !.exit = IF call.answer = "ERROR" THEN 1 ELSE 0])
    /\ UNCHANGED segment

-----------------------------------------------------------------------------
(***************************************************************************)
(* The handler of a connection, in the daemon.                             *)
(***************************************************************************)

Answered(answer) == [call EXCEPT !.pc = "answered", !.answer = answer]

\* Mutant: only ready is answered when it is done.
OnlyReadyBlocks(a) == a = "ready"

IsBlocking(a) == a \in {"missing-data", "ready"}

\* The other hooks are answered at once; what they start only logs.
HandleConnection ==
    /\ call.pc = "connected"
    /\ daemon = "listening"
    /\ Step(IF IsBlocking(call.action)
            THEN [call EXCEPT !.pc = "dispatched"]
            ELSE Answered("SUCCESS"))
    /\ UNCHANGED segment

\* Mutant: an error is logged, and neither answered nor the connection closed.
AnswerSuccessOnly == [call EXCEPT !.pc = "forgotten"]

AnswerError == Answered("ERROR")

\* handleMissingData retrieves the segment, handleReady tests zstor.
DispatchSucceeds ==
    /\ call.pc = "dispatched"
    /\ Step(Answered("SUCCESS"))
    /\ segment' = (segment \/ call.action = "missing-data")

DispatchFails ==
    /\ call.pc = "dispatched"
    /\ Step(AnswerError)
    /\ UNCHANGED segment

HookStep == Dial \/ ReadAnswer \/ HandleConnection \/ DispatchSucceeds \/ DispatchFails

FrontendNext ==
    \/ FrontendBegin
    \/ ServicesStep
    \/ FrontendReboot
    \/ DaemonListens
    \/ DaemonIsMute
    \/ Evict
    \/ \E a \in Actions : RunHook(a)
    \/ HookStep
    \/ ReturnToZdb

FrontendSpec == FrontendInit /\ [][FrontendNext]_allVars

\* The processes of a call go on; 0-db returns to its reader, who asks again
\* for a segment that did not come; a retrieval that is tried again and again
\* succeeds.
FairFrontendSpec ==
    /\ FrontendSpec
    /\ WF_allVars(HookStep)
    /\ WF_allVars(ReturnToZdb)
    /\ SF_allVars(RunHook("missing-data"))
    /\ SF_allVars(call.action = "missing-data" /\ DispatchSucceeds)

-----------------------------------------------------------------------------
TypeOK ==
    /\ ServicesTypeOK
    /\ daemon \in {"down", "starting", "listening", "mute"}
    /\ daemon = "down" <=> ~ Runs("quantumd")
    /\ segment \in BOOLEAN
    /\ call.pc \in {"none", "dial", "connected", "dispatched", "answered", "done"}
    /\ call.action \in Actions \cup {"none"}
    /\ call.answer \in {"none", "SUCCESS", "ERROR"}
    /\ call.exit \in {0, 1} /\ call.cut \in BOOLEAN

\* A hook for a missing segment that exits with 0 leaves the segment on the
\* disk, unless the daemon could not be reached or ended during the call; and
\* it exits with 1 only if the daemon tried.
HonestExit ==
    call.pc = "done" /\ call.action = "missing-data" =>
        /\ call.exit = 0 => segment \/ call.cut
        /\ call.exit = 1 => ~ call.cut

\* 0-db waits for the hook: every call comes to an end.
CallsEnd == []<>(call.pc \in {"none", "done"})

\* A segment that is read comes back again and again, or the daemon cannot be
\* reached again and again.
SegmentServed == []<>(segment \/ ~ Runs("zdb") \/ daemon # "listening")
=============================================================================
