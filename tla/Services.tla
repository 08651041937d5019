------------------------------ MODULE Services ------------------------------
(***************************************************************************)
(* The four services of a frontend, the commands of quantumd that set them *)
(* up, start, stop and remove them (cmd/setup.go, start.go, stop.go,       *)
(* uninstall.go, internal/service/service.go), and what systemd does with  *)
(* them meanwhile.                                                         *)
(*                                                                         *)
(* A command is a list of steps.  Between two of them a service may end,   *)
(* systemd restarts it and starts whatever it wants, and a step may fail.  *)
(***************************************************************************)
EXTENDS Naturals, Sequences, SequencesExt

CONSTANTS
    Operations,     \* bound: the commands that are given
    MaxFailures     \* bound: how many steps of a command fail

\* In the order of internal/service/service.go and of cmd/setup.go.
ManagedServices == <<"zdb", "zstor", "zdbfs", "quantumd">>

\* Mutant: the daemon that 0-db calls is stopped before 0-db.
DaemonFirst == <<"quantumd", "zdb", "zstor", "zdbfs">>

\* Mutant: a service is forgotten.
WithoutZdbfs == <<"zdb", "zstor", "quantumd">>

\* Mutant: setup starts a local backend, for which it writes no unit.
WithLocalBackend == ManagedServices \o <<"zdb-back1">>

StartOrder == ManagedServices
StopOrder == ManagedServices
UninstallOrder == ManagedServices

Service == {"zdb", "zstor", "zdbfs", "quantumd"}

\* Wants= of the unit files.
Wants(s) ==
    CASE s = "zdb" -> {"zstor", "quantumd"}
      [] s = "zdbfs" -> {"zstor"}
      [] OTHER -> {}

ASSUME ServicesAssumption ==
    /\ Operations \subseteq
          {"setup", "start", "start-all", "stop", "stop-all", "uninstall"}
    /\ MaxFailures \in Nat

VARIABLES
    unit,           \* the services that have a unit file
    enabled,        \* those that are started at boot
    state,          \* of each service: stopped, running, or waiting for its restart
    binaries,       \* what setup put in /usr/local/bin, whole
    cmd             \* the command in progress, or the last one

vars == <<unit, enabled, state, binaries, cmd>>

\* The programs and the decoder of metadata; quantumd itself is there.
Downloads == {"programs", "decoder"}

\* And the link by which 0-db calls the hook.
Installed == Downloads \cup {"hook"}

\* A step names the service it is about; "all" when it is about none.
Steps ==
    {"prepare", "write", "reload", "enable", "start", "is-active", "stop", "exists",
     "disable", "disable-again", "remove", "remove-binaries"}
    \X (Service \cup {"all"})

NoCommand ==
    [op |-> "none", todo |-> <<>>, failures |-> 0, aborted |-> FALSE,
     disturbed |-> FALSE, orphans |-> FALSE]

Init ==
    /\ unit = {}
    /\ enabled = {}
    /\ state = [s \in Service |-> "stopped"]
    /\ binaries = {}
    /\ cmd = NoCommand

-----------------------------------------------------------------------------
(***************************************************************************)
(* systemd.                                                                *)
(***************************************************************************)

\* The start of a service starts those it wants, if they have a unit.
Started(S) ==
    [s \in Service |->
        IF s \in S \/ (s \in unit /\ \E t \in S : s \in Wants(t))
        THEN "running" ELSE state[s]]

Disturbed == [cmd EXCEPT !.disturbed = TRUE]

\* A service ends by itself.  Every unit has Restart=always.
ServiceEnds(s) ==
    /\ state[s] = "running"
    /\ state' = [state EXCEPT ![s] = "waiting"]
    /\ cmd' = Disturbed
    /\ UNCHANGED <<unit, enabled, binaries>>

AutoRestart(s) ==
    /\ state[s] = "waiting"
    /\ state' = Started({s})
    /\ cmd' = Disturbed
    /\ UNCHANGED <<unit, enabled, binaries>>

\* The machine boots: a command in progress is gone.
Reboot ==
    /\ state' = [s \in Service |->
                    IF s \in unit /\ \E t \in enabled \cap unit : s \in {t} \cup Wants(t)
                    THEN "running" ELSE "stopped"]
    /\ cmd' = NoCommand
    /\ UNCHANGED <<unit, enabled, binaries>>

-----------------------------------------------------------------------------
(***************************************************************************)
(* The commands.                                                           *)
(***************************************************************************)

ForEach(order, steps) ==
    FlattenSeq([i \in 1..Len(order) |->
                   [j \in 1..Len(steps) |-> <<steps[j], order[i]>>]])

Program(op, s) ==
    CASE op = "setup" ->
            << <<"prepare", "all">> >> \o ForEach(ManagedServices, <<"write">>)
            \o << <<"reload", "all">> >> \o ForEach(StartOrder, <<"enable", "start">>)
      [] op = "start" -> << <<"start", s>> >>
      [] op = "start-all" -> ForEach(StartOrder, <<"start">>)
      [] op = "stop" -> << <<"is-active", s>> >>
      [] op = "stop-all" -> ForEach(StopOrder, <<"is-active">>)
      [] op = "uninstall" ->
            ForEach(UninstallOrder, <<"exists">>) \o << <<"reload", "all">> >>
            \o ForEach(UninstallOrder, <<"remove">>) \o << <<"remove-binaries", "all">> >>

Begin(op, s) ==
    /\ cmd.todo = <<>>
    /\ cmd' = [NoCommand EXCEPT
                 !.op = op,
                 !.todo = Program(op, s),
                 !.disturbed = \E t \in Service : state[t] = "waiting",
                 !.orphans = \E t \in Service \ unit : t \in enabled \/ state[t] # "stopped"]
    /\ UNCHANGED <<unit, enabled, state, binaries>>

At(step, s) == cmd.todo # <<>> /\ Head(cmd.todo) = <<step, s>>

\* The step is done, and followed by those.
Then(steps) == cmd' = [cmd EXCEPT !.todo = steps \o Tail(@)]

\* Mutant: setup goes on whatever fails.
EndsNothing(op, step) == FALSE

\* Setup ends with an error if a step fails, unless that step is to enable a
\* service, for which it prints a warning, as the other commands do.
EndsCommand(op, step) == op = "setup" /\ step # "enable"

Failed(step) ==
    cmd' = IF EndsCommand(cmd.op, step)
           THEN [cmd EXCEPT !.todo = <<>>, !.failures = @ + 1, !.aborted = TRUE]
           ELSE [cmd EXCEPT !.todo = Tail(@), !.failures = @ + 1]

Fails(step) == cmd.failures < MaxFailures /\ Failed(step)

\* What may be there when the preparation failed.  A download may be new, or
\* have truncated the program it was to replace; the link comes after them, may
\* have been removed to be made again, and directories come after the link.
PartlyPrepared ==
    {S \in SUBSET Installed :
        ("hook" \in S) # ("hook" \in binaries) => Downloads \subseteq S}

\* The configuration, the downloads, the link to the hook and the directories.
Prepare ==
    /\ At("prepare", "all")
    /\ \/ binaries' = binaries \cup Installed /\ Then(<<>>)
       \/ binaries' \in PartlyPrepared /\ Fails("prepare")
    /\ UNCHANGED <<unit, enabled, state>>

\* CreateServiceFiles, for one service.
WriteUnit(s) ==
    /\ At("write", s)
    /\ \/ unit' = unit \cup {s} /\ Then(<<>>)
       \/ unit' = unit /\ Fails("write")
    /\ UNCHANGED <<enabled, state, binaries>>

DaemonReload ==
    /\ At("reload", "all")
    /\ Then(<<>>) \/ Fails("reload")
    /\ UNCHANGED <<unit, enabled, state, binaries>>

\* systemctl enable --now
EnableService(s) ==
    /\ At("enable", s)
    /\ \/ s \in unit /\ enabled' = enabled \cup {s} /\ state' = Started({s}) /\ Then(<<>>)
       \/ s \in unit /\ enabled' = enabled \cup {s} /\ UNCHANGED state /\ Fails("enable")
       \/ UNCHANGED <<enabled, state>> /\ Fails("enable")
    /\ UNCHANGED <<unit, binaries>>

StartService(s) ==
    /\ At("start", s)
    /\ \/ s \in unit /\ state' = Started({s}) /\ Then(<<>>)
       \/ s \in unit /\ UNCHANGED state /\ Fails("start")
       \/ s \notin unit /\ UNCHANGED state /\ Failed("start")
    /\ UNCHANGED <<unit, enabled, binaries>>

\* systemctl is-active says "activating" of a service that waits for its
\* restart, and no.
ServiceIsRunning(s) == state[s] = "running"

\* StopServiceByName tests whether there is something to stop.
TestActive(s) ==
    /\ At("is-active", s)
    /\ \/ ServiceIsRunning(s) /\ Then(<< <<"stop", s>> >>)
       \/ ~ ServiceIsRunning(s) /\ Then(<<>>)
       \/ Fails("is-active")
    /\ UNCHANGED <<unit, enabled, state, binaries>>

StopService(s) ==
    /\ At("stop", s)
    /\ \/ state' = [state EXCEPT ![s] = "stopped"] /\ Then(<<>>)
       \/ UNCHANGED state /\ Fails("stop")
    /\ UNCHANGED <<unit, enabled, binaries>>

\* Uninstall stops a service that has a unit file, whether it runs or not.
TestExists(s) ==
    /\ At("exists", s)
    /\ Then(IF s \in unit THEN << <<"stop", s>>, <<"disable", s>> >> ELSE <<>>)
    /\ UNCHANGED <<unit, enabled, state, binaries>>

\* It tries twice to disable it.
DisableService(s) ==
    /\ At("disable", s) \/ At("disable-again", s)
    /\ \/ enabled' = enabled \ {s} /\ Then(<<>>)
       \/ UNCHANGED enabled /\ At("disable", s) /\ Then(<< <<"disable-again", s>> >>)
       \/ UNCHANGED enabled /\ At("disable-again", s) /\ Fails("disable")
    /\ UNCHANGED <<unit, state, binaries>>

RemoveUnit(s) ==
    /\ At("remove", s)
    /\ \/ unit' = unit \ {s} /\ Then(<<>>)
       \/ s \in unit /\ UNCHANGED unit /\ Fails("remove")
    /\ UNCHANGED <<enabled, state, binaries>>

\* The decoder of metadata stays.
RemoveBinaries ==
    /\ At("remove-binaries", "all")
    /\ \/ binaries' = binaries \cap {"decoder"} /\ Then(<<>>)
       \/ /\ \E b \in binaries \ {"decoder"} : binaries' = binaries \cap {"decoder", b}
          /\ Fails("remove-binaries")
    /\ UNCHANGED <<unit, enabled, state>>

Execute ==
    \/ Prepare
    \/ DaemonReload
    \/ RemoveBinaries
    \/ \E s \in Service :
          \/ WriteUnit(s) \/ EnableService(s) \/ StartService(s) \/ TestActive(s)
          \/ StopService(s) \/ TestExists(s) \/ DisableService(s) \/ RemoveUnit(s)

Systemd == \E s \in Service : ServiceEnds(s) \/ AutoRestart(s)

Next ==
    \/ \E op \in Operations, s \in Service : Begin(op, s)
    \/ Execute
    \/ Systemd
    \/ Reboot

Spec == Init /\ [][Next]_vars

-----------------------------------------------------------------------------
Complete(op) == cmd.op = op /\ cmd.todo = <<>> /\ ~ cmd.aborted

ServicesTypeOK ==
    /\ unit \subseteq Service /\ enabled \subseteq Service
    /\ state \in [Service -> {"stopped", "running", "waiting"}]
    /\ binaries \subseteq Installed
    /\ cmd \in [op : Operations \cup {"none"}, todo : Seq(Steps),
                failures : 0..(MaxFailures + Len(ManagedServices)),
                aborted : BOOLEAN, disturbed : BOOLEAN, orphans : BOOLEAN]

\* After a setup that says it completed every service runs or is about to be
\* restarted, and all that it did not warn about start at boot.
SetupComplete ==
    Complete("setup") =>
        /\ unit = Service /\ binaries = Installed
        /\ \A s \in Service : state[s] # "stopped"
        /\ cmd.failures = 0 => enabled = Service

\* After a stop of all services that reported no failure all are stopped, if
\* none was waiting for its restart and none ended by itself meanwhile.
StopComplete ==
    Complete("stop-all") /\ cmd.failures = 0 /\ ~ cmd.disturbed =>
        \A s \in Service : state[s] = "stopped"

\* After an uninstallation that reported no failure nothing of the services is
\* left, whatever ended meanwhile, unless an earlier one left services without
\* their units.  The help text of the command promises more: that all services
\* are stopped and all binaries deleted.  But zstor may run, when zdbfs ended
\* after zstor was stopped and its restart started zstor again, and the decoder
\* always stays.
UninstallComplete ==
    Complete("uninstall") /\ cmd.failures = 0 /\ ~ cmd.orphans =>
        /\ unit = {} /\ enabled = {}
        /\ \A s \in Service :
              state[s] = "stopped" \/ (s = "zstor" /\ cmd.disturbed)
        /\ binaries \subseteq {"decoder"}

(***************************************************************************)
(* What these rest on: whatever a command still owes is among the steps    *)
(* that are left.                                                          *)
(***************************************************************************)

Left == ToSet(cmd.todo)

Kinds(op) ==
    IF op = "setup" THEN {"prepare", "write", "reload", "enable", "start"}
    ELSE IF op \in {"start", "start-all"} THEN {"start"}
    ELSE IF op \in {"stop", "stop-all"} THEN {"is-active", "stop"}
    ELSE IF op = "uninstall"
         THEN {"exists", "stop", "disable", "disable-again", "reload", "remove",
               "remove-binaries"}
    ELSE {}

\* The steps that are left are of the command; only a service without a unit
\* makes more of them fail than may fail.
CommandFits ==
    /\ Left \subseteq Kinds(cmd.op) \X (Service \cup {"all"})
    /\ cmd.aborted => cmd.todo = <<>>
    /\ IF cmd.op \in {"start", "start-all"}
       THEN cmd.failures + Len(cmd.todo) <= MaxFailures + Len(ManagedServices)
       ELSE cmd.failures <= MaxFailures + (IF cmd.aborted THEN 1 ELSE 0)

SetupProgress ==
    cmd.op = "setup" /\ ~ cmd.aborted =>
        /\ binaries = Installed \/ <<"prepare", "all">> \in Left
        /\ \A s \in Service :
              /\ s \in unit \/ <<"write", s>> \in Left
              /\ state[s] # "stopped" \/ <<"start", s>> \in Left
              /\ cmd.failures = 0 => s \in enabled \/ <<"enable", s>> \in Left

\* Nothing waits for its restart while the command is not disturbed.
StopProgress ==
    cmd.op = "stop-all" /\ ~ cmd.disturbed =>
        \A s \in Service :
            /\ state[s] # "waiting"
            /\ cmd.failures = 0 /\ state[s] = "running" =>
                  {<<"is-active", s>>, <<"stop", s>>} \cap Left # {}

\* No step of A comes after one of B.
Before(A, B, todo) ==
    \A i, j \in 1..Len(todo) : i < j /\ todo[i] \in B => todo[j] \notin A

Stops(s) == {<<"exists", s>>, <<"stop", s>>}
Disables(s) == {<<"exists", s>>, <<"disable", s>>, <<"disable-again", s>>}
Dismantles == UNION {Stops(s) \cup Disables(s) : s \in Service}
Removes == {"remove"} \X Service

\* The unit files go when all services are stopped and disabled, and zdb,
\* which wants quantumd, is stopped before it.
UninstallOrdered ==
    cmd.op = "uninstall" =>
        /\ Before(Dismantles, Removes, cmd.todo)
        /\ Before(Stops("zdb"), {<<"exists", "quantumd">>}, cmd.todo)

UninstallProgress ==
    cmd.op = "uninstall" /\ cmd.failures = 0 /\ ~ cmd.orphans =>
        /\ binaries \subseteq {"decoder"} \/ <<"remove-binaries", "all">> \in Left
        /\ Stops("zdb") \cap Left # {} => <<"exists", "quantumd">> \in Left
        /\ \A s \in Service :
              /\ s \in unit => <<"remove", s>> \in Left
              /\ s \in enabled => Disables(s) \cap Left # {}
              /\ state[s] # "stopped" =>
                    Stops(s) \cap Left # {} \/ (s = "zstor" /\ cmd.disturbed)
              /\ s \notin unit /\ <<"exists", s>> \in Left =>
                    s \notin enabled /\ state[s] = "stopped"

ServicesInv ==
    /\ ServicesTypeOK
    /\ CommandFits
    /\ SetupProgress
    /\ StopProgress
    /\ UninstallOrdered
    /\ UninstallProgress
=============================================================================
