------------------------------- MODULE Launch -------------------------------
(***************************************************************************)
(* How a target comes to run under a seccomp filter whose listener         *)
(* Faultbox holds. A binary: Launch and RunShimChild of seccomp/           *)
(* shim_linux.go, parent and child over two pipes. A container: Launch of  *)
(* container/launch.go with waitForListenerFd of fd_linux.go on the host,  *)
(* and cmd/faultbox-shim in the container, over a Unix socket.             *)
(*                                                                         *)
(* The shim runs under its own filter between installing it and the exec.  *)
(* A call of its own that the filter notifies waits for a listener that    *)
(* nobody may hold yet.                                                    *)
(***************************************************************************)
EXTENDS Naturals, Sequences, FiniteSets

CONSTANTS Setups,     \* [mode, gate, trapped]: see SetupType
          MaxFaults   \* bound: steps of a shim, or calls of Docker, that fail

Syscalls == {"read", "write", "sendmsg", "connect", "close", "execve"}

(* How the target is launched, whether BeforeExec is set and what it        *)
(* answers, and the syscalls some fault rule of the specification names.    *)
SetupType == [mode : {"binary", "container"}, gate : {"none", "grants", "refuses"},
              trapped : SUBSET Syscalls]

VARIABLES
    setup,
    child,       \* "none", "shim", "target", "dead" or "reaped"
    step,        \* the shim's next step in Script
    filter,      \* the filter is installed
    listenerFd,  \* the child's descriptor of the listener is open
    gate,        \* the permit pipe: "shut", "permit" or "closed"
    registered,  \* BeforeExec has returned without an error
    pipe,        \* the signal pipe: "empty", "fd", "zero" or "ERR"
    socket,      \* fd.sock: "absent", "listening", "dialled", "sent", "acked", "closed"
    host,        \* where Launch is
    waiter,      \* where waitForListenerFd is
    listener,    \* the host holds the listener
    containers,  \* the containers that exist: "shimmed", "plain"
    stuck,       \* Docker failed to remove a container
    ctxDone,     \* the context of the launch has ended
    result,      \* "none", "watched", "unwatched" or "failed"
    faults

childVars == <<child, step, filter, listenerFd>>
channels == <<gate, registered, pipe, socket>>
hostVars == <<host, waiter, listener, containers, stuck, result>>
vars == <<setup, childVars, channels, hostVars, ctxDone, faults>>

Binary == setup.mode = "binary"

Init ==
    /\ setup \in Setups
    /\ child = "none" /\ step = 1 /\ filter = FALSE /\ listenerFd = FALSE
    /\ gate = "shut" /\ registered = FALSE /\ pipe = "empty" /\ socket = "absent"
    /\ host = "start" /\ waiter = "none" /\ listener = FALSE /\ containers = {}
    /\ stuck = FALSE /\ ctxDone = FALSE /\ result = "none" /\ faults = 0

----------------------------------------------------------------------------
(* The filter *)

(* The descriptors InstallFilter is told to let through. *)
AllowFdForWrite == IF Binary THEN "pipe" ELSE "stderr"
AllowFdForSocket == IF Binary THEN "none" ELSE "socket"

WriteFamily == {"write"}
SocketFamily == {"read", "sendmsg"}

(* buildFilter: the calls that are notified. *)
buildFilter(call) ==
    /\ call.sys \in setup.trapped
    /\ ~(call.sys \in WriteFamily /\ call.fd = AllowFdForWrite)
    /\ ~(call.sys \in SocketFamily /\ call.fd = AllowFdForSocket)

----------------------------------------------------------------------------
(* The shim *)

(* The dial of the host's socket comes after the filter. *)
ScriptDialsLate ==
    IF Binary
    THEN (IF setup.gate = "none" THEN <<>> ELSE <<"permit">>) \o <<"resolve">>
         \o (IF setup.trapped = {} THEN <<>> ELSE <<"install">>) \o <<"signal", "close", "exec">>
    ELSE <<"resolve", "install", "dial", "log", "send", "ack", "dup", "exec">>

(* The steps of RunShimChild, and of the container shim's run. *)
Script ==
    IF Binary
    THEN (IF setup.gate = "none" THEN <<>> ELSE <<"permit">>) \o <<"resolve">>
         \o (IF setup.trapped = {} THEN <<>> ELSE <<"install">>) \o <<"signal", "close", "exec">>
    ELSE <<"resolve", "dial", "install", "log", "send", "ack", "dup", "exec">>

(* The system call of a step: the ones before the filter cannot be notified *)
(* and are left out, and so are those of the Go runtime.                    *)
CallOf(s) ==
    CASE s = "signal" -> [sys |-> "write", fd |-> "pipe"]
      [] s = "close"  -> [sys |-> "close", fd |-> "pipe"]
      [] s = "dial"   -> [sys |-> "connect", fd |-> "socket"]
      [] s = "log"    -> [sys |-> "write", fd |-> "stderr"]
      [] s = "send"   -> [sys |-> "sendmsg", fd |-> "socket"]
      [] s = "ack"    -> [sys |-> "read", fd |-> "socket"]
      [] s = "exec"   -> [sys |-> "execve", fd |-> "none"]
      [] OTHER        -> [sys |-> "other", fd |-> "none"]

At(s) == child = "shim" /\ Script[step] = s

(* The shim's next call is notified: it waits for an answer. *)
Notified == child = "shim" /\ filter /\ buildFilter(CallOf(Script[step]))

(* The session of a launch that has returned answers. *)
Answered == result = "watched"

(* What a step that succeeds does. The listener descriptor is close-on-exec;*)
(* the container shim dups it to one that is not.                           *)
Perform ==
    /\ step' = IF At("exec") THEN step ELSE step + 1
    /\ child' = IF At("exec") THEN "target" ELSE child
    /\ filter' = (filter \/ At("install"))
    /\ listenerFd' = IF At("install") THEN TRUE
                     ELSE IF At("exec") THEN listenerFd /\ ~Binary ELSE listenerFd
    /\ pipe' = IF At("signal") THEN IF filter THEN "fd" ELSE "zero" ELSE pipe
    /\ socket' = CASE At("dial") -> "dialled" [] At("send") -> "sent" [] OTHER -> socket

(* awaitExecPermit takes one permit byte; the ACK is read once it is there; *)
(* a socket nobody listens on refuses the dial.                             *)
StepCanSucceed ==
    /\ At("permit") => gate = "permit"
    /\ At("dial") => socket = "listening"
    /\ At("send") => socket = "dialled"
    /\ At("ack") => socket = "acked"

StepMustFail ==
    \/ At("permit") /\ gate = "closed"
    \/ At("dial") /\ socket \in {"absent", "closed"}
    \/ At("send") /\ socket = "closed"
    \/ At("ack") /\ socket = "closed"

ShimStep ==
    /\ child = "shim" /\ (Notified => Answered)
    /\ StepCanSucceed /\ Perform
    /\ UNCHANGED <<setup, gate, registered, hostVars, ctxDone, faults>>

(* A step fails, of itself or by a fault the session answers with. The      *)
(* binary's shim reports a missing permit and a missing target; whatever    *)
(* else goes wrong, it only exits.                                          *)
ShimFails ==
    /\ child = "shim" /\ (Notified => Answered)
    /\ ~(At("permit") /\ gate = "shut") /\ ~(At("ack") /\ socket = "sent")
    /\ IF StepMustFail THEN UNCHANGED faults ELSE faults < MaxFaults /\ faults' = faults + 1
    /\ child' = "dead" /\ listenerFd' = FALSE
    /\ pipe' = IF Binary /\ (At("permit") \/ At("resolve")) THEN "ERR" ELSE pipe
    /\ socket' = IF socket = "dialled" THEN "closed" ELSE socket
    /\ UNCHANGED <<setup, step, filter, gate, registered, hostVars, ctxDone>>

(* The shim is killed from outside, an OOM kill for one. *)
ShimKilled ==
    /\ child = "shim" /\ faults < MaxFaults
    /\ faults' = faults + 1
    /\ child' = "dead" /\ listenerFd' = FALSE
    /\ socket' = IF socket = "dialled" THEN "closed" ELSE socket
    /\ UNCHANGED <<setup, step, filter, gate, registered, pipe, hostVars, ctxDone>>

----------------------------------------------------------------------------
(* Launch of a binary *)

shimKept == <<setup, step, filter, gate, registered, pipe, socket, waiter, containers, stuck, ctxDone>>

(* Every error after the fork kills the child and waits for it. *)
FailBinary ==
    /\ child' = "reaped" /\ listenerFd' = FALSE
    /\ host' = "done" /\ result' = "failed" /\ UNCHANGED listener

Fork ==
    /\ Binary /\ host = "start"
    /\ \/ /\ child' = "shim" /\ UNCHANGED <<result, faults>>
          /\ host' = IF setup.gate = "none" THEN "read" ELSE "register"
       \/ /\ faults < MaxFaults /\ faults' = faults + 1
          /\ host' = "done" /\ result' = "failed" /\ UNCHANGED child
    /\ UNCHANGED <<shimKept, listenerFd, listener>>

(* BeforeExec: the runtime's registers the process with the connection      *)
(* tracker while the shim is held at the gate.                              *)
BeforeExec ==
    /\ host = "register"
    /\ IF setup.gate = "grants"
       THEN registered' = TRUE /\ host' = "release" /\ UNCHANGED <<child, listenerFd, listener, result>>
       ELSE FailBinary /\ UNCHANGED registered
    /\ UNCHANGED <<setup, step, filter, gate, pipe, socket, waiter, containers, stuck, ctxDone, faults>>

ReleaseGate ==
    /\ host = "release"
    /\ IF child = "shim"
       THEN gate' = "permit" /\ host' = "read" /\ UNCHANGED <<child, listenerFd, listener, result>>
       ELSE FailBinary /\ gate' = "closed"
    /\ UNCHANGED <<setup, step, filter, registered, pipe, socket, waiter, containers, stuck, ctxDone, faults>>

Returns(r) == host' = "done" /\ result' = r /\ UNCHANGED <<child, listenerFd, listener>>

(* The parent keeps its own write end: the pipe has no end of file. *)
ReadSignalOpenPipe ==
    /\ host = "read"
    /\ CASE pipe = "fd"   -> host' = "getfd" /\ UNCHANGED <<child, listenerFd, listener, result>>
         [] pipe = "zero" -> Returns("unwatched")
         [] pipe = "ERR"  -> FailBinary
         [] OTHER         -> FALSE
    /\ UNCHANGED <<shimKept, faults>>

(* One read of the signal pipe, and parseShimSignal: the listener's number, *)
(* zero, an error, or the end of file of a shim that has gone.              *)
ReadSignal ==
    /\ host = "read"
    /\ CASE pipe = "fd"   -> host' = "getfd" /\ UNCHANGED <<child, listenerFd, listener, result>>
         [] pipe = "zero" -> Returns("unwatched")
         [] pipe = "ERR"  -> FailBinary
         [] OTHER         -> child = "dead" /\ FailBinary
    /\ UNCHANGED <<shimKept, faults>>

(* A descriptor that cannot be copied passes for a target without a filter. *)
PidfdGetfdLenient ==
    /\ host = "getfd"
    /\ IF listenerFd
       THEN /\ listener' = TRUE /\ host' = "done" /\ result' = "watched"
            /\ UNCHANGED <<child, listenerFd>>
       ELSE Returns("unwatched")
    /\ UNCHANGED <<shimKept, faults>>

(* The copy of the child's descriptor: an exec or an exit has closed it. *)
PidfdGetfd ==
    /\ host = "getfd"
    /\ IF listenerFd
       THEN /\ listener' = TRUE /\ host' = "done" /\ result' = "watched"
            /\ UNCHANGED <<child, listenerFd>>
       ELSE FailBinary
    /\ UNCHANGED <<shimKept, faults>>

(* Faultbox dies: its ends of the pipes close. *)
HostDies ==
    /\ Binary /\ host \in {"register", "release", "read", "getfd"} /\ faults < MaxFaults
    /\ host' = "dead" /\ faults' = faults + 1
    /\ gate' = IF gate = "shut" THEN "closed" ELSE gate
    /\ UNCHANGED <<setup, childVars, registered, pipe, socket, waiter, listener, containers, stuck,
                   ctxDone, result>>

----------------------------------------------------------------------------
(* Launch of a container *)

(* Pull, inspect, and the goroutine that listens. Without a syscall to      *)
(* intercept there is no shim.                                              *)
Prepare ==
    /\ ~Binary /\ host = "start"
    /\ \/ IF setup.trapped = {} THEN host' = "simple" /\ UNCHANGED <<waiter, result>>
          ELSE host' = "create" /\ waiter' = "start" /\ UNCHANGED result
       \/ ctxDone /\ host' = "done" /\ result' = "failed" /\ UNCHANGED waiter
    /\ UNCHANGED <<setup, childVars, channels, listener, containers, stuck, ctxDone, faults>>

DockerFails ==
    \/ ctxDone /\ UNCHANGED faults
    \/ ~ctxDone /\ faults < MaxFaults /\ faults' = faults + 1

(* RemoveContainer, forced: the container's process goes with it. *)
Remove(which) ==
    /\ containers' = containers \ which /\ UNCHANGED stuck
    /\ child' = IF "shimmed" \in which /\ child \in {"shim", "target"} THEN "dead" ELSE child
    /\ socket' = IF "shimmed" \in which /\ child = "shim" /\ socket = "dialled" THEN "closed" ELSE socket

CreateContainer ==
    /\ host = "create"
    /\ \/ ~ctxDone /\ containers' = containers \cup {"shimmed"} /\ host' = "run" /\ UNCHANGED <<result, faults>>
       \/ DockerFails /\ host' = "done" /\ result' = "failed" /\ UNCHANGED containers
    /\ UNCHANGED <<setup, childVars, channels, waiter, listener, stuck, ctxDone>>

StartContainer ==
    /\ host = "run"
    /\ \/ /\ ~ctxDone /\ child' = "shim" /\ host' = "await"
          /\ UNCHANGED <<socket, containers, stuck, result, faults>>
       \/ /\ DockerFails /\ host' = "done" /\ result' = "failed"
          /\ \/ ~ctxDone /\ Remove({"shimmed"})
             \/ stuck' = TRUE /\ UNCHANGED <<child, socket, containers>>
    /\ UNCHANGED <<setup, step, filter, listenerFd, gate, registered, pipe, waiter, listener, ctxDone>>

(* The listener's goroutine has answered: the listener, or the fallback. *)
AwaitFd ==
    /\ host = "await"
    /\ \/ waiter = "got" /\ listener' = TRUE /\ host' = "done" /\ result' = "watched"
       \/ waiter = "failed" /\ host' = "stop" /\ UNCHANGED <<listener, result>>
    /\ UNCHANGED <<setup, childVars, channels, waiter, containers, stuck, ctxDone, faults>>

(* Stop and remove the first attempt, errors ignored. *)
StopFirstAttempt ==
    /\ host = "stop" /\ host' = "simple"
    /\ \/ ~ctxDone /\ Remove({"shimmed"}) /\ UNCHANGED faults
       \/ DockerFails /\ stuck' = TRUE /\ UNCHANGED <<child, socket, containers>>
    /\ UNCHANGED <<setup, step, filter, listenerFd, gate, registered, pipe, waiter, listener, ctxDone, result>>

(* launchSimple: whatever holds the name is removed first, errors ignored; *)
(* a container cannot be created under a name that is in use.              *)
LaunchSimple ==
    /\ host = "simple" /\ host' = "done"
    /\ \/ /\ ~ctxDone /\ result' = "unwatched" /\ UNCHANGED <<stuck, faults>>
          /\ containers' = {"plain"}
          /\ child' = IF child \in {"shim", "target"} THEN "dead" ELSE child
       \/ /\ DockerFails /\ result' = "failed"
          /\ \/ UNCHANGED <<child, containers, stuck>>
             \/ /\ ~ctxDone /\ containers' \in {{}, {"plain"}} /\ stuck' = (stuck \/ containers' # {})
                /\ child' = IF child \in {"shim", "target"} THEN "dead" ELSE child
    /\ UNCHANGED <<setup, step, filter, listenerFd, channels, waiter, listener, ctxDone>>

(* waitForListenerFd, on its own goroutine *)
Listen ==
    /\ waiter = "start"
    /\ \/ waiter' = "accept" /\ socket' = "listening" /\ UNCHANGED faults
       \/ waiter' = "failed" /\ faults < MaxFaults /\ faults' = faults + 1 /\ UNCHANGED socket
    /\ UNCHANGED <<setup, childVars, gate, registered, pipe, host, listener, containers, stuck, ctxDone, result>>

Accept ==
    /\ waiter = "accept"
    /\ \/ socket # "listening" /\ waiter' = "read" /\ UNCHANGED socket
       \/ ctxDone /\ waiter' = "failed" /\ socket' = "closed"
    /\ UNCHANGED <<setup, childVars, gate, registered, pipe, host, listener, containers, stuck, ctxDone, result, faults>>

(* The control message, and the ACK. *)
ReadMsg ==
    /\ waiter = "read" /\ socket # "dialled"
    /\ waiter' = IF socket = "sent" THEN "ack" ELSE "failed"
    /\ UNCHANGED <<setup, childVars, channels, host, listener, containers, stuck, ctxDone, result, faults>>

SendAck ==
    /\ waiter = "ack"
    /\ IF child = "shim" THEN socket' = "acked" /\ waiter' = "got"
       ELSE socket' = "closed" /\ waiter' = "failed"
    /\ UNCHANGED <<setup, childVars, gate, registered, pipe, host, listener, containers, stuck, ctxDone, result, faults>>

(* The three minutes of a test, or an interrupt. *)
ContextEnds ==
    /\ ~Binary /\ ~ctxDone /\ ctxDone' = TRUE
    /\ UNCHANGED <<setup, childVars, channels, hostVars, faults>>

Work ==
    \/ ShimStep \/ ShimFails
    \/ Fork \/ BeforeExec \/ ReleaseGate \/ ReadSignal \/ PidfdGetfd
    \/ Prepare \/ CreateContainer \/ StartContainer \/ AwaitFd \/ StopFirstAttempt \/ LaunchSimple
    \/ Listen \/ Accept \/ ReadMsg \/ SendAck \/ ContextEnds

Next == Work \/ ShimKilled \/ HostDies

(* Both sides run until nothing is left to do. *)
Spec == Init /\ [][Next]_vars /\ WF_vars(Work)

----------------------------------------------------------------------------
(* The shim never waits on its own filter before its listener has been      *)
(* handed over, whatever syscalls the fault rules name: it dials before it  *)
(* filters, and the descriptors of the handover are let through.            *)
NoSelfTrap ==
    Notified => \/ listener \/ waiter \in {"ack", "got"}
                \/ pipe = "fd" \/ socket \in {"sent", "acked"}

(* What a launch reports is so. A target reported as watched has its        *)
(* listener with the host; one reported without a listener has no filter,   *)
(* and no container of an earlier attempt beside it; after an error no      *)
(* child and no container is left, unless Docker would not remove it or the *)
(* context had ended. A gated target never runs unregistered.               *)
LaunchIsHonest ==
    /\ result = "watched" => listener
    /\ result = "unwatched" => IF Binary THEN ~filter ELSE containers = {"plain"}
    /\ result = "failed" => IF Binary THEN child \in {"none", "reaped"}
                                      ELSE containers = {} \/ ctxDone \/ stuck
    /\ Binary /\ child = "target" /\ setup.gate # "none" => registered

(* Every launch returns, unless Faultbox itself dies. *)
Ended == result # "none" \/ host = "dead"
============================================================================
