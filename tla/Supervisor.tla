----------------------------- MODULE Supervisor -----------------------------
(***************************************************************************)
(* One engine session and the process it supervises (Session.launch of     *)
(* engine/launch_linux.go, launchExternal of launch_container_linux.go):   *)
(* the target with its seccomp filter, the notification loop and the       *)
(* goroutine it starts per notification, the goroutine that terminates the *)
(* target, the one that waits for it, and the launch itself, which shuts   *)
(* them down.                                                              *)
(***************************************************************************)
EXTENDS Naturals, FiniteSets

CONSTANTS Calls,      \* the intercepted syscalls the target makes
          Modes       \* {"binary", "external"} or one of them

SupervisorConstants == Modes \subseteq {"binary", "external"}

VARIABLES
    mode,             \* who started the target: the session or a container
    target,           \* "running" or "dead" (a zombie is dead)
    sigkill,          \* SIGKILL was sent
    call,             \* the kernel's view of each syscall
    handler,          \* the goroutine of each notification
    loop,             \* the notification goroutine
    why,              \* what made notificationLoop return
    term,             \* the termination goroutine
    waitDone, ctxDone, stopNotif, fdOpen,
    main,             \* the launch
    supervisorFailed  \* Session.supervisorFailed

vars == <<mode, target, sigkill, call, handler, loop, why, term, waitDone,
          ctxDone, stopNotif, fdOpen, main, supervisorFailed>>
process == <<target, sigkill, call>>
launchVars == <<term, waitDone, stopNotif, fdOpen, main>>

Init ==
    /\ mode \in Modes
    /\ target = "running" /\ sigkill = FALSE
    /\ call = [c \in Calls |-> "idle"]
    /\ handler = [c \in Calls |-> "none"]
    /\ loop = "polling" /\ why = "none"
    /\ term = IF mode = "binary" THEN "watching" ELSE "done"
    /\ waitDone = FALSE /\ ctxDone = FALSE /\ stopNotif = FALSE /\ fdOpen = TRUE
    /\ main = "waiting"
    /\ supervisorFailed = FALSE

----------------------------------------------------------------------------
(* The target and the kernel *)

(* An intercepted syscall waits for an answer as long as the listener is    *)
(* open; without a listener the kernel fails it at once.                    *)
TargetCall(c) ==
    /\ target = "running" /\ ~sigkill /\ call[c] = "idle"
    /\ call' = [call EXCEPT ![c] = IF fdOpen THEN "pending" ELSE "answered"]
    /\ UNCHANGED <<mode, target, sigkill, handler, loop, why, launchVars, ctxDone,
                   supervisorFailed>>

(* A signal interrupts a waiting syscall: its notification is discarded. *)
Interrupted(c) ==
    /\ call[c] \in {"pending", "received"}
    /\ call' = [call EXCEPT ![c] = "dropped"]
    /\ UNCHANGED <<mode, target, sigkill, handler, loop, why, launchVars, ctxDone,
                   supervisorFailed>>

(* The process ends, by itself or because of a signal. *)
TargetExit ==
    /\ target = "running" /\ target' = "dead"
    /\ call' = [c \in Calls |->
                  IF call[c] \in {"pending", "received"} THEN "dropped" ELSE call[c]]
    /\ UNCHANGED <<mode, sigkill, handler, loop, why, launchVars, ctxDone, supervisorFailed>>

----------------------------------------------------------------------------
(* The notification loop *)

(* The loop returns: the deferred wg.Wait comes next. *)
LoopReturns(w) ==
    /\ loop' = "draining" /\ why' = w
    /\ UNCHANGED <<mode, process, handler, launchVars, ctxDone, supervisorFailed>>

LoopAsked ==
    /\ loop = "polling" /\ (ctxDone \/ stopNotif)
    /\ LoopReturns(IF ctxDone THEN "ctx" ELSE "stop")

(* POLLHUP once the target is gone, POLLNVAL or EBADF once the fd is. *)
LoopClosed ==
    /\ loop = "polling" /\ (target = "dead" \/ ~fdOpen)
    /\ LoopReturns("closed")

(* Any other error of Poll or Receive. *)
LoopFails ==
    /\ loop = "polling" /\ target = "running" /\ fdOpen
    /\ LoopReturns("error")

(* A received notification gets a goroutine of its own, which may answer at *)
(* once, sleep out a delay rule, or park in a hold queue.  Teardown may     *)
(* begin between the loop's look at its channels and Receive.               *)
Receive(c) ==
    /\ loop = "polling"
    /\ call[c] = "pending" /\ fdOpen
    /\ call' = [call EXCEPT ![c] = "received"]
    /\ \E h \in {"quick", "delayed", "held"} : handler' = [handler EXCEPT ![c] = h]
    /\ UNCHANGED <<mode, target, sigkill, loop, why, launchVars, ctxDone, supervisorFailed>>

(* ENOENT: count the discarded notification and keep supervising. *)
ReceiveDropped(c) ==
    /\ loop = "polling" /\ fdOpen
    /\ call[c] = "dropped" /\ handler[c] = "none"
    /\ handler' = [handler EXCEPT ![c] = "done"]
    /\ UNCHANGED <<mode, process, loop, why, launchVars, ctxDone, supervisorFailed>>

(* The handler responds; the response to a discarded notification is lost. *)
Respond(c) ==
    /\ handler' = [handler EXCEPT ![c] = "done"]
    /\ call' = [call EXCEPT ![c] = IF @ = "received" THEN "answered" ELSE @]
    /\ UNCHANGED <<mode, target, sigkill, loop, why, launchVars, ctxDone, supervisorFailed>>

HandlerAnswers(c) == handler[c] \in {"quick", "delayed"} /\ Respond(c)
HoldReleased(c) == handler[c] = "held" /\ Respond(c)

(* A held handler that only waits for its release. *)
HoldShutdownNever(c) == FALSE

HoldShutdown(c) == handler[c] = "held" /\ ctxDone /\ Respond(c)

InFlight == {c \in Calls : handler[c] \in {"quick", "delayed", "held"}}

(* A goroutine that takes every return of the loop for a clean one. *)
LoopDrainedTrusting ==
    /\ loop = "draining" /\ InFlight = {} /\ loop' = "ended"
    /\ UNCHANGED <<mode, process, handler, why, launchVars, ctxDone, supervisorFailed>>

LoopDrained ==
    /\ loop = "draining" /\ InFlight = {}
    /\ loop' = IF ctxDone \/ stopNotif THEN "ended" ELSE "grace"
    /\ UNCHANGED <<mode, process, handler, why, launchVars, ctxDone, supervisorFailed>>

(* checkSupervisorExit polls for three seconds: the target gone or teardown *)
(* begun ends it; a target that is still there at the last look is noted.   *)
GraceOver ==
    /\ loop = "grace" /\ (target = "dead" \/ ctxDone \/ stopNotif)
    /\ loop' = "ended"
    /\ UNCHANGED <<mode, process, handler, why, launchVars, ctxDone, supervisorFailed>>

(* A last look that does not see a zombie as dead. *)
GraceExpiresZombie ==
    /\ loop = "grace" /\ ~ctxDone /\ ~stopNotif
    /\ loop' = "noting"
    /\ UNCHANGED <<mode, process, handler, why, launchVars, ctxDone, supervisorFailed>>

GraceExpires ==
    /\ loop = "grace" /\ target = "running" /\ ~ctxDone /\ ~stopNotif
    /\ loop' = "noting"
    /\ UNCHANGED <<mode, process, handler, why, launchVars, ctxDone, supervisorFailed>>

NoteSupervisorExit ==
    /\ loop = "noting" /\ loop' = "ended"
    /\ supervisorFailed' = TRUE
    /\ UNCHANGED <<mode, process, handler, why, launchVars, ctxDone>>

----------------------------------------------------------------------------
(* Teardown *)

(* The test ends and the runner cancels the session. *)
EndTest ==
    /\ ~ctxDone /\ ctxDone' = TRUE
    /\ UNCHANGED <<mode, process, handler, loop, why, launchVars, supervisorFailed>>

(* The termination goroutine: SIGTERM, or SIGKILL at once for a namespace   *)
(* init without a handler; SIGKILL two seconds later.                       *)
Terminate ==
    /\ term = "watching" /\ ctxDone /\ ~waitDone
    /\ \/ term' = "termed" /\ UNCHANGED sigkill
       \/ term' = "done" /\ sigkill' = TRUE
    /\ UNCHANGED <<mode, target, call, handler, loop, why, waitDone, ctxDone, stopNotif,
                   fdOpen, main, supervisorFailed>>

KillAfterGrace ==
    /\ term = "termed" /\ term' = "done" /\ sigkill' = TRUE
    /\ UNCHANGED <<mode, target, call, handler, loop, why, waitDone, ctxDone, stopNotif,
                   fdOpen, main, supervisorFailed>>

TerminationOver ==
    /\ term \in {"watching", "termed"} /\ waitDone /\ term' = "done"
    /\ UNCHANGED <<mode, process, handler, loop, why, waitDone, ctxDone, stopNotif,
                   fdOpen, main, supervisorFailed>>

(* The waiter reaps the child, or in external mode gives up when the        *)
(* context is done.                                                         *)
Wait ==
    /\ ~waitDone /\ waitDone' = TRUE
    /\ target = "dead" \/ (mode = "external" /\ ctxDone)
    /\ UNCHANGED <<mode, process, handler, loop, why, term, ctxDone, stopNotif, fdOpen,
                   main, supervisorFailed>>

(* The launch stops the loop and closes the listener: after the process     *)
(* and the termination goroutine are done, or, for an external target, as   *)
(* soon as any of its three channels is ready.                              *)
Shutdown ==
    /\ main = "waiting" /\ main' = "closing"
    /\ IF mode = "binary" THEN waitDone /\ term = "done"
       ELSE waitDone \/ loop = "ended" \/ ctxDone
    /\ stopNotif' = TRUE /\ fdOpen' = FALSE
    /\ call' = [c \in Calls |-> IF call[c] \in {"pending", "received"} THEN "answered" ELSE call[c]]
    /\ UNCHANGED <<mode, target, sigkill, handler, loop, why, term, waitDone, ctxDone,
                   supervisorFailed>>

(* A launch that returns without waiting for the loop. *)
ReturnEarly ==
    /\ main = "closing" /\ waitDone /\ main' = "returned"
    /\ UNCHANGED <<mode, process, handler, loop, why, term, waitDone, ctxDone, stopNotif,
                   fdOpen, supervisorFailed>>

Return ==
    /\ main = "closing" /\ waitDone /\ loop = "ended" /\ main' = "returned"
    /\ UNCHANGED <<mode, process, handler, loop, why, term, waitDone, ctxDone, stopNotif,
                   fdOpen, supervisorFailed>>

TargetNext == TargetExit \/ \E c \in Calls : TargetCall(c) \/ Interrupted(c)

HandlerNext ==
    \E c \in Calls : HandlerAnswers(c) \/ HoldReleased(c) \/ HoldShutdown(c)

LoopNext ==
    \/ LoopAsked \/ LoopClosed \/ LoopFails \/ LoopDrained
    \/ GraceOver \/ GraceExpires \/ NoteSupervisorExit
    \/ \E c \in Calls : Receive(c) \/ ReceiveDropped(c)

LaunchNext ==
    \/ Terminate \/ KillAfterGrace \/ TerminationOver \/ Wait \/ Shutdown \/ Return

Finished == main = "returned" /\ UNCHANGED vars

Next == TargetNext \/ HandlerNext \/ LoopNext \/ EndTest \/ LaunchNext \/ Finished

Spec == Init /\ [][Next]_vars

(* Goroutines run and timers fire; the kernel acts on SIGKILL; a held call  *)
(* is released only by the context; the target and the test owe nothing.    *)
LoopSteps ==
    \/ LoopAsked \/ LoopClosed \/ LoopDrained \/ GraceOver \/ GraceExpires
    \/ NoteSupervisorExit \/ \E c \in Calls : Receive(c) \/ ReceiveDropped(c)

RuntimeStep ==
    \/ LoopSteps \/ LaunchNext \/ (sigkill /\ TargetExit)
    \/ \E c \in Calls : HandlerAnswers(c) \/ HoldShutdown(c)

FairSpec == Spec /\ WF_vars(RuntimeStep)

----------------------------------------------------------------------------
TypeOK ==
    /\ mode \in Modes
    /\ target \in {"running", "dead"}
    /\ call \in [Calls -> {"idle", "pending", "received", "answered", "dropped"}]
    /\ handler \in [Calls -> {"none", "quick", "delayed", "held", "done"}]
    /\ loop \in {"polling", "draining", "grace", "noting", "ended"}
    /\ why \in {"none", "ctx", "stop", "closed", "error"}
    /\ term \in {"watching", "termed", "done"}
    /\ main \in {"waiting", "closing", "returned"}
    /\ sigkill \in BOOLEAN /\ waitDone \in BOOLEAN /\ ctxDone \in BOOLEAN
    /\ stopNotif \in BOOLEAN /\ fdOpen \in BOOLEAN /\ supervisorFailed \in BOOLEAN
    /\ (why = "none") <=> (loop = "polling")

(* When a session is over nothing of it is left: no handler that could      *)
(* still emit an event or answer on a closed descriptor, no loop, and, for  *)
(* a target the session started, no process (launch_linux.go 277-285).      *)
NothingOutlivesSession ==
    main = "returned" =>
        /\ InFlight = {} /\ loop = "ended" /\ ~fdOpen
        /\ mode = "binary" => target = "dead" /\ term = "done"

(* Only a loop that really broke is reported: neither a target that exited  *)
(* first, nor a discarded notification, nor teardown makes a run an error   *)
(* (checkSupervisorExit, isClosedFdErr, isDroppedNotifErr).  And no loop    *)
(* takes the target for gone while it runs under an open listener.          *)
OnlyBrokenLoopsReported ==
    /\ supervisorFailed => why = "error"
    /\ why = "closed" => target = "dead" \/ ~fdOpen

(* What a session leaves and reports is so. *)
SessionIsHonest == NothingOutlivesSession /\ OnlyBrokenLoopsReported

(* A cancelled session ends, whatever is held, delayed or ignored.          *)
CancelledSessionEnds == ctxDone => main = "returned"

(* A loop that broke under a running target is noticed, unless the target   *)
(* or the test ends first, or a handler is still parked in a hold queue:    *)
(* the loop's deferred wg.Wait comes before the look at the target.         *)
BrokenLoopNoticed ==
    why = "error" => \/ supervisorFailed \/ ctxDone \/ target = "dead"
                     \/ \E c \in Calls : handler[c] = "held"

(* What a session comes to, in the end. *)
SessionSettles == CancelledSessionEnds /\ BrokenLoopNoticed
=============================================================================
