------------------------------- MODULE Explore -------------------------------
(***************************************************************************)
(* parallel() in explore mode: the hold rules and hold queues of a session *)
(* (engine/session.go), the handlers that match them (launch_linux.go),    *)
(* the scheduler that releases what is held in a chosen order              *)
(* (scheduler.go) and the builtin that drives them (star/builtins.go).     *)
(*                                                                         *)
(* The queue methods are atomic here; HoldQueue has their inside.  All the *)
(* parallel() calls of a run use one tag, "explore-<perm>", so a session   *)
(* has at most one registered queue; a queue is named by the call that     *)
(* registered it.  A callable is its one syscall.                          *)
(***************************************************************************)
EXTENDS Orderings, SequencesExt

CONSTANTS Services,   \* services with a session
          Nondet,     \* those excluded by nondet(svc)
          Parallels,  \* parallel() calls of the body
          Syscalls,   \* syscalls the services make
          SvcOf,      \* the service of a syscall
          ParOf,      \* the call whose callable waits for it; NoQueue: background
          PermIndex,  \* rt.explorePerm
          NoQueue

Topology ==
  /\ Nondet \subseteq Services
  /\ NoQueue \notin Parallels
  /\ SvcOf \in [Syscalls -> Services]
  /\ ParOf \in [Syscalls -> Parallels \cup {NoQueue}]
  /\ PermIndex \in Nat

VARIABLES queueOf,    \* session.holdQueues[tag]: the registered queue
          rules,      \* session.holdRules, by the call that added them
          pending,    \* pending of the queue of a call at a service
          closed,     \* closed, likewise
          handler,    \* where each syscall's handler is
          found,      \* the queue its GetHoldQueue returned
          gaveUp,     \* syscalls whose callable has finished without them
          par,        \* where each parallel() call is
          todo,       \* services its installing or removing loop still has to visit
          sched,      \* where its scheduler goroutine is
          schedQ,     \* the queue and service the scheduler took
          snapshot,   \* what that queue held at Len() (n = Len(snapshot))
          order       \* what the scheduler has released, in order

sessionVars == <<queueOf, rules, pending, closed>>
handlerVars == <<handler, found, gaveUp>>
schedVars == <<sched, schedQ, snapshot, order>>
vars == <<sessionVars, handlerVars, par, todo, schedVars>>

Mediated == Services \ Nondet

Init ==
  /\ queueOf = [v \in Services |-> NoQueue]
  /\ rules = [v \in Services |-> {}]
  /\ pending = [p \in Parallels |-> [v \in Services |-> <<>>]]
  /\ closed = [p \in Parallels |-> [v \in Services |-> FALSE]]
  /\ handler = [s \in Syscalls |-> "idle"]
  /\ found = [s \in Syscalls |-> NoQueue]
  /\ gaveUp = {}
  /\ par = [p \in Parallels |-> "idle"]
  /\ todo = [p \in Parallels |-> {}]
  /\ sched = [p \in Parallels |-> "start"]
  /\ schedQ = [p \in Parallels |-> NoQueue]
  /\ snapshot = [p \in Parallels |-> <<>>]
  /\ order = [p \in Parallels |-> <<>>]

-----------------------------------------------------------------------------
(* The body makes its calls one after the other. *)
Call(p) ==
  /\ par[p] = "idle"
  /\ \A o \in Parallels : par[o] \in {"idle", "returned"}
  /\ par' = [par EXCEPT ![p] = "installing"]
  /\ todo' = [todo EXCEPT ![p] = Mediated]
  /\ UNCHANGED <<sessionVars, handlerVars, schedVars>>

(* RegisterHoldQueue replaces the tag's queue; AddHoldRules adds to the    *)
(* rules.  A syscall between the two sees what it would see before or      *)
(* after both.                                                             *)
InstallHoldRules(p, v) ==
  /\ par[p] = "installing"
  /\ v \in todo[p]
  /\ todo' = [todo EXCEPT ![p] = @ \ {v}]
  /\ queueOf' = [queueOf EXCEPT ![v] = p]
  /\ rules' = [rules EXCEPT ![v] = @ \cup {p}]
  /\ UNCHANGED <<pending, closed, handlerVars, par, schedVars>>

Launch(p) ==
  /\ par[p] = "installing"
  /\ todo[p] = {}
  /\ par' = [par EXCEPT ![p] = "running"]
  /\ UNCHANGED <<sessionVars, handlerVars, todo, schedVars>>

-----------------------------------------------------------------------------
(* handleNotification: the snapshot of the hold rules. *)
Issue(s) ==
  /\ handler[s] = "idle"
  /\ s \notin gaveUp
  /\ ParOf[s] # NoQueue => par[ParOf[s]] = "running"
  /\ handler' = [handler EXCEPT ![s] = IF rules[SvcOf[s]] # {} THEN "matched" ELSE "allowed"]
  /\ UNCHANGED <<sessionVars, found, gaveUp, par, todo, schedVars>>

(* GetHoldQueue(rule.HoldTag); no queue: on to the fault rules, none here. *)
Lookup(s) ==
  /\ handler[s] = "matched"
  /\ found' = [found EXCEPT ![s] = queueOf[SvcOf[s]]]
  /\ handler' = [handler EXCEPT ![s] = IF queueOf[SvcOf[s]] = NoQueue THEN "allowed" ELSE "found"]
  /\ UNCHANGED <<sessionVars, gaveUp, par, todo, schedVars>>

HoldIgnoresClosed(s) ==
  /\ handler[s] = "found"
  /\ handler' = [handler EXCEPT ![s] = "held"]
  /\ pending' = [pending EXCEPT ![found[s]][SvcOf[s]] = Append(@, s)]
  /\ UNCHANGED <<queueOf, rules, closed, found, gaveUp, par, todo, schedVars>>

(* Enqueue: a closed queue lets the syscall go at once. *)
Hold(s) ==
  /\ handler[s] = "found"
  /\ IF closed[found[s]][SvcOf[s]]
       THEN handler' = [handler EXCEPT ![s] = "allowed"] /\ UNCHANGED pending
       ELSE /\ handler' = [handler EXCEPT ![s] = "held"]
            /\ pending' = [pending EXCEPT ![found[s]][SvcOf[s]] = Append(@, s)]
  /\ UNCHANGED <<queueOf, rules, closed, found, gaveUp, par, todo, schedVars>>

(* The callable ends without this syscall: its step timed out, or never    *)
(* needed it.                                                              *)
GiveUp(s) ==
  /\ ParOf[s] # NoQueue
  /\ par[ParOf[s]] = "running"
  /\ s \notin gaveUp
  /\ handler[s] # "allowed"
  /\ gaveUp' = gaveUp \cup {s}
  /\ UNCHANGED <<sessionVars, handler, found, par, todo, schedVars>>

-----------------------------------------------------------------------------
(* The scheduler goroutine takes the queue of one of the services. *)
SchedPick(p) ==
  /\ par[p] = "running"
  /\ sched[p] = "start"
  /\ \/ \E v \in Mediated :
          /\ queueOf[v] # NoQueue
          /\ schedQ' = [schedQ EXCEPT ![p] = <<queueOf[v], v>>]
          /\ sched' = [sched EXCEPT ![p] = "wait1"]
     \/ /\ \A v \in Mediated : queueOf[v] = NoQueue
        /\ sched' = [sched EXCEPT ![p] = "done"]
        /\ UNCHANGED schedQ
  /\ UNCHANGED <<sessionVars, handlerVars, par, todo, snapshot, order>>

PendingOf(p) == pending[schedQ[p][1]][schedQ[p][2]]
ClosedOf(p) == closed[schedQ[p][1]][schedQ[p][2]]

(* q.Wait(count, ctx): the 5 second context covers both waits. *)
SchedWait(p, from, to, count) ==
  /\ sched[p] = from
  /\ Len(PendingOf(p)) >= count \/ ClosedOf(p)
  /\ sched' = [sched EXCEPT ![p] = to]
  /\ UNCHANGED <<sessionVars, handlerVars, par, todo, schedQ, snapshot, order>>

SchedTimeoutSecondOnly(p) ==
  /\ sched[p] = "waitN"
  /\ sched' = [sched EXCEPT ![p] = "done"]
  /\ UNCHANGED <<sessionVars, handlerVars, par, todo, schedQ, snapshot, order>>

SchedTimeout(p) ==
  /\ sched[p] \in {"wait1", "waitN"}
  /\ sched' = [sched EXCEPT ![p] = "done"]
  /\ UNCHANGED <<sessionVars, handlerVars, par, todo, schedQ, snapshot, order>>

(* After the 50 ms pause: n := q.Len(). *)
SchedLen(p) ==
  /\ sched[p] = "sleep"
  /\ snapshot' = [snapshot EXCEPT ![p] = PendingOf(p)]
  /\ sched' = [sched EXCEPT ![p] = IF PendingOf(p) = <<>> THEN "done" ELSE "waitN"]
  /\ UNCHANGED <<sessionVars, handlerVars, par, todo, schedQ, order>>

(* The current place (from 1) of the item originally at perm[step].        *)
CurrentIdxNoShift(perm, step) == perm[step] + 1

CurrentIdx(perm, step) ==
  perm[step] + 1 - Cardinality({ j \in 1..(step - 1) : perm[j] < perm[step] })

SchedRelease(p) ==
  LET n == Len(snapshot[p])
      step == Len(order[p]) + 1
      i == CurrentIdx(PermutationFromIndex(n, PermIndex), step)
      q == schedQ[p]
  IN  /\ sched[p] = "release"
      /\ IF i \notin DOMAIN PendingOf(p)      \* ReleaseByIndex returned false
           THEN /\ sched' = [sched EXCEPT ![p] = "done"]
                /\ UNCHANGED <<handler, order, pending>>
           ELSE /\ pending' = [pending EXCEPT ![q[1]][q[2]] = RemoveAt(@, i)]
                /\ handler' = [handler EXCEPT ![PendingOf(p)[i]] = "allowed"]
                /\ order' = [order EXCEPT ![p] = Append(@, PendingOf(p)[i])]
                /\ sched' = [sched EXCEPT ![p] = IF step = n THEN "done" ELSE @]
      /\ UNCHANGED <<queueOf, rules, closed, found, gaveUp, par, todo, schedQ, snapshot>>

-----------------------------------------------------------------------------
(* wg.Wait() and <-schedDone, then the deferred removal. *)
CallablesDone(p) ==
  \A s \in Syscalls : ParOf[s] = p => handler[s] = "allowed" \/ s \in gaveUp

Join(p) ==
  /\ par[p] = "running"
  /\ CallablesDone(p)
  /\ sched[p] = "done"
  /\ par' = [par EXCEPT ![p] = "removing"]
  /\ todo' = [todo EXCEPT ![p] = Mediated]
  /\ UNCHANGED <<sessionVars, handlerVars, schedVars>>

(* RemoveHoldRules: every rule of the tag goes, whoever added it, and the  *)
(* queue registered now is closed, which frees what it holds.              *)
RemoveHoldRules(p, v) ==
  LET q == queueOf[v]
      freed == IF q = NoQueue THEN {} ELSE ToSet(pending[q][v])
  IN  /\ par[p] = "removing"
      /\ v \in todo[p]
      /\ todo' = [todo EXCEPT ![p] = @ \ {v}]
      /\ rules' = [rules EXCEPT ![v] = {}]
      /\ queueOf' = [queueOf EXCEPT ![v] = NoQueue]
      /\ IF q = NoQueue THEN UNCHANGED <<pending, closed>>
         ELSE /\ pending' = [pending EXCEPT ![q][v] = <<>>]
              /\ closed' = [closed EXCEPT ![q][v] = TRUE]
      /\ handler' = [s \in Syscalls |-> IF s \in freed THEN "allowed" ELSE handler[s]]
      /\ UNCHANGED <<found, gaveUp, par, schedVars>>

Return(p) ==
  /\ par[p] = "removing"
  /\ todo[p] = {}
  /\ par' = [par EXCEPT ![p] = "returned"]
  /\ UNCHANGED <<sessionVars, handlerVars, todo, schedVars>>

-----------------------------------------------------------------------------
HandlerStep(s) == Lookup(s) \/ Hold(s)

SchedStep(p) ==
  \/ SchedPick(p)
  \/ SchedWait(p, "wait1", "sleep", 1)
  \/ SchedLen(p)
  \/ SchedWait(p, "waitN", "release", Len(snapshot[p]))
  \/ SchedRelease(p)
  \/ SchedTimeout(p)

ParallelStep(p) ==
  \/ \E v \in Services : InstallHoldRules(p, v) \/ RemoveHoldRules(p, v)
  \/ Launch(p) \/ Join(p) \/ Return(p)

Next ==
  \/ \E s \in Syscalls : Issue(s) \/ HandlerStep(s) \/ GiveUp(s)
  \/ \E p \in Parallels : Call(p) \/ SchedStep(p) \/ ParallelStep(p)

Spec == Init /\ [][Next]_vars

(* Some goroutine that can run does run; every step of a callable is       *)
(* bounded by the test context.  No behaviour takes infinitely many steps, *)
(* so this weak assumption is enough.                                      *)
SystemStep ==
  \/ \E s \in Syscalls : HandlerStep(s) \/ GiveUp(s)
  \/ \E p \in Parallels : SchedStep(p) \/ ParallelStep(p)

FairSpec == Spec /\ WF_vars(SystemStep)

-----------------------------------------------------------------------------
(* A held syscall sits in a queue that RemoveHoldRules will still find and *)
(* close: open, and registered under the tag (session.go:534).             *)
HeldIsReachable ==
  \A s \in Syscalls : handler[s] = "held" =>
    LET q == found[s]
    IN  /\ s \in ToSet(pending[q][SvcOf[s]])
        /\ queueOf[SvcOf[s]] = q
        /\ ~closed[q][SvcOf[s]]

(* "Release in permutation order ... we track items by snapshot position"  *)
(* (scheduler.go:28): whatever is enqueued meanwhile, the scheduler has    *)
(* released a prefix of its snapshot, in the order of the permutation, and *)
(* once it has started it stops only after the whole of it.                *)
ReleaseFollowsPermutation ==
  \A p \in Parallels :
    LET n == Len(snapshot[p])
        perm == PermutationFromIndex(n, PermIndex)
    IN  /\ IsPrefix(order[p], [i \in 1..n |-> snapshot[p][perm[i] + 1]])
        /\ sched[p] = "done" /\ order[p] # <<>> => Len(order[p]) = n

(* What is held can be released, and is released in order. *)
ExplorationIsExact == HeldIsReachable /\ ReleaseFollowsPermutation

(* Every parallel() call returns in the end, and nothing stays held once   *)
(* the calls that could hold it are over.                                  *)
Settled ==
  /\ \A p \in Parallels : par[p] \in {"idle", "returned"}
  /\ \A s \in Syscalls : handler[s] # "held"
=============================================================================
