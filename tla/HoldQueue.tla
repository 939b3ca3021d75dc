------------------------------ MODULE HoldQueue ------------------------------
(***************************************************************************)
(* The queue of held syscalls of package engine (hold.go).  A notification *)
(* handler that meets a hold rule enqueues itself and blocks on its own    *)
(* one-place channel ReleaseCh; an orchestrator waits for enough held      *)
(* notifications and releases them; Close lets everybody go.               *)
(*                                                                         *)
(* Every method body runs under q.mu and is one step here, except Wait:    *)
(* it may hold the mutex across steps (owner), and its helper goroutine    *)
(* broadcasts on the condition variable WITHOUT the mutex.                 *)
(***************************************************************************)
EXTENDS Naturals, Sequences

CONSTANTS Notifs,   \* notifications, one handler goroutine each
          Waits,    \* calls of Wait
          Counts,   \* values of Wait's count parameter
          NoOne     \* q.mu is not held across a step

ASSUME CountsAssumption == Counts \subseteq Nat
ASSUME NoOneAssumption == NoOne \notin Waits

VARIABLES pending,    \* q.pending
          closed,     \* q.closed
          releaseCh,  \* ReleaseCh of each notification: at most one decision
          handler,    \* where the handler of each notification is
          cancelled,  \* the session context, which every handler selects on
          owner,      \* the Wait call that holds q.mu between steps
          wait,       \* where each Wait call is
          count,      \* its count parameter
          expired,    \* the Wait calls whose context is done
          helper      \* Wait calls whose helper goroutine is still selecting

queueVars == <<pending, closed, releaseCh>>
handlerVars == <<handler, cancelled>>
waitVars == <<owner, wait, count, expired, helper>>
vars == <<queueVars, handlerVars, waitVars>>

Decisions == {"allow", "deny"}
HandlerStates == {"arriving", "held", "allowed", "denied", "failsafe"}
WaitStates == {"idle", "locking", "checking", "parking", "parked", "ok", "ctxErr"}

TypeOK ==
  /\ pending \in Seq(Notifs)
  /\ closed \in BOOLEAN
  /\ releaseCh \in [Notifs -> Decisions \cup {"empty"}]
  /\ handler \in [Notifs -> HandlerStates]
  /\ cancelled \in BOOLEAN
  /\ owner \in Waits \cup {NoOne}
  /\ wait \in [Waits -> WaitStates]
  /\ count \in [Waits -> Counts \cup {0}]
  /\ expired \in SUBSET Waits
  /\ helper \in SUBSET Waits

Init ==
  /\ pending = <<>>
  /\ closed = FALSE
  /\ releaseCh = [h \in Notifs |-> "empty"]
  /\ handler = [h \in Notifs |-> "arriving"]
  /\ cancelled = FALSE
  /\ owner = NoOne
  /\ wait = [w \in Waits |-> "idle"]
  /\ count = [w \in Waits |-> 0]
  /\ expired = {}
  /\ helper = {}

-----------------------------------------------------------------------------
(* sync.Cond: Broadcast moves every parked waiter to the lock queue. *)
Broadcast == wait' = [w \in Waits |-> IF wait[w] = "parked" THEN "locking" ELSE wait[w]]

Unlocked == owner = NoOne

(* A send on the one-place channels of the notifications in S.  It would   *)
(* block, with q.mu held, if one of them were full.                        *)
Send(S, d) ==
  /\ \A h \in S : releaseCh[h] = "empty"
  /\ releaseCh' = [h \in Notifs |-> IF h \in S THEN d ELSE releaseCh[h]]

Held == { pending[i] : i \in DOMAIN pending }

(* The handler of h matched a hold rule and calls Enqueue. *)
EnqueueNoBroadcast(h) ==
  /\ Unlocked
  /\ handler[h] = "arriving"
  /\ handler' = [handler EXCEPT ![h] = "held"]
  /\ IF closed
       THEN Send({h}, "allow") /\ UNCHANGED pending
       ELSE pending' = Append(pending, h) /\ UNCHANGED releaseCh
  /\ UNCHANGED <<closed, cancelled, waitVars>>

EnqueueIntoClosed(h) ==
  /\ Unlocked
  /\ handler[h] = "arriving"
  /\ handler' = [handler EXCEPT ![h] = "held"]
  /\ pending' = Append(pending, h)
  /\ Broadcast
  /\ UNCHANGED <<closed, releaseCh, cancelled, owner, count, expired, helper>>

Enqueue(h) ==
  /\ Unlocked
  /\ handler[h] = "arriving"
  /\ handler' = [handler EXCEPT ![h] = "held"]
  /\ IF closed
       THEN Send({h}, "allow") /\ UNCHANGED <<pending, wait>>
       ELSE pending' = Append(pending, h) /\ Broadcast /\ UNCHANGED releaseCh
  /\ UNCHANGED <<closed, cancelled, owner, count, expired, helper>>

(* The handler's select: a decision, or the fail-safe allow on ctx.Done.   *)
(* The fail-safe leaves the notification in the queue.                     *)
HandlerReleasedAllowOnly(h) ==
  /\ handler[h] = "held"
  /\ releaseCh[h] = "allow"
  /\ handler' = [handler EXCEPT ![h] = "allowed"]
  /\ releaseCh' = [releaseCh EXCEPT ![h] = "empty"]
  /\ UNCHANGED <<pending, closed, cancelled, waitVars>>

HandlerReleased(h) ==
  /\ handler[h] = "held"
  /\ releaseCh[h] # "empty"
  /\ handler' = [handler EXCEPT ![h] = IF releaseCh[h] = "allow" THEN "allowed" ELSE "denied"]
  /\ releaseCh' = [releaseCh EXCEPT ![h] = "empty"]
  /\ UNCHANGED <<pending, closed, cancelled, waitVars>>

HandlerFailSafe(h) ==
  /\ handler[h] = "held"
  /\ cancelled
  /\ handler' = [handler EXCEPT ![h] = "failsafe"]
  /\ UNCHANGED <<queueVars, cancelled, waitVars>>

CancelSession ==
  /\ ~cancelled
  /\ cancelled' = TRUE
  /\ UNCHANGED <<queueVars, handler, waitVars>>

-----------------------------------------------------------------------------
ReleaseOne(d) ==
  /\ Unlocked
  /\ pending # <<>>
  /\ Send({Head(pending)}, d)
  /\ pending' = Tail(pending)
  /\ UNCHANGED <<closed, handlerVars, waitVars>>

ReleaseAllKeepsPending(d) ==
  /\ Unlocked
  /\ Send(Held, d)
  /\ UNCHANGED <<pending, closed, handlerVars, waitVars>>

ReleaseAll(d) ==
  /\ Unlocked
  /\ Send(Held, d)
  /\ pending' = <<>>
  /\ UNCHANGED <<closed, handlerVars, waitVars>>

(* The slice deletion append(q[:i], q[i+1:]...); index i of the code is   *)
(* position i + 1 here.                                                    *)
DeleteAt(s, k) == SubSeq(s, 1, k - 1) \o SubSeq(s, k + 1, Len(s))

ReleaseByIndex(i, d) ==
  /\ Unlocked
  /\ i + 1 \in DOMAIN pending
  /\ Send({pending[i + 1]}, d)
  /\ pending' = DeleteAt(pending, i + 1)
  /\ UNCHANGED <<closed, handlerVars, waitVars>>

Close ==
  /\ Unlocked
  /\ ~closed
  /\ closed' = TRUE
  /\ Send(Held, "allow")
  /\ pending' = <<>>
  /\ Broadcast
  /\ UNCHANGED <<handlerVars, owner, count, expired, helper>>

-----------------------------------------------------------------------------
(* Wait(c, ctx): start the helper goroutine, then take q.mu. *)
WaitCall(w, c) ==
  /\ wait[w] = "idle"
  /\ wait' = [wait EXCEPT ![w] = "locking"]
  /\ count' = [count EXCEPT ![w] = c]
  /\ helper' = helper \cup {w}
  /\ UNCHANGED <<queueVars, handlerVars, owner, expired>>

WaitLock(w) ==
  /\ wait[w] = "locking"
  /\ Unlocked
  /\ owner' = w
  /\ wait' = [wait EXCEPT ![w] = "checking"]
  /\ UNCHANGED <<queueVars, handlerVars, count, expired, helper>>

(* One evaluation of the loop condition and of the ctx.Err() it leads to. *)
WaitCheck(w) ==
  LET mustWait == Len(pending) < count[w] /\ ~closed
  IN  /\ wait[w] = "checking"
      /\ wait' = [wait EXCEPT ![w] = IF w \in expired THEN "ctxErr"
                                     ELSE IF mustWait THEN "parking" ELSE "ok"]
      /\ owner' = IF w \notin expired /\ mustWait THEN w ELSE NoOne
      /\ UNCHANGED <<queueVars, handlerVars, count, expired, helper>>

(* cond.Wait: join the waiters and give up the mutex. *)
WaitPark(w) ==
  /\ wait[w] = "parking"
  /\ wait' = [wait EXCEPT ![w] = "parked"]
  /\ owner' = NoOne
  /\ UNCHANGED <<queueVars, handlerVars, count, expired, helper>>

Returned(w) == wait[w] \in {"ok", "ctxErr"}

Expire(w) ==
  /\ wait[w] # "idle"
  /\ w \notin expired
  /\ expired' = expired \cup {w}
  /\ UNCHANGED <<queueVars, handlerVars, owner, wait, count, helper>>

(* The helper's select on ctx.Done and done; the broadcast takes no lock. *)
HelperBroadcast(w) ==
  /\ w \in helper
  /\ w \in expired
  /\ helper' = helper \ {w}
  /\ Broadcast
  /\ UNCHANGED <<queueVars, handlerVars, owner, count, expired>>

HelperDone(w) ==
  /\ w \in helper
  /\ Returned(w)
  /\ helper' = helper \ {w}
  /\ UNCHANGED <<queueVars, handlerVars, owner, wait, count, expired>>

-----------------------------------------------------------------------------
HandlerNext ==
  \/ CancelSession
  \/ \E h \in Notifs : Enqueue(h) \/ HandlerReleased(h) \/ HandlerFailSafe(h)

ReleaseNext ==
  \/ Close
  \/ \E d \in Decisions :
       \/ ReleaseOne(d)
       \/ ReleaseAll(d)
       \/ \E j \in DOMAIN pending : ReleaseByIndex(j - 1, d)

WaitStep(w) == WaitLock(w) \/ WaitCheck(w) \/ WaitPark(w)

WaitNext ==
  \E w \in Waits :
    \/ \E c \in Counts : WaitCall(w, c)
    \/ WaitStep(w)
    \/ Expire(w)
    \/ HelperBroadcast(w)
    \/ HelperDone(w)

Next == HandlerNext \/ ReleaseNext \/ WaitNext

Spec == Init /\ [][Next]_vars

(* Some goroutine that can run does run; nothing forces arrivals, releases *)
(* or cancellations.                                                       *)
GoroutineStep ==
  \/ \E h \in Notifs : HandlerReleased(h) \/ HandlerFailSafe(h)
  \/ \E w \in Waits : WaitStep(w) \/ HelperBroadcast(w) \/ HelperDone(w)

FairSpec == Spec /\ WF_vars(GoroutineStep)

-----------------------------------------------------------------------------
(* Every send in Release*, Enqueue and Close runs with q.mu held and would *)
(* freeze the whole queue if the channel were full: the queue never holds  *)
(* a notification twice nor one that has already been sent a decision.     *)
ReleaseNeverBlocks ==
  /\ \A i, j \in DOMAIN pending : pending[i] = pending[j] => i = j
  /\ \A i \in DOMAIN pending : releaseCh[pending[i]] = "empty"

(* A blocked handler can always be reached: it has a decision waiting, or  *)
(* it is in the queue, and the queue is then still open, so that Close     *)
(* will answer it (hold.go:137).                                           *)
NoOrphanedHandler ==
  \A h \in Notifs :
    handler[h] = "held" /\ releaseCh[h] = "empty" => h \in Held /\ ~closed

(* A Wait that is parked on the condition variable really has to wait: the *)
(* broadcasts of Enqueue and Close are never missed (hold.go:53, 71, 149). *)
ParkedMustWait ==
  \A w \in Waits : wait[w] = "parked" => Len(pending) < count[w] /\ ~closed

(* Closing the queue answers every held syscall and ends every Wait: this  *)
(* is so in the end, whatever else happens (hold.go:137).                  *)
FreedByClose ==
  closed => /\ \A h \in Notifs : handler[h] # "held"
            /\ \A w \in Waits : wait[w] = "idle" \/ Returned(w)

(* "Wait blocks until at least count notifications are held, or ctx is     *)
(* cancelled" (hold.go:56): a Wait whose context is done returns.          *)
CancelledWaitReturns ==
  \A w \in Waits : (w \in expired) ~> Returned(w)
=============================================================================
