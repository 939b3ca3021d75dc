--------------------------- MODULE EventLogProofs ---------------------------
(***************************************************************************)
(* The vector clocks of the event log never contradict its order and answer *)
(* exactly the causality of the run, for any set of services and steps and  *)
(* any bounds; and await_event misses no event of the log.                  *)
(***************************************************************************)
EXTENDS EventLog, TLAPS

(* Nobody knows more of a service's events than the service itself. *)
OwnClockLeads ==
    \A s, k \in Services : clocks[s][k] <= clocks[k][k]

(* Neither does a logged clock. *)
LoggedBelow ==
    \A i \in DOMAIN log : \A k \in Services : log[i].vc[k] <= clocks[k][k]

(* An event of a service is ahead of every earlier event in that service's  *)
(* own entry.                                                               *)
OwnEntryGrows ==
    \A i, j \in DOMAIN log :
        i < j /\ log[j].svc \in Services =>
            log[i].vc[log[j].svc] < log[j].vc[log[j].svc]

IInv == TypeOK /\ OwnClockLeads /\ LoggedBelow /\ OwnEntryGrows

(* The core of the invariant only reads the log and the clocks. *)
LEMMA CoreStutter ==
    ASSUME IInv, UNCHANGED <<log, clocks>>, TypeOK'
    PROVE  IInv'
BY DEF IInv, OwnClockLeads, LoggedBelow, OwnEntryGrows

(* emit: the new event's clock leads in its own entry and is bounded in the *)
(* others.                                                                  *)
LEMMA EmitKeeps ==
    ASSUME IInv, TypeOK', NEW s \in Services, NEW type, NEW cause, Emit(s, type, cause)
    PROVE  IInv'
<1> DEFINE ev == [svc |-> s, type |-> type, vc |-> Tick(s), cause |-> cause, past |-> past[s]]
<1>1. log \in Seq(EventType) /\ clocks \in [Services -> Clock]
  BY DEF IInv, TypeOK
<1>2. log' = Append(log, ev) /\ clocks' = [clocks EXCEPT ![s] = Tick(s)]
  BY DEF Emit
<1>3. /\ Tick(s) \in Clock
      /\ Tick(s)[s] = clocks[s][s] + 1
      /\ \A k \in Services \ {s} : Tick(s)[k] = clocks[s][k]
      /\ \A t, k \in Services : clocks[t][k] \in Nat
  BY <1>1 DEF Tick, Clock
<1>4. /\ \A t \in Services \ {s} : clocks'[t] = clocks[t]
      /\ clocks'[s] = Tick(s)
  BY <1>1, <1>2
<1>5. \A k \in Services : clocks[k][k] <= clocks'[k][k]
  BY <1>3, <1>4
<1>6. OwnClockLeads'
  BY <1>3, <1>4 DEF IInv, OwnClockLeads
<1>7. /\ DOMAIN log' = 1..(Len(log) + 1) /\ DOMAIN log = 1..Len(log) /\ Len(log) \in Nat
      /\ \A i \in 1..Len(log) : log'[i] = log[i]
      /\ log'[Len(log) + 1] = ev
  BY <1>1, <1>2
<1>8. /\ ev.svc = s /\ ev.vc = Tick(s)
      /\ \A i \in 1..Len(log) : log[i].vc \in Clock
  <2>1. \A i \in 1..Len(log) : log[i] \in EventType
    BY <1>1
  <2>2. \A e \in EventType : e.vc \in Clock
    BY DEF EventType
  <2> QED  BY <2>1, <2>2
<1>9. LoggedBelow'
  <2> SUFFICES ASSUME NEW i \in 1..(Len(log) + 1), NEW k \in Services
               PROVE  log'[i].vc[k] <= clocks'[k][k]
    BY <1>7 DEF LoggedBelow
  <2>1. CASE i = Len(log) + 1
    <3>1. log'[i].vc[k] = clocks'[s][k]
      BY <2>1, <1>4, <1>7, <1>8
    <3> QED  BY <3>1, <1>6 DEF OwnClockLeads
  <2>2. CASE i \in 1..Len(log)
    <3>1. log'[i].vc[k] = log[i].vc[k] /\ log[i].vc[k] \in Nat
      BY <2>2, <1>7, <1>8 DEF Clock
    <3>2. log[i].vc[k] <= clocks[k][k]
      BY <2>2, <1>7 DEF IInv, LoggedBelow
    <3>3. clocks'[k][k] \in Nat
      BY <1>3, <1>4 DEF Clock
    <3> QED  BY <3>1, <3>2, <3>3, <1>3, <1>5
  <2> QED  BY <2>1, <2>2, <1>7
<1>10. OwnEntryGrows'
  <2> SUFFICES ASSUME NEW i \in 1..(Len(log) + 1), NEW j \in 1..(Len(log) + 1),
                      i < j, log'[j].svc \in Services
               PROVE  log'[i].vc[log'[j].svc] < log'[j].vc[log'[j].svc]
    BY <1>7 DEF OwnEntryGrows
  <2>1. i \in 1..Len(log) /\ log'[i] = log[i]
    BY <1>7
  <2>2. CASE j = Len(log) + 1
    <3>1. log'[j].svc = s /\ log'[j].vc[s] = clocks[s][s] + 1
      BY <2>2, <1>3, <1>7, <1>8
    <3>2. log[i].vc[s] <= clocks[s][s] /\ log[i].vc[s] \in Nat
      BY <2>1, <1>7, <1>8 DEF IInv, LoggedBelow, Clock
    <3> QED  BY <3>1, <3>2, <2>1, <1>3
  <2>3. CASE j \in 1..Len(log)
    BY <2>1, <2>3, <1>7 DEF IInv, OwnEntryGrows
  <2> QED  BY <2>2, <2>3, <1>7
<1> QED  BY <1>6, <1>9, <1>10 DEF IInv

(* MergeClock: an entry never exceeds the owner's, and the owner's own      *)
(* entry does not move.                                                     *)
LEMMA MergeKeeps ==
    ASSUME IInv, TypeOK', NEW l \in Services, NEW r \in Services,
           MergeClock(l, r), UNCHANGED log
    PROVE  IInv'
<1>0. clocks \in [Services -> Clock]
  BY DEF IInv, TypeOK
<1>1. \A t, k \in Services : clocks[t][k] \in Nat
  BY <1>0 DEF Clock
<1>2. /\ \A t \in Services \ {l} : clocks'[t] = clocks[t]
      /\ \A k \in Services : clocks'[l][k] = Larger(clocks[l][k], clocks[r][k])
  BY <1>0 DEF MergeClock, Merged
<1>3. \A t, k \in Services : clocks[t][k] <= clocks[k][k]
  BY DEF IInv, OwnClockLeads
<1>4. \A k \in Services : clocks'[k][k] = clocks[k][k]
  <2> TAKE k \in Services
  <2>1. CASE k = l
    BY <2>1, <1>1, <1>2, <1>3 DEF Larger
  <2> QED  BY <2>1, <1>2
<1>5. OwnClockLeads'
  <2> SUFFICES ASSUME NEW t \in Services, NEW k \in Services
               PROVE  clocks'[t][k] <= clocks'[k][k]
    BY DEF OwnClockLeads
  <2>1. CASE t = l
    BY <2>1, <1>2, <1>3, <1>4 DEF Larger
  <2> QED  BY <2>1, <1>2, <1>3, <1>4
<1>6. LoggedBelow'
  BY <1>4 DEF IInv, LoggedBelow
<1>7. OwnEntryGrows'
  BY DEF IInv, OwnEntryGrows
<1> QED  BY <1>5, <1>6, <1>7 DEF IInv
(* Types: what emit and MergeClock write. *)
LEMMA EmitTypes ==
    ASSUME TypeOK, NEW s \in Services, NEW type \in Types, NEW cause \in Nat,
           Emit(s, type, cause)
    PROVE  /\ log' \in Seq(EventType) /\ clocks' \in [Services -> Clock]
           /\ past' \in [Services -> SUBSET Nat]
<1>1. Tick(s) \in Clock
  BY DEF TypeOK, Tick, Clock
<1>2. log \in Seq(EventType) /\ Len(log) + 1 \in Nat
  BY DEF TypeOK
<1>3. past[s] \in SUBSET Nat /\ past \in [Services -> SUBSET Nat]
  BY DEF TypeOK
<1>4. [svc |-> s, type |-> type, vc |-> Tick(s), cause |-> cause, past |-> past[s]] \in EventType
  BY <1>1, <1>3 DEF EventType
<1>5. log' \in Seq(EventType)
  BY <1>2, <1>4 DEF Emit
<1>6. clocks' \in [Services -> Clock]
  BY <1>1 DEF Emit, TypeOK
<1>7. past' \in [Services -> SUBSET Nat]
  BY <1>2, <1>3 DEF Emit
<1> QED  BY <1>5, <1>6, <1>7

(* The types of events, and zero, the cause of most of them. *)
LEMMA Names ==
    /\ "syscall" \in Types /\ "network" \in Types /\ "meta" \in Types
    /\ "step_send" \in Types /\ "step_recv" \in Types /\ 0 \in Nat
BY DEF Types

LEMMA MergeTypes ==
    ASSUME TypeOK, NEW l \in Services, NEW r \in Services, MergeClock(l, r)
    PROVE  clocks' \in [Services -> Clock] /\ past' \in [Services -> SUBSET Nat]
<1>1. \A k \in Services : Larger(clocks[l][k], clocks[r][k]) \in Nat
  BY DEF TypeOK, Clock, Larger
<1>2. Merged(l, r) \in Clock
  BY <1>1 DEF Merged, Clock
<1>3. clocks' \in [Services -> Clock]
  BY <1>2 DEF TypeOK, MergeClock
<1>4. past' \in [Services -> SUBSET Nat]
  BY DEF TypeOK, MergeClock
<1> QED  BY <1>3, <1>4

LEMMA ZeroClock == Zero \in Clock
BY DEF Zero, Clock

StepType == [at : {"idle", "merged", "sent", "answered", "done"}, target : Services, sent : Nat]

(* A step that moves on has the type of one. *)
LEMMA AtTypes ==
    ASSUME TypeOK, NEW t \in Steps, NEW from, NEW to \in {"sent", "answered", "done"},
           At(t, from, to)
    PROVE  step' \in [Steps -> StepType] /\ generation' \in Nat
           /\ merging' \in [Services -> SUBSET Services]
BY Zenon DEF TypeOK, At, StepType

(* The events and merges of the services' callbacks. *)
LEMMA ServiceKeeps ==
    ASSUME IInv, ServiceNext
    PROVE  IInv'
<1>1. PICK s \in Services \ {Test} :
          Syscall(s) \/ NetworkCall(s) \/ \E r \in Services : MergeOther(s, r)
  BY DEF ServiceNext
<1>2. CASE Syscall(s)
  <2>1. Emit(s, "syscall", 0) /\ UNCHANGED <<generation, merging, step>>
    BY <1>2 DEF Syscall
  <2>2. TypeOK'
    <3>1. log' \in Seq(EventType) /\ clocks' \in [Services -> Clock]
         /\ past' \in [Services -> SUBSET Nat]
      BY <2>1, EmitTypes, Names DEF IInv
    <3> QED  BY <2>1, <3>1 DEF IInv, TypeOK
  <2> QED  BY <2>1, <2>2, EmitKeeps
<1>3. CASE NetworkCall(s)
  <2>1. Emit(s, "network", 0) /\ UNCHANGED <<generation, step>>
    BY <1>3 DEF NetworkCall
  <2>2. merging' \in [Services -> SUBSET Services]
    BY <1>3 DEF NetworkCall, IInv, TypeOK, Others
  <2>3. TypeOK'
    <3>1. log' \in Seq(EventType) /\ clocks' \in [Services -> Clock]
         /\ past' \in [Services -> SUBSET Nat]
      BY <2>1, EmitTypes, Names DEF IInv
    <3> QED  BY <2>1, <2>2, <3>1 DEF IInv, TypeOK
  <2> QED  BY <2>1, <2>3, EmitKeeps
<1>4. ASSUME NEW r \in Services, MergeOther(s, r)
      PROVE  IInv'
  <2>1. MergeClock(s, r) /\ UNCHANGED <<log, generation, step>>
    BY <1>4 DEF MergeOther
  <2>2. merging' \in [Services -> SUBSET Services]
    BY <1>4 DEF MergeOther, IInv, TypeOK
  <2>3. TypeOK'
    <3>1. clocks' \in [Services -> Clock] /\ past' \in [Services -> SUBSET Nat]
      BY <2>1, MergeTypes DEF IInv
    <3> QED  BY <2>1, <2>2, <3>1 DEF IInv, TypeOK
  <2> QED  BY <2>1, <2>3, MergeKeeps
<1> QED  BY <1>1, <1>2, <1>3, <1>4

(* The events and merges of the steps. *)
LEMMA StepKeeps ==
    ASSUME IInv, StepNext
    PROVE  IInv'
<1> USE NamesAssumption
<1>0. TypeOK /\ step \in [Steps -> StepType]
  BY DEF IInv, TypeOK, StepType
<1>1. PICK t \in Steps :
          \/ \E s \in Services \ {Test} : StepMerges(t, s)
          \/ StepSends(t) \/ Reacts(t) \/ StepMergesBack(t) \/ StepReceives(t) \/ StepFails(t)
  BY DEF StepNext
<1>2. step[t].target \in Services /\ step[t].sent \in Nat
  BY <1>0 DEF StepType
<1>3. ASSUME NEW s \in Services, StepMerges(t, s)
      PROVE  IInv'
  <2>1. MergeClock(s, Test) /\ UNCHANGED <<log, generation, merging>>
    BY <1>3 DEF StepMerges
  <2>2. step' \in [Steps -> StepType]
    BY <1>0, <1>3 DEF StepMerges, StepType
  <2>3. TypeOK'
    BY <1>0, <2>1, <2>2, MergeTypes DEF TypeOK, StepType
  <2> QED  BY <2>1, <2>3, MergeKeeps
<1>4. CASE StepSends(t)
  <2>1. Emit(Test, "step_send", 0) /\ UNCHANGED <<generation, merging>>
    BY <1>4 DEF StepSends
  <2>2. Len(log) + 1 \in Nat
    BY <1>0 DEF TypeOK
  <2>3. step' \in [Steps -> StepType]
    BY <1>0, <1>4, <2>2, Zenon DEF StepSends, StepType
  <2>4. TypeOK'
    <3>1. log' \in Seq(EventType) /\ clocks' \in [Services -> Clock]
         /\ past' \in [Services -> SUBSET Nat]
      BY <1>0, <2>1, EmitTypes, Names
    <3> QED  BY <1>0, <2>1, <2>3, <3>1 DEF TypeOK, StepType
  <2> QED  BY <2>1, <2>4, EmitKeeps
<1>5. CASE Reacts(t)
  <2>1. Emit(step[t].target, "syscall", step[t].sent) /\ UNCHANGED <<generation, merging, step>>
    BY <1>5 DEF Reacts
  <2>2. TypeOK'
    <3>1. log' \in Seq(EventType) /\ clocks' \in [Services -> Clock]
         /\ past' \in [Services -> SUBSET Nat]
      BY <1>0, <1>2, <2>1, EmitTypes, Names
    <3> QED  BY <1>0, <2>1, <3>1 DEF TypeOK
  <2> QED  BY <1>2, <2>1, <2>2, EmitKeeps
<1>6. CASE StepMergesBack(t)
  <2>1. MergeClock(Test, step[t].target) /\ UNCHANGED log /\ At(t, "sent", "answered")
    BY <1>6 DEF StepMergesBack
  <2>2. TypeOK'
    <3>1. clocks' \in [Services -> Clock] /\ past' \in [Services -> SUBSET Nat]
      BY <1>0, <1>2, <2>1, MergeTypes
    <3>2. step' \in [Steps -> StepType] /\ generation' \in Nat
         /\ merging' \in [Services -> SUBSET Services]
      BY <1>0, <2>1, AtTypes
    <3> QED  BY <1>0, <2>1, <3>1, <3>2 DEF TypeOK, StepType
  <2> QED  BY <1>2, <2>1, <2>2, MergeKeeps
<1>7. CASE StepReceives(t)
  <2>1. Emit(Test, "step_recv", step[t].sent) /\ At(t, "answered", "done")
    BY <1>7 DEF StepReceives
  <2>2. TypeOK'
    <3>1. log' \in Seq(EventType) /\ clocks' \in [Services -> Clock]
         /\ past' \in [Services -> SUBSET Nat]
      BY <1>0, <1>2, <2>1, EmitTypes, Names
    <3>2. step' \in [Steps -> StepType] /\ generation' \in Nat
         /\ merging' \in [Services -> SUBSET Services]
      BY <1>0, <2>1, AtTypes
    <3> QED  BY <2>1, <3>1, <3>2 DEF TypeOK, StepType
  <2> QED  BY <2>1, <2>2, EmitKeeps
<1>8. CASE StepFails(t)
  <2>1. At(t, "sent", "done") /\ UNCHANGED <<log, clocks, past>>
    BY <1>8 DEF StepFails
  <2>2. TypeOK'
    BY <1>0, <2>1, AtTypes DEF TypeOK, StepType
  <2> QED  BY <2>1, <2>2, CoreStutter
<1> QED  BY <1>1, <1>3, <1>4, <1>5, <1>6, <1>7, <1>8

(* An event without a service does not move a clock and has none to grow. *)
LEMMA UnownedKeeps ==
    ASSUME IInv, EmitUnowned
    PROVE  IInv'
<1> DEFINE ev == [svc |-> NoService, type |-> "meta", vc |-> Zero, cause |-> 0, past |-> {}]
<1>1. log \in Seq(EventType) /\ log' = Append(log, ev)
  BY DEF IInv, TypeOK, EmitUnowned
<1>2. ev \in EventType
  BY ZeroClock, Names DEF EventType
<1>3. /\ DOMAIN log' = 1..(Len(log) + 1) /\ DOMAIN log = 1..Len(log) /\ Len(log) \in Nat
      /\ \A i \in 1..Len(log) : log'[i] = log[i]
      /\ log'[Len(log) + 1] = ev
      /\ log' \in Seq(EventType)
  BY <1>1, <1>2
<1>4. ev.svc = NoService /\ ev.vc = Zero
  OBVIOUS
<1>5. TypeOK'
  BY <1>3 DEF IInv, TypeOK, EmitUnowned
<1>6. OwnClockLeads'
  BY DEF IInv, OwnClockLeads, EmitUnowned
<1>7. LoggedBelow'
  <2> SUFFICES ASSUME NEW i \in 1..(Len(log) + 1), NEW k \in Services
               PROVE  log'[i].vc[k] <= clocks[k][k]
    BY <1>3 DEF LoggedBelow, EmitUnowned
  <2>1. CASE i = Len(log) + 1
    <3>1. log'[i].vc[k] = 0
      BY <2>1, <1>3, <1>4 DEF Zero
    <3>2. clocks[k][k] \in Nat
      BY DEF IInv, TypeOK, Clock
    <3> QED  BY <3>1, <3>2
  <2>2. CASE i \in 1..Len(log)
    BY <2>2, <1>3 DEF IInv, LoggedBelow
  <2> QED  BY <2>1, <2>2, <1>3
<1>8. OwnEntryGrows'
  <2> SUFFICES ASSUME NEW i \in 1..(Len(log) + 1), NEW j \in 1..(Len(log) + 1),
                      i < j, log'[j].svc \in Services
               PROVE  log'[i].vc[log'[j].svc] < log'[j].vc[log'[j].svc]
    BY <1>3 DEF OwnEntryGrows
  <2>1. j # Len(log) + 1
    BY <1>3, <1>4, NamesAssumption
  <2>2. i \in 1..Len(log) /\ j \in 1..Len(log)
    BY <2>1, <1>3
  <2> QED  BY <2>2, <1>3 DEF IInv, OwnEntryGrows
<1> QED  BY <1>5, <1>6, <1>7, <1>8 DEF IInv

(* The start of a test: an empty log and clocks at zero. *)
LEMMA ResetKeeps ==
    ASSUME IInv, Reset
    PROVE  IInv'
<1>1. log' = <<>> /\ clocks' = [s \in Services |-> Zero]
  BY DEF Reset
<1>2. step' \in [Steps -> StepType]
  BY Zenon DEF IInv, TypeOK, Reset, StepType
<1>3. TypeOK'
  BY <1>1, <1>2, ZeroClock DEF IInv, TypeOK, Reset, StepType
<1> QED  BY <1>1, <1>3 DEF IInv, OwnClockLeads, LoggedBelow, OwnEntryGrows, Zero

LEMMA InitEstablishes == Init => IInv
<1> SUFFICES ASSUME Init PROVE IInv
  OBVIOUS
<1>1. TypeOK
  BY ZeroClock, NamesAssumption DEF Init, TypeOK, Idle
<1> QED  BY <1>1 DEF Init, IInv, OwnClockLeads, LoggedBelow, OwnEntryGrows, Zero

(* The strengthened invariant holds in every reachable state. *)
THEOREM EventLogInvariant == Spec => []IInv
<1>1. IInv /\ [Next]_vars => IInv'
  <2> SUFFICES ASSUME IInv, [Next]_vars PROVE IInv'
    OBVIOUS
  <2>1. CASE UNCHANGED vars
    <3>1. TypeOK'
      BY <2>1 DEF IInv, TypeOK, vars
    <3> QED  BY <2>1, <3>1, CoreStutter DEF vars
  <2>2. CASE Next
    BY <2>2, ServiceKeeps, StepKeeps, UnownedKeeps, ResetKeeps DEF Next
  <2> QED  BY <2>1, <2>2
<1> QED  BY <1>1, InitEstablishes, PTL DEF Spec

(* The variables of the event log keep their types. *)
THEOREM EventLogTypes == Spec => []TypeOK
<1>1. IInv => TypeOK
  BY DEF IInv
<1> QED  BY <1>1, EventLogInvariant, PTL

(* However emitters, merges and tests interleave, no event of a service     *)
(* happens before an event that was logged earlier.                         *)
THEOREM CausalityFollowsLog == Spec => []LogRespectsCausality
<1>1. IInv => LogRespectsCausality
  <2> SUFFICES ASSUME IInv, NEW i \in DOMAIN log, NEW j \in DOMAIN log,
                      i < j, j \in Owned
               PROVE  ~HappensBefore(log[j].vc, log[i].vc)
    BY DEF LogRespectsCausality
  <2>1. log[i] \in EventType /\ log[j] \in EventType
    BY DEF IInv, TypeOK
  <2>2. log[j].svc \in Services
    BY <2>1 DEF Owned, EventType
  <2>3. log[i].vc[log[j].svc] < log[j].vc[log[j].svc]
    BY <2>2 DEF IInv, OwnEntryGrows
  <2>4. log[i].vc \in Clock /\ log[j].vc \in Clock
    BY <2>1 DEF EventType
  <2>5. ~(log[j].vc[log[j].svc] <= log[i].vc[log[j].svc])
    BY <2>2, <2>3, <2>4 DEF Clock
  <2> QED  BY <2>2, <2>5 DEF HappensBefore
<1> QED  BY <1>1, EventLogInvariant, PTL

----------------------------------------------------------------------------
(* happens_before answers exactly the causality of the run                  *)

LE(v, w) == \A k \in Services : v[k] <= w[k]

(* A causal past holds events of this log only.                             *)
PastLogged ==
    /\ \A s \in Services : past[s] \subseteq DOMAIN log
    /\ \A j \in DOMAIN log : log[j].past \subseteq DOMAIN log

(* The entry of its own service decides whether a clock knows an event: who *)
(* has counted it has everything the event knew.                            *)
Closed ==
    \A i \in Owned : \A s \in Services :
        log[i].vc[log[i].svc] <= clocks[s][log[i].svc] => LE(log[i].vc, clocks[s])

(* The clock of a service bounds the events of its past and no others.      *)
PastIsBelow ==
    \A i \in Owned : \A s \in Services : i \in past[s] <=> LE(log[i].vc, clocks[s])

(* So does the clock an event was logged with.                              *)
LoggedPastIsBelow ==
    \A i, j \in Owned : i # j => (i \in log[j].past <=> LE(log[i].vc, log[j].vc))

Causal == PastLogged /\ Closed /\ PastIsBelow /\ LoggedPastIsBelow

(* The types of what is compared.                                           *)
LEMMA Entries ==
    ASSUME TypeOK
    PROVE  /\ \A s, k \in Services : clocks[s][k] \in Nat
           /\ \A i \in DOMAIN log : \A k \in Services : log[i].vc[k] \in Nat
           /\ \A i \in Owned : i \in DOMAIN log /\ log[i].svc \in Services
           /\ DOMAIN log = 1..Len(log) /\ Len(log) \in Nat
<1>1. log \in Seq(EventType) /\ clocks \in [Services -> Clock]
  BY DEF TypeOK
<1>2. \A i \in DOMAIN log : log[i] \in EventType
  BY <1>1
<1>3. \A e \in EventType : e.vc \in Clock /\ e.svc \in Services \cup {NoService}
  BY DEF EventType
<1>4. \A c \in Clock : \A k \in Services : c[k] \in Nat
  BY DEF Clock
<1>5. \A s \in Services : clocks[s] \in Clock
  BY <1>1
<1>6. DOMAIN log = 1..Len(log) /\ Len(log) \in Nat
  BY <1>1
<1> QED  BY <1>2, <1>3, <1>4, <1>5, <1>6 DEF Owned

(* What emit does to the log, the clocks and the history.                   *)
LEMMA EmitFacts ==
    ASSUME TypeOK, NEW s \in Services, NEW type, NEW cause, Emit(s, type, cause)
    PROVE  /\ DOMAIN log' = 1..(Len(log) + 1) /\ Len(log') = Len(log) + 1
           /\ \A i \in 1..Len(log) : log'[i] = log[i]
           /\ log'[Len(log) + 1].svc = s /\ log'[Len(log) + 1].type = type
           /\ log'[Len(log) + 1].vc = clocks'[s] /\ log'[Len(log) + 1].cause = cause
           /\ log'[Len(log) + 1].past = past[s]
           /\ clocks'[s][s] = clocks[s][s] + 1
           /\ \A k \in Services \ {s} : clocks'[s][k] = clocks[s][k]
           /\ \A u \in Services \ {s} : clocks'[u] = clocks[u] /\ past'[u] = past[u]
           /\ past'[s] = past[s] \cup {Len(log) + 1}
<1> DEFINE ev == [svc |-> s, type |-> type, vc |-> Tick(s), cause |-> cause, past |-> past[s]]
<1>1. /\ log \in Seq(EventType) /\ clocks \in [Services -> Clock]
      /\ past \in [Services -> SUBSET Nat]
  BY DEF TypeOK
<1>2. /\ log' = Append(log, ev) /\ clocks' = [clocks EXCEPT ![s] = Tick(s)]
      /\ past' = [past EXCEPT ![s] = past[s] \cup {Len(log) + 1}]
  BY DEF Emit
<1>3. clocks'[s] = Tick(s)
  BY <1>1, <1>2
<1>4. Tick(s)[s] = clocks[s][s] + 1 /\ \A k \in Services \ {s} : Tick(s)[k] = clocks[s][k]
  BY <1>1 DEF Tick, Clock
<1>5. /\ DOMAIN log' = 1..(Len(log) + 1) /\ Len(log') = Len(log) + 1
      /\ \A i \in 1..Len(log) : log'[i] = log[i]
      /\ log'[Len(log) + 1] = ev
  BY <1>1, <1>2
<1>6. ev.svc = s /\ ev.type = type /\ ev.vc = Tick(s) /\ ev.cause = cause /\ ev.past = past[s]
  OBVIOUS
<1>7. /\ \A u \in Services \ {s} : clocks'[u] = clocks[u] /\ past'[u] = past[u]
      /\ past'[s] = past[s] \cup {Len(log) + 1}
  BY <1>1, <1>2
<1> HIDE DEF ev
<1> QED  BY <1>3, <1>4, <1>5, <1>6, <1>7

(* emit: the new event is ahead of every clock but its own, and its own     *)
(* service's clock gains nothing else.                                      *)
LEMMA EmitCausal ==
    ASSUME IInv, TypeOK', Causal, NEW s \in Services, NEW type, NEW cause, Emit(s, type, cause)
    PROVE  Causal'
<1> DEFINE n == Len(log)
<1>1. TypeOK /\ LoggedBelow /\ OwnClockLeads
  BY DEF IInv
<1>2. /\ \A u, k \in Services : clocks[u][k] \in Nat
      /\ \A i \in 1..n : \A k \in Services : log[i].vc[k] \in Nat
      /\ DOMAIN log = 1..n /\ n \in Nat
      /\ \A i \in Owned : i \in 1..n /\ log[i].svc \in Services
  BY <1>1, Entries
<1>3. /\ DOMAIN log' = 1..(n + 1)
      /\ \A i \in 1..n : log'[i] = log[i]
      /\ log'[n + 1].svc = s /\ log'[n + 1].vc = clocks'[s] /\ log'[n + 1].past = past[s]
      /\ clocks'[s][s] = clocks[s][s] + 1
      /\ \A k \in Services \ {s} : clocks'[s][k] = clocks[s][k]
      /\ \A u \in Services \ {s} : clocks'[u] = clocks[u] /\ past'[u] = past[u]
      /\ past'[s] = past[s] \cup {n + 1}
  BY <1>1, EmitFacts
<1>4. Owned' = Owned \cup {n + 1}
  BY <1>2, <1>3, NamesAssumption DEF Owned
<1>5. \A u \in Services : past[u] \subseteq 1..n
  BY <1>2 DEF Causal, PastLogged
<1> HIDE DEF n
<1>0. \A k \in Services : clocks'[s][k] \in Nat
  <2>1. \A k \in Services : clocks[s][k] \in Nat
    BY <1>2
  <2>2. clocks'[s][s] = clocks[s][s] + 1
    BY <1>3
  <2>3. \A k \in Services \ {s} : clocks'[s][k] = clocks[s][k]
    BY <1>3
  <2> QED  BY ONLY <2>1, <2>2, <2>3, s \in Services
(* An old event is below the new clock exactly when it was below the old one. *)
<1>6. ASSUME NEW i \in Owned PROVE LE(log[i].vc, clocks[s]) <=> LE(log[i].vc, clocks'[s])
  <2>1. /\ \A k \in Services : log[i].vc[k] \in Nat
        /\ log[i].vc[s] <= clocks[s][s]
    BY <1>1, <1>2 DEF LoggedBelow
  <2>2. s \in Services /\ clocks'[s][s] = clocks[s][s] + 1 /\ \A k \in Services : clocks[s][k] \in Nat
    BY <1>2, <1>3
  <2>3. \A k \in Services \ {s} : clocks'[s][k] = clocks[s][k]
    BY <1>3
  <2> QED  BY ONLY <2>1, <2>2, <2>3 DEF LE
(* The new event is not below a clock that was there before. *)
<1>7. /\ \A u \in Services : ~(clocks'[s][s] <= clocks[u][s])
      /\ \A i \in 1..n : ~(clocks'[s][s] <= log[i].vc[s])
  BY <1>1, <1>2, <1>3 DEF LoggedBelow, OwnClockLeads
<1>8. PastLogged'
  <2>1. \A u \in Services : past'[u] \subseteq 1..(n + 1)
    BY <1>2, <1>3, <1>5
  <2>2. \A j \in 1..n : log'[j].past \subseteq 1..(n + 1)
    BY <1>2, <1>3 DEF Causal, PastLogged
  <2>3. log'[n + 1].past \subseteq 1..(n + 1)
    BY <1>2, <1>3, <1>5
  <2> QED  BY <1>2, <1>3, <2>1, <2>2, <2>3 DEF PastLogged
<1>9. Closed'
  <2> SUFFICES ASSUME NEW i \in Owned', NEW u \in Services,
                      log'[i].vc[log'[i].svc] <= clocks'[u][log'[i].svc]
               PROVE  LE(log'[i].vc, clocks'[u])
    BY DEF Closed, LE
  <2>1. CASE i = n + 1
    <3>1. u = s
      <4>1. log'[i].svc = s /\ log'[i].vc = clocks'[s]
        BY <1>3, <2>1
      <4>2. clocks'[s][s] <= clocks'[u][s]
        BY ONLY <4>1, log'[i].vc[log'[i].svc] <= clocks'[u][log'[i].svc]
      <4>3. u # s => clocks'[u] = clocks[u]
        BY <1>3
      <4>4. QED
        BY ONLY <1>7, <4>2, <4>3, u \in Services
    <3>2. \A k \in Services : clocks'[s][k] \in Nat
      BY <1>0
    <3> QED  BY <1>3, <2>1, <3>1, <3>2 DEF LE
  <2>2. CASE i \in Owned
    <3>1. log'[i] = log[i] /\ log[i].svc \in Services /\ i \in 1..n
      BY <1>2, <1>3, <2>2
    <3>2. CASE u = s
      <4>1. log[i].vc[log[i].svc] <= clocks[s][log[i].svc]
        <5>1. log[i].vc[s] <= clocks[s][s]
          BY <1>1, <1>2, <3>1 DEF LoggedBelow
        <5> QED  BY <1>3, <3>1, <3>2, <5>1
      <4> QED  BY <1>6, <2>2, <3>1, <3>2, <4>1 DEF Causal, Closed
    <3>3. CASE u # s
      BY <1>3, <2>2, <3>1, <3>3 DEF Causal, Closed
    <3> QED  BY <3>2, <3>3
  <2> QED  BY <1>4, <2>1, <2>2
<1>10. PastIsBelow'
  <2> SUFFICES ASSUME NEW i \in Owned', NEW u \in Services
               PROVE  i \in past'[u] <=> LE(log'[i].vc, clocks'[u])
    BY DEF PastIsBelow, LE
  <2>1. CASE i = n + 1
    <3>1. CASE u = s
      <4>1. \A k \in Services : clocks'[s][k] \in Nat
        BY <1>0
      <4> QED  BY <1>3, <2>1, <3>1, <4>1 DEF LE
    <3>2. CASE u # s
      <4>1. i \notin past'[u]
        BY <1>2, <1>3, <1>5, <2>1, <3>2
      <4>2. ~LE(log'[i].vc, clocks'[u])
        BY <1>3, <1>7, <2>1, <3>2 DEF LE
      <4> QED  BY <4>1, <4>2
    <3> QED  BY <3>1, <3>2
  <2>2. CASE i \in Owned
    <3>1. log'[i] = log[i] /\ i \in 1..n /\ i # n + 1
      BY <1>2, <1>3, <2>2
    <3>2. i \in past[u] <=> LE(log[i].vc, clocks[u])
      BY <2>2 DEF Causal, PastIsBelow
    <3>3. CASE u = s
      BY <1>3, <1>6, <2>2, <3>1, <3>2, <3>3
    <3>4. CASE u # s
      BY <1>3, <3>1, <3>2, <3>4
    <3> QED  BY <3>3, <3>4
  <2> QED  BY <1>4, <2>1, <2>2
<1>11. LoggedPastIsBelow'
  <2> SUFFICES ASSUME NEW i \in Owned', NEW j \in Owned', i # j
               PROVE  i \in log'[j].past <=> LE(log'[i].vc, log'[j].vc)
    BY DEF LoggedPastIsBelow, LE
  <2>1. CASE j = n + 1
    <3>1. i \in Owned /\ log'[i] = log[i]
      BY <1>2, <1>3, <1>4, <2>1
    <3>2. i \in past[s] <=> LE(log[i].vc, clocks[s])
      BY <3>1 DEF Causal, PastIsBelow
    <3> QED  BY <1>3, <1>6, <2>1, <3>1, <3>2
  <2>2. CASE j \in Owned /\ i = n + 1
    <3>1. log'[j] = log[j] /\ j \in 1..n
      BY <1>2, <1>3, <2>2
    <3>2. i \notin log[j].past
      BY <1>2, <2>2, <3>1 DEF Causal, PastLogged
    <3>3. ~LE(log'[i].vc, log[j].vc)
      BY <1>3, <1>7, <2>2, <3>1 DEF LE
    <3> QED  BY <3>1, <3>2, <3>3
  <2>3. CASE j \in Owned /\ i \in Owned
    BY <1>2, <1>3, <2>3 DEF Causal, LoggedPastIsBelow
  <2> QED  BY <1>4, <2>1, <2>2, <2>3
<1> QED  BY <1>8, <1>9, <1>10, <1>11 DEF Causal

(* What MergeClock does.                                                    *)
LEMMA MergeFacts ==
    ASSUME TypeOK, NEW l \in Services, NEW r \in Services, MergeClock(l, r)
    PROVE  /\ \A k \in Services : clocks'[l][k] = Larger(clocks[l][k], clocks[r][k])
           /\ past'[l] = past[l] \cup past[r]
           /\ \A u \in Services \ {l} : clocks'[u] = clocks[u] /\ past'[u] = past[u]
<1>1. clocks \in [Services -> Clock] /\ past \in [Services -> SUBSET Nat]
  BY DEF TypeOK
<1> QED  BY <1>1 DEF MergeClock, Merged

(* MergeClock: what is below the larger of two clocks is below one of them, *)
(* for one of them has counted it.                                          *)
LEMMA MergeCausal ==
    ASSUME IInv, Causal, NEW l \in Services, NEW r \in Services,
           MergeClock(l, r), UNCHANGED log
    PROVE  Causal'
<1>1. TypeOK
  BY DEF IInv
<1>2. /\ \A u, k \in Services : clocks[u][k] \in Nat
      /\ \A i \in DOMAIN log : \A k \in Services : log[i].vc[k] \in Nat
      /\ \A i \in Owned : i \in DOMAIN log /\ log[i].svc \in Services
  BY <1>1, Entries
<1>3. /\ \A k \in Services : clocks'[l][k] = Larger(clocks[l][k], clocks[r][k])
      /\ past'[l] = past[l] \cup past[r]
      /\ \A u \in Services \ {l} : clocks'[u] = clocks[u] /\ past'[u] = past[u]
  BY <1>1, MergeFacts
<1>4. Owned' = Owned
  BY DEF Owned
<1>5. ASSUME NEW i \in Owned
      PROVE  /\ log[i].vc[log[i].svc] <= clocks'[l][log[i].svc] =>
                  LE(log[i].vc, clocks[l]) \/ LE(log[i].vc, clocks[r])
             /\ LE(log[i].vc, clocks[l]) \/ LE(log[i].vc, clocks[r]) => LE(log[i].vc, clocks'[l])
             /\ LE(log[i].vc, clocks'[l]) => log[i].vc[log[i].svc] <= clocks'[l][log[i].svc]
  <2>1. /\ log[i].vc[log[i].svc] <= clocks[l][log[i].svc] => LE(log[i].vc, clocks[l])
        /\ log[i].vc[log[i].svc] <= clocks[r][log[i].svc] => LE(log[i].vc, clocks[r])
    BY DEF Causal, Closed
  <2>2. clocks'[l][log[i].svc] \in {clocks[l][log[i].svc], clocks[r][log[i].svc]}
    BY <1>2, <1>3 DEF Larger
  <2>3. LE(log[i].vc, clocks[l]) \/ LE(log[i].vc, clocks[r]) => LE(log[i].vc, clocks'[l])
    BY <1>2, <1>3 DEF LE, Larger
  <2>4. LE(log[i].vc, clocks'[l]) => log[i].vc[log[i].svc] <= clocks'[l][log[i].svc]
    BY <1>2 DEF LE
  <2> QED  BY <2>1, <2>2, <2>3, <2>4
<1>6. PastLogged'
  <2>1. \A u \in Services : past[u] \subseteq DOMAIN log
    BY DEF Causal, PastLogged
  <2>2. \A u \in Services : past'[u] \subseteq DOMAIN log
    BY <1>3, <2>1
  <2> QED  BY <2>2 DEF Causal, PastLogged
<1>7. Closed'
  <2> SUFFICES ASSUME NEW i \in Owned, NEW u \in Services,
                      log[i].vc[log[i].svc] <= clocks'[u][log[i].svc]
               PROVE  LE(log[i].vc, clocks'[u])
    BY <1>4 DEF Closed, LE
  <2>1. CASE u = l
    BY <1>5, <2>1
  <2>2. CASE u # l
    BY <1>3, <2>2 DEF Causal, Closed
  <2> QED  BY <2>1, <2>2
<1>8. PastIsBelow'
  <2> SUFFICES ASSUME NEW i \in Owned, NEW u \in Services
               PROVE  i \in past'[u] <=> LE(log[i].vc, clocks'[u])
    BY <1>4 DEF PastIsBelow, LE
  <2>1. CASE u = l
    <3>1. /\ i \in past[l] <=> LE(log[i].vc, clocks[l])
          /\ i \in past[r] <=> LE(log[i].vc, clocks[r])
      BY DEF Causal, PastIsBelow
    <3> QED  BY <1>3, <1>5, <2>1, <3>1
  <2>2. CASE u # l
    BY <1>3, <2>2 DEF Causal, PastIsBelow
  <2> QED  BY <2>1, <2>2
<1>9. LoggedPastIsBelow'
  BY <1>4 DEF Causal, LoggedPastIsBelow, LE
<1> QED  BY <1>6, <1>7, <1>8, <1>9 DEF Causal

(* An event without a service has no past and is in none.                   *)
LEMMA UnownedFacts ==
    ASSUME TypeOK, EmitUnowned
    PROVE  /\ DOMAIN log' = 1..(Len(log) + 1) /\ Len(log') = Len(log) + 1
           /\ \A i \in 1..Len(log) : log'[i] = log[i]
           /\ log'[Len(log) + 1].svc = NoService /\ log'[Len(log) + 1].past = {}
           /\ log'[Len(log) + 1].cause = 0 /\ log'[Len(log) + 1].type = "meta"
           /\ UNCHANGED <<clocks, past, step>>
<1> DEFINE ev == [svc |-> NoService, type |-> "meta", vc |-> Zero, cause |-> 0, past |-> {}]
<1>1. log \in Seq(EventType) /\ log' = Append(log, ev)
  BY DEF TypeOK, EmitUnowned
<1>2. /\ DOMAIN log' = 1..(Len(log) + 1) /\ Len(log') = Len(log) + 1
      /\ \A i \in 1..Len(log) : log'[i] = log[i]
      /\ log'[Len(log) + 1] = ev
  BY <1>1
<1>3. ev.svc = NoService /\ ev.past = {} /\ ev.cause = 0 /\ ev.type = "meta"
  OBVIOUS
<1> HIDE DEF ev
<1> QED  BY <1>2, <1>3 DEF EmitUnowned

LEMMA UnownedCausal ==
    ASSUME IInv, Causal, EmitUnowned
    PROVE  Causal'
<1> DEFINE n == Len(log)
<1>1. TypeOK
  BY DEF IInv
<1>2. DOMAIN log = 1..n /\ n \in Nat
  BY <1>1, Entries
<1>3. /\ DOMAIN log' = 1..(n + 1)
      /\ \A i \in 1..n : log'[i] = log[i]
      /\ log'[n + 1].svc = NoService /\ log'[n + 1].past = {}
      /\ UNCHANGED <<clocks, past>>
  BY <1>1, UnownedFacts
<1> HIDE DEF n
<1>4. Owned' = Owned /\ \A i \in Owned : log'[i] = log[i]
  BY <1>2, <1>3 DEF Owned
<1>5. PastLogged'
  <2>1. \A j \in 1..(n + 1) : log'[j].past \subseteq 1..(n + 1)
    BY <1>2, <1>3 DEF Causal, PastLogged
  <2>2. \A u \in Services : past'[u] \subseteq 1..(n + 1)
    BY <1>2, <1>3 DEF Causal, PastLogged
  <2> QED  BY <1>3, <2>1, <2>2 DEF PastLogged
<1>6. Closed'
  BY <1>3, <1>4 DEF Causal, Closed, LE
<1>7. PastIsBelow'
  BY <1>3, <1>4 DEF Causal, PastIsBelow, LE
<1>8. LoggedPastIsBelow'
  BY <1>4 DEF Causal, LoggedPastIsBelow, LE
<1> QED  BY <1>5, <1>6, <1>7, <1>8 DEF Causal

LEMMA EmptyCausal ==
    ASSUME log = <<>>, past = [s \in Services |-> {}]
    PROVE  Causal
<1>1. DOMAIN log = {}
  OBVIOUS
<1> QED  BY <1>1 DEF Causal, PastLogged, Closed, PastIsBelow, LoggedPastIsBelow, Owned

(* A request is named by the index of its step_send, which no two steps     *)
(* share; a step that survived a reset has no name.                         *)
Named ==
    /\ \A i \in DOMAIN log : log[i].cause <= Len(log)
    /\ \A t \in Steps : step[t].sent <= Len(log)
    /\ \A t \in Steps : step[t].at \in {"idle", "merged"} => step[t].sent = 0
    /\ \A t, u \in Steps : t # u /\ step[t].sent # 0 => step[t].sent # step[u].sent

(* What a request made its target do is known to the target, and to the     *)
(* driver once the answer was merged.                                       *)
Learnt(t) ==
    step[t].sent # 0 =>
       \A i \in DOMAIN log :
          log[i].cause = step[t].sent =>
             /\ step[t].at = "sent" => LE(log[i].vc, clocks[step[t].target])
             /\ step[t].at = "answered" => LE(log[i].vc, clocks[Test])

(* It happens before the step_recv of the request.                          *)
Answered ==
    \A i, j \in DOMAIN log :
       /\ log[j].type = "step_recv" /\ i < j
       /\ log[i].cause = log[j].cause /\ log[j].cause # 0
       => HappensBefore(log[i].vc, log[j].vc)

Informed == Named /\ (\A t \in Steps : Learnt(t)) /\ Answered

(* The causes and the step_recvs after an event was emitted.                *)
LEMMA EmitInforms ==
    ASSUME IInv, Informed, NEW s \in Services, NEW type, NEW cause \in Nat, Emit(s, type, cause),
           cause <= Len(log),
           type = "step_recv" /\ cause # 0 =>
              \A i \in DOMAIN log : log[i].cause = cause => LE(log[i].vc, clocks[s])
    PROVE  Answered' /\ \A i \in DOMAIN log' : log'[i].cause <= Len(log')
<1> DEFINE n == Len(log)
<1>1. TypeOK
  BY DEF IInv
<1>2. /\ \A u, k \in Services : clocks[u][k] \in Nat
      /\ \A i \in 1..n : \A k \in Services : log[i].vc[k] \in Nat
      /\ DOMAIN log = 1..n /\ n \in Nat
  BY <1>1, Entries
<1>3. /\ DOMAIN log' = 1..(n + 1) /\ Len(log') = n + 1
      /\ \A i \in 1..n : log'[i] = log[i]
      /\ log'[n + 1].type = type /\ log'[n + 1].vc = clocks'[s] /\ log'[n + 1].cause = cause
      /\ clocks'[s][s] = clocks[s][s] + 1
      /\ \A k \in Services \ {s} : clocks'[s][k] = clocks[s][k]
  BY <1>1, EmitFacts
<1>4. \A i \in 1..n : log[i].cause \in Nat
  <2>1. \A i \in 1..n : log[i] \in EventType
    BY <1>1, <1>2 DEF TypeOK
  <2> QED  BY <2>1 DEF EventType
<1> HIDE DEF n
<1>5. \A i \in DOMAIN log' : log'[i].cause <= Len(log')
  <2>1. n = Len(log)
    BY DEF n
  <2>2. \A i \in 1..n : log[i].cause <= n
    BY <1>2, <2>1 DEF Informed, Named
  <2> QED  BY <1>2, <1>3, <1>4, <2>1, <2>2
<1>6. Answered'
  <2> SUFFICES ASSUME NEW i \in 1..(n + 1), NEW j \in 1..(n + 1),
                      log'[j].type = "step_recv", i < j,
                      log'[i].cause = log'[j].cause, log'[j].cause # 0
               PROVE  HappensBefore(log'[i].vc, log'[j].vc)
    BY <1>3 DEF Answered, HappensBefore
  <2>1. i \in 1..n /\ log'[i] = log[i]
    BY <1>2, <1>3
  <2>2. CASE j = n + 1
    <3>1. LE(log[i].vc, clocks[s])
      BY <1>2, <1>3, <2>1, <2>2
    <3>2. \A k \in Services : log[i].vc[k] \in Nat /\ log[i].vc[k] <= clocks[s][k]
      BY <1>2, <2>1, <3>1 DEF LE
    <3>3. log[i].vc[s] < clocks'[s][s] /\ \A k \in Services : log[i].vc[k] <= clocks'[s][k]
      BY <1>2, <1>3, <3>2
    <3> QED  BY <1>3, <2>1, <2>2, <3>3 DEF HappensBefore
  <2>3. CASE j \in 1..n
    BY <1>2, <1>3, <2>1, <2>3, Zenon DEF Informed, Answered
  <2> QED  BY <1>2, <2>2, <2>3
<1> QED  BY <1>5, <1>6

(* A step keeps what it has learnt when its target, or anybody for another  *)
(* reason, emits an event.                                                  *)
LEMMA EmitLearnt ==
    ASSUME IInv, NEW s \in Services, NEW type, NEW cause, Emit(s, type, cause),
           NEW t \in Steps, Learnt(t), step'[t] = step[t],
           \/ cause = 0
           \/ cause # step[t].sent
           \/ step[t].at = "sent" /\ s = step[t].target
    PROVE  Learnt(t)'
<1> DEFINE n == Len(log)
<1>1. TypeOK
  BY DEF IInv
<1>2. /\ \A u, k \in Services : clocks[u][k] \in Nat
      /\ \A i \in 1..n : \A k \in Services : log[i].vc[k] \in Nat
      /\ DOMAIN log = 1..n /\ n \in Nat
  BY <1>1, Entries
<1>3. /\ DOMAIN log' = 1..(n + 1)
      /\ \A i \in 1..n : log'[i] = log[i]
      /\ log'[n + 1].vc = clocks'[s] /\ log'[n + 1].cause = cause
      /\ clocks'[s][s] = clocks[s][s] + 1
      /\ \A k \in Services \ {s} : clocks'[s][k] = clocks[s][k]
      /\ \A u \in Services \ {s} : clocks'[u] = clocks[u]
  BY <1>1, EmitFacts
<1>4. step[t].target \in Services /\ Test \in Services
  BY <1>1, NamesAssumption DEF TypeOK
<1> HIDE DEF n
<1>5. ASSUME NEW i \in 1..n, NEW u \in Services, LE(log[i].vc, clocks[u])
      PROVE  LE(log[i].vc, clocks'[u])
  <2>1. CASE u = s
    BY <1>2, <1>3, <1>5, <2>1 DEF LE
  <2> QED  BY <1>3, <1>5, <2>1 DEF LE
<1> SUFFICES ASSUME step[t].sent # 0, NEW i \in 1..(n + 1), log'[i].cause = step[t].sent
             PROVE  /\ step[t].at = "sent" => LE(log'[i].vc, clocks'[step[t].target])
                    /\ step[t].at = "answered" => LE(log'[i].vc, clocks'[Test])
  BY <1>3 DEF Learnt, LE
<1>6. CASE i \in 1..n
  <2>1. /\ step[t].at = "sent" => LE(log[i].vc, clocks[step[t].target])
        /\ step[t].at = "answered" => LE(log[i].vc, clocks[Test])
    BY <1>2, <1>3, <1>6 DEF Learnt
  <2> QED  BY <1>3, <1>4, <1>5, <1>6, <2>1
<1>7. CASE i = n + 1
  <2>1. step[t].at = "sent" /\ s = step[t].target
    BY <1>3, <1>7
  <2>2. \A k \in Services : clocks'[s][k] \in Nat
    BY <1>2, <1>3
  <2>3. LE(log'[i].vc, clocks'[s])
    BY <1>3, <1>7, <2>2 DEF LE
  <2> QED  BY <2>1, <2>3
<1> QED  BY <1>2, <1>6, <1>7

(* A merge takes nothing away, and passes on what the other side knows.     *)
LEMMA MergeRises ==
    ASSUME IInv, NEW l \in Services, NEW r \in Services, MergeClock(l, r),
           NEW i \in DOMAIN log, NEW u \in Services
    PROVE  /\ LE(log[i].vc, clocks[u]) => LE(log[i].vc, clocks'[u])
           /\ LE(log[i].vc, clocks[r]) => LE(log[i].vc, clocks'[l])
<1>1. TypeOK
  BY DEF IInv
<1>2. /\ \A v, k \in Services : clocks[v][k] \in Nat
      /\ \A k \in Services : log[i].vc[k] \in Nat
  BY <1>1, Entries
<1>3. /\ \A k \in Services : clocks'[l][k] = Larger(clocks[l][k], clocks[r][k])
      /\ \A v \in Services \ {l} : clocks'[v] = clocks[v]
  BY <1>1, MergeFacts
<1>4. LE(log[i].vc, clocks[l]) \/ LE(log[i].vc, clocks[r]) => LE(log[i].vc, clocks'[l])
  BY <1>2, <1>3 DEF LE, Larger
<1>5. CASE u = l
  BY <1>4, <1>5
<1> QED  BY <1>3, <1>4, <1>5 DEF LE

LEMMA MergeLearnt ==
    ASSUME IInv, NEW l \in Services, NEW r \in Services, MergeClock(l, r), UNCHANGED log,
           NEW t \in Steps, Learnt(t),
           \/ step'[t] = step[t]
           \/ step'[t].sent = 0
           \/ /\ step[t].at = "sent" /\ step'[t].at = "answered" /\ step'[t].sent = step[t].sent
              /\ l = Test /\ r = step[t].target
    PROVE  Learnt(t)'
<1>1. step[t].target \in Services /\ Test \in Services
  BY NamesAssumption DEF IInv, TypeOK
<1>2. \A i \in DOMAIN log : \A u \in Services :
          /\ LE(log[i].vc, clocks[u]) => LE(log[i].vc, clocks'[u])
          /\ LE(log[i].vc, clocks[r]) => LE(log[i].vc, clocks'[l])
  BY MergeRises
<1> SUFFICES ASSUME step'[t].sent # 0, NEW i \in DOMAIN log, log[i].cause = step'[t].sent
             PROVE  /\ step'[t].at = "sent" => LE(log[i].vc, clocks'[step'[t].target])
                    /\ step'[t].at = "answered" => LE(log[i].vc, clocks'[Test])
  BY DEF Learnt, LE
<1>3. CASE step'[t] = step[t]
  BY <1>1, <1>2, <1>3 DEF Learnt
<1>4. CASE /\ step[t].at = "sent" /\ step'[t].at = "answered" /\ step'[t].sent = step[t].sent
           /\ l = Test /\ r = step[t].target
  <2>1. LE(log[i].vc, clocks[r])
    BY <1>4 DEF Learnt
  <2> QED  BY <1>1, <1>2, <1>4, <2>1
<1> QED  BY <1>3, <1>4

(* An event of a service that no request caused, the steps unchanged.       *)
LEMMA PlainEmit ==
    ASSUME IInv, Informed, NEW s \in Services, NEW type, type # "step_recv",
           Emit(s, type, 0), UNCHANGED step
    PROVE  Informed'
<1>1. Answered' /\ \A i \in DOMAIN log' : log'[i].cause <= Len(log')
  <2>1. 0 \in Nat /\ 0 <= Len(log)
    BY Entries DEF IInv
  <2> QED  BY <2>1, EmitInforms
<1>2. \A t \in Steps : Learnt(t)'
  BY EmitLearnt DEF Informed
<1>3. Named'
  <2>1. Len(log') = Len(log) + 1 /\ Len(log) \in Nat
    BY EmitFacts, Entries DEF IInv
  <2>2. \A t \in Steps : step[t].sent \in Nat
    BY DEF IInv, TypeOK
  <2> QED  BY <1>1, <2>1, <2>2 DEF Informed, Named
<1> QED  BY <1>1, <1>2, <1>3 DEF Informed

(* The callbacks of the services.                                           *)
LEMMA ServiceInforms ==
    ASSUME IInv, TypeOK', Causal, Informed, ServiceNext
    PROVE  Causal' /\ Informed'
<1>1. PICK s \in Services \ {Test} :
          Syscall(s) \/ NetworkCall(s) \/ \E r \in Services : MergeOther(s, r)
  BY DEF ServiceNext
<1>2. CASE Syscall(s)
  <2>1. Emit(s, "syscall", 0) /\ UNCHANGED step
    BY <1>2 DEF Syscall
  <2> QED  BY <2>1, EmitCausal, PlainEmit
<1>3. CASE NetworkCall(s)
  <2>1. Emit(s, "network", 0) /\ UNCHANGED step
    BY <1>3 DEF NetworkCall
  <2> QED  BY <2>1, EmitCausal, PlainEmit
<1>4. ASSUME NEW r \in Services, MergeOther(s, r)
      PROVE  Causal' /\ Informed'
  <2>1. MergeClock(s, r) /\ UNCHANGED log /\ UNCHANGED step
    BY <1>4 DEF MergeOther
  <2>2. \A t \in Steps : Learnt(t)'
    BY <2>1, MergeLearnt DEF Informed
  <2>3. Named' /\ Answered'
    BY <2>1 DEF Informed, Named, Answered, HappensBefore
  <2> QED  BY <2>1, <2>2, <2>3, MergeCausal DEF Informed
<1> QED  BY <1>1, <1>2, <1>3, <1>4

(* The steps: step_send names the request, and step_recv follows a merge    *)
(* that told the driver of everything the request caused.                   *)
LEMMA StepInforms ==
    ASSUME IInv, TypeOK', Causal, Informed, StepNext
    PROVE  Causal' /\ Informed'
<1> USE NamesAssumption
<1>0. /\ TypeOK /\ step \in [Steps -> StepType]
      /\ \A u \in Steps : step[u].sent \in Nat /\ step[u].target \in Services
      /\ Len(log) \in Nat
  BY Entries DEF IInv, TypeOK, StepType
<1>1. PICK t \in Steps :
          \/ \E s \in Services \ {Test} : StepMerges(t, s)
          \/ StepSends(t) \/ Reacts(t) \/ StepMergesBack(t) \/ StepReceives(t) \/ StepFails(t)
  BY DEF StepNext
<1>2. /\ \A i \in DOMAIN log : log[i].cause <= Len(log)
      /\ \A u \in Steps : step[u].sent <= Len(log)
      /\ \A u \in Steps : step[u].at \in {"idle", "merged"} => step[u].sent = 0
      /\ \A u, v \in Steps : u # v /\ step[u].sent # 0 => step[u].sent # step[v].sent
  BY DEF Informed, Named
<1>3. ASSUME NEW s \in Services, StepMerges(t, s)
      PROVE  Causal' /\ Informed'
  <2>1. MergeClock(s, Test) /\ UNCHANGED log
    BY <1>3 DEF StepMerges
  <2>2. /\ \A u \in Steps \ {t} : step'[u] = step[u]
        /\ step'[t].sent = 0
    BY <1>0, <1>3 DEF StepMerges
  <2>3. \A u \in Steps : Learnt(u)'
    BY <2>1, <2>2, MergeLearnt DEF Informed
  <2>4. Named'
    BY <1>0, <1>2, <2>1, <2>2 DEF Named
  <2>5. Answered'
    BY <2>1 DEF Informed, Answered, HappensBefore
  <2> QED  BY <2>1, <2>3, <2>4, <2>5, MergeCausal DEF Informed
<1>4. CASE StepSends(t)
  <2>1. Emit(Test, "step_send", 0) /\ step[t].at = "merged"
    BY <1>4 DEF StepSends
  <2>2. /\ \A u \in Steps \ {t} : step'[u] = step[u]
        /\ step'[t].sent = Len(log) + 1 /\ step'[t].at = "sent"
    BY <1>0, <1>4 DEF StepSends, StepType
  <2>3. Answered' /\ \A i \in DOMAIN log' : log'[i].cause <= Len(log')
    <3>1. 0 \in Nat /\ 0 <= Len(log)
      BY <1>0
    <3> QED  BY <2>1, <3>1, EmitInforms
  <2>4. /\ Len(log') = Len(log) + 1 /\ DOMAIN log' = 1..(Len(log) + 1) /\ DOMAIN log = 1..Len(log)
        /\ \A i \in 1..Len(log) : log'[i] = log[i]
        /\ log'[Len(log) + 1].cause = 0
    BY <1>0, <2>1, EmitFacts, Entries
  <2>5. ASSUME NEW u \in Steps PROVE Learnt(u)'
    <3>1. CASE u = t
      <4>1. \A i \in DOMAIN log' : log'[i].cause # Len(log) + 1
        BY <1>0, <1>2, <2>4
      <4> QED  BY <2>2, <3>1, <4>1 DEF Learnt
    <3>2. CASE u # t
      BY <2>1, <2>2, <3>2, EmitLearnt DEF Informed
    <3> QED  BY <3>1, <3>2
  <2>6. Named'
    BY <1>0, <1>2, <2>2, <2>3, <2>4 DEF Named
  <2> QED  BY <2>1, <2>3, <2>5, <2>6, EmitCausal DEF Informed
<1>5. CASE Reacts(t)
  <2>1. /\ Emit(step[t].target, "syscall", step[t].sent) /\ step[t].at = "sent"
        /\ UNCHANGED step
    BY <1>5 DEF Reacts
  <2>2. Answered' /\ \A i \in DOMAIN log' : log'[i].cause <= Len(log')
    BY <1>0, <1>2, <2>1, EmitInforms
  <2>3. \A u \in Steps : Learnt(u)'
    BY <1>0, <1>2, <2>1, EmitLearnt DEF Informed
  <2>4. Len(log') = Len(log) + 1
    BY <1>0, <2>1, EmitFacts
  <2>5. Named'
    BY <1>0, <1>2, <2>1, <2>2, <2>4 DEF Named
  <2> QED  BY <1>0, <2>1, <2>2, <2>3, <2>5, EmitCausal DEF Informed
<1>6. CASE StepMergesBack(t)
  <2>1. MergeClock(Test, step[t].target) /\ UNCHANGED log /\ step[t].at = "sent"
    BY <1>6 DEF StepMergesBack, At
  <2>2. /\ \A u \in Steps \ {t} : step'[u] = step[u]
        /\ step'[t].sent = step[t].sent /\ step'[t].at = "answered"
    BY <1>0, <1>6 DEF StepMergesBack, At, StepType
  <2>3. \A u \in Steps : Learnt(u)'
    BY <1>0, <2>1, <2>2, MergeLearnt DEF Informed
  <2>4. Named'
    BY <1>0, <1>2, <2>1, <2>2 DEF Named
  <2>5. Answered'
    BY <2>1 DEF Informed, Answered, HappensBefore
  <2> QED  BY <1>0, <2>1, <2>3, <2>4, <2>5, MergeCausal DEF Informed
<1>7. CASE StepReceives(t)
  <2>1. Emit(Test, "step_recv", step[t].sent) /\ step[t].at = "answered"
    BY <1>7 DEF StepReceives, At
  <2>2. /\ \A u \in Steps \ {t} : step'[u] = step[u]
        /\ step'[t].sent = step[t].sent /\ step'[t].at = "done"
    BY <1>0, <1>7 DEF StepReceives, At, StepType
  <2>3. Answered' /\ \A i \in DOMAIN log' : log'[i].cause <= Len(log')
    <3>1. step[t].sent # 0 =>
             \A i \in DOMAIN log : log[i].cause = step[t].sent => LE(log[i].vc, clocks[Test])
      BY <2>1 DEF Informed, Learnt
    <3> QED  BY <1>0, <1>2, <2>1, <3>1, EmitInforms
  <2>4. Len(log') = Len(log) + 1
    BY <1>0, <2>1, EmitFacts
  <2>5. ASSUME NEW u \in Steps PROVE Learnt(u)'
    <3>1. CASE u = t
      BY <2>2, <3>1 DEF Learnt
    <3>2. CASE u # t
      BY <1>0, <1>2, <2>1, <2>2, <3>2, EmitLearnt DEF Informed
    <3> QED  BY <3>1, <3>2
  <2>6. Named'
    BY <1>0, <1>2, <2>2, <2>3, <2>4 DEF Named
  <2> QED  BY <2>1, <2>3, <2>5, <2>6, EmitCausal DEF Informed
<1>8. CASE StepFails(t)
  <2>1. UNCHANGED <<log, clocks, past>> /\ step[t].at = "sent"
    BY <1>8 DEF StepFails, At
  <2>2. /\ \A u \in Steps \ {t} : step'[u] = step[u]
        /\ step'[t].sent = step[t].sent /\ step'[t].at = "done"
    BY <1>0, <1>8 DEF StepFails, At, StepType
  <2>3. \A u \in Steps : Learnt(u)'
    BY <2>1, <2>2 DEF Informed, Learnt, LE
  <2>4. Named'
    BY <1>0, <1>2, <2>1, <2>2 DEF Named
  <2>5. Answered'
    BY <2>1 DEF Informed, Answered, HappensBefore
  <2>6. Causal'
    BY <2>1 DEF Causal, PastLogged, Closed, PastIsBelow, LoggedPastIsBelow, Owned, LE
  <2> QED  BY <2>3, <2>4, <2>5, <2>6 DEF Informed
<1> QED  BY <1>1, <1>3, <1>4, <1>5, <1>6, <1>7, <1>8

LEMMA UnownedInforms ==
    ASSUME IInv, Informed, EmitUnowned
    PROVE  Informed'
<1> DEFINE n == Len(log)
<1>1. TypeOK
  BY DEF IInv
<1>2. DOMAIN log = 1..n /\ n \in Nat /\ \A u \in Steps : step[u].sent \in Nat
  BY <1>1, Entries DEF TypeOK
<1>3. /\ DOMAIN log' = 1..(n + 1) /\ Len(log') = n + 1
      /\ \A i \in 1..n : log'[i] = log[i]
      /\ log'[n + 1].cause = 0 /\ UNCHANGED <<clocks, step>>
  BY <1>1, UnownedFacts
<1>4. \A i \in 1..n : log[i].cause \in Nat
  <2>1. \A i \in 1..n : log[i] \in EventType
    BY <1>1, <1>2 DEF TypeOK
  <2> QED  BY <2>1 DEF EventType
<1>5. /\ \A i \in 1..n : log[i].cause <= n
      /\ \A u \in Steps : step[u].sent <= n
  BY <1>2 DEF Informed, Named
<1> HIDE DEF n
<1>6. Named'
  BY <1>2, <1>3, <1>4, <1>5 DEF Informed, Named
<1>7. \A t \in Steps : Learnt(t)'
  BY <1>2, <1>3 DEF Informed, Learnt, LE
<1>8. Answered'
  BY <1>2, <1>3 DEF Informed, Answered, HappensBefore
<1> QED  BY <1>6, <1>7, <1>8 DEF Informed

LEMMA ResetInforms ==
    ASSUME IInv, Reset
    PROVE  Causal' /\ Informed'
<1>1. log' = <<>> /\ past' = [s \in Services |-> {}]
  BY DEF Reset
<1>2. DOMAIN log' = {} /\ Len(log') = 0
  BY <1>1
<1>3. Causal'
  BY <1>1, <1>2 DEF Causal, PastLogged, Closed, PastIsBelow, LoggedPastIsBelow, Owned
<1>4. \A t \in Steps : step'[t].sent = 0
  BY DEF IInv, TypeOK, Reset
<1>5. Informed'
  BY <1>2, <1>4 DEF Informed, Named, Learnt, Answered
<1> QED  BY <1>3, <1>5

(* Causal and Informed hold in every reachable state.                       *)
THEOREM HistoryInvariant == Spec => [](IInv /\ Causal /\ Informed)
<1>1. Init => Causal /\ Informed
  <2> SUFFICES ASSUME Init PROVE Causal /\ Informed
    OBVIOUS
  <2>1. DOMAIN log = {} /\ Len(log) = 0
    BY DEF Init
  <2>2. \A t \in Steps : step[t].sent = 0
    BY DEF Init, Idle
  <2> QED  BY <2>1, <2>2, EmptyCausal DEF Init, Informed, Named, Learnt, Answered
<1>2. IInv /\ IInv' /\ Causal /\ Informed /\ [Next]_vars => (Causal /\ Informed)'
  <2> SUFFICES ASSUME IInv, IInv', Causal, Informed, [Next]_vars PROVE (Causal /\ Informed)'
    OBVIOUS
  <2>1. TypeOK'
    BY DEF IInv
  <2>2. CASE UNCHANGED vars
    <3>1. Causal'
      BY <2>2 DEF vars, Causal, PastLogged, Closed, PastIsBelow, LoggedPastIsBelow, Owned, LE
    <3>2. Informed'
      BY <2>2 DEF vars, Informed, Named, Learnt, Answered, HappensBefore, LE, Owned
    <3>3. QED
      BY <3>1, <3>2
  <2>3. CASE Next
    BY <2>1, <2>3, ServiceInforms, StepInforms, UnownedCausal, UnownedInforms, ResetInforms DEF Next
  <2> QED  BY <2>2, <2>3
<1> QED  BY <1>1, <1>2, EventLogInvariant, PTL DEF Spec

(* However emitters, merges, requests and tests interleave, happens_before  *)
(* holds between two events of services exactly when the first is in the    *)
(* causal past of the second, and what a request made its target do happens *)
(* before its step_recv.                                                    *)
THEOREM HappensBeforeIsExact == Spec => []ClocksAreCausality
<1>1. IInv /\ Causal /\ Informed => ClocksAreCausality
  <2> SUFFICES ASSUME IInv, Causal, Informed PROVE ClocksAreCausality
    OBVIOUS
  <2>1. ASSUME NEW i \in Owned, NEW j \in Owned, i # j
        PROVE  HappensBefore(log[i].vc, log[j].vc) <=> i \in log[j].past
    <3>1. /\ i \in DOMAIN log /\ j \in DOMAIN log /\ i \in Nat /\ j \in Nat
          /\ log[i].svc \in Services /\ log[j].svc \in Services
          /\ \A k \in Services : log[i].vc[k] \in Nat /\ log[j].vc[k] \in Nat
      BY Entries DEF IInv
    <3>2. i \in log[j].past <=> LE(log[i].vc, log[j].vc)
      BY <2>1 DEF Causal, LoggedPastIsBelow
    <3>3. CASE i < j
      <4>1. log[i].vc[log[j].svc] < log[j].vc[log[j].svc]
        BY <3>1, <3>3 DEF IInv, OwnEntryGrows
      <4> QED  BY <3>1, <3>2, <4>1 DEF HappensBefore, LE
    <3>4. CASE j < i
      <4>1. log[j].vc[log[i].svc] < log[i].vc[log[i].svc]
        BY <3>1, <3>4 DEF IInv, OwnEntryGrows
      <4>2. ~(log[i].vc[log[i].svc] <= log[j].vc[log[i].svc])
        BY <3>1, <4>1
      <4> QED  BY <3>1, <3>2, <4>2 DEF HappensBefore, LE
    <3> QED  BY <2>1, <3>1, <3>3, <3>4
  <2> QED  BY <2>1 DEF ClocksAreCausality, Informed, Answered
<1> QED  BY <1>1, HistoryInvariant, PTL

----------------------------------------------------------------------------
(* await_event misses no event, for any number of emitters, waits and       *)
(* events (Await). entries is the log as its subscribers see it.            *)

CONSTANTS Emitters, EventWaits, StableWaits, Window

VARIABLES entries, subs, emitting, wait, chan, sent, timer, cancelled

A == INSTANCE Await WITH log <- entries

(* A subscribed wait whose sync.Once was used has its hit in the channel.   *)
HitIsKept ==
    \A w \in EventWaits :
        wait[w] \in {"subscribed", "waiting"} /\ sent[w] => chan[w]

(* A wait that has not subscribed has not been called and will not be.      *)
NotYetCalled ==
    \A w \in EventWaits :
        wait[w] \in {"called", "missing"} =>
            ~sent[w] /\ \A e \in Emitters : w \notin emitting[e].left

(* The inductive invariant.                                                 *)
AwaitInv == A!TypeOK /\ HitIsKept /\ NotYetCalled /\ A!NoMissedEvent

(* Initially nobody has subscribed and nothing is logged.                   *)
LEMMA AwaitInit == A!AwaitConstants /\ A!Init => AwaitInv
<1> SUFFICES ASSUME A!AwaitConstants, A!Init PROVE AwaitInv
  OBVIOUS
<1>1. A!TypeOK
  <2>1. entries \in Seq({"match", "other"}) /\ Len(entries) <= MaxEvents
    BY DEF A!AwaitConstants, A!Init
  <2>2. /\ emitting \in [Emitters -> [at : {"idle", "appended", "dispatching"},
                                     ev : {"match", "other"}, left : SUBSET A!Awaits]]
        /\ subs = {w \in A!Awaits : wait[w] \in {"subscribed", "waiting"}}
    BY DEF A!Init, A!Idle
  <2>3. timer \in [StableWaits -> 0..Window]
    BY DEF A!AwaitConstants, A!Init
  <2>4. QED
    BY <2>1, <2>2, <2>3, Zenon DEF A!Init, A!TypeOK
<1>2. HitIsKept /\ NotYetCalled /\ A!NoMissedEvent
  BY DEF A!Init, A!Idle, A!Awaits, HitIsKept, NotYetCalled, A!NoMissedEvent, A!Matched
<1>3. QED
  BY <1>1, <1>2 DEF AwaitInv

(* An appended match is on its way to every wait.                           *)
LEMMA AppendPreserves ==
  ASSUME A!AwaitConstants, AwaitInv,
         NEW e \in Emitters, NEW ev \in {"match", "other"}, A!Append1(e, ev)
  PROVE  AwaitInv'
<1> USE DEF AwaitInv
<1>1. /\ entries' \in Seq({"match", "other"}) /\ Len(entries') = Len(entries) + 1
      /\ \A i \in DOMAIN entries' : entries'[i] = IF i = Len(entries) + 1 THEN ev ELSE entries[i]
      /\ \A i \in DOMAIN entries' : i # Len(entries) + 1 => i \in DOMAIN entries
  BY DEF A!Append1, A!TypeOK
<1>2. A!TypeOK'
  BY <1>1 DEF A!Append1, A!TypeOK, A!Awaits, A!AwaitConstants
<1>3. HitIsKept' /\ NotYetCalled'
  BY DEF A!Append1, HitIsKept, NotYetCalled, A!TypeOK
<1>4. ASSUME NEW w \in EventWaits, wait[w] = "waiting", A!Matched'
      PROVE  chan[w] \/ A!OnItsWay(w)'
  <2>1. CASE ev = "match"
    BY <2>1 DEF A!Append1, A!OnItsWay, A!TypeOK
  <2>2. CASE ev = "other"
    <3>1. A!Matched
      BY <1>1, <1>4, <2>2 DEF A!Matched
    <3>2. CASE chan[w]
      BY <3>2
    <3>3. CASE A!OnItsWay(w)
      BY <3>3 DEF A!Append1, A!OnItsWay, A!TypeOK
    <3>4. QED
      BY <1>4, <3>1, <3>2, <3>3 DEF A!NoMissedEvent
  <2>3. QED
    BY <2>1, <2>2
<1>5. QED
  BY <1>2, <1>3, <1>4 DEF A!NoMissedEvent, A!Append1

(* The copy an emitter takes holds every wait that waits.                   *)
LEMMA CopyPreserves ==
  ASSUME AwaitInv, NEW e \in Emitters, A!CopySubscribers(e)
  PROVE  AwaitInv'
<1> USE DEF AwaitInv
<1>1. A!TypeOK'
  BY DEF A!CopySubscribers, A!TypeOK, A!Awaits
<1>2. HitIsKept' /\ NotYetCalled'
  BY DEF A!CopySubscribers, HitIsKept, NotYetCalled, A!TypeOK, A!Awaits
<1>3. ASSUME NEW w \in EventWaits, wait[w] = "waiting", A!OnItsWay(w)
      PROVE  A!OnItsWay(w)'
  <2>1. w \in subs
    BY <1>3 DEF A!TypeOK, A!Awaits
  <2>2. QED
    BY <1>3, <2>1 DEF A!CopySubscribers, A!OnItsWay, A!TypeOK
<1>4. QED
  BY <1>1, <1>2, <1>3 DEF A!NoMissedEvent, A!CopySubscribers, A!Matched

(* A callback leaves a match in the channel of the wait it was for.         *)
LEMMA CallPreserves ==
  ASSUME AwaitInv, NEW e \in Emitters, NEW v \in A!Awaits, A!Call(e, v)
  PROVE  AwaitInv'
<1> USE DEF AwaitInv
<1>1. A!TypeOK'
  BY Zenon DEF A!Call, A!TypeOK, A!Awaits
<1>2. HitIsKept' /\ NotYetCalled'
  BY Zenon DEF A!Call, A!TypeOK, HitIsKept, NotYetCalled, A!Awaits
<1>3. ASSUME NEW w \in EventWaits, wait[w] = "waiting", chan[w] \/ A!OnItsWay(w)
      PROVE  chan'[w] \/ A!OnItsWay(w)'
  <2>1. CASE chan[w]
    BY <2>1 DEF A!Call, A!TypeOK, A!Awaits
  <2>2. CASE A!OnItsWay(w) /\ w # v
    BY <2>2 DEF A!Call, A!OnItsWay, A!TypeOK
  <2>3. CASE A!OnItsWay(w) /\ w = v /\ emitting[e].ev = "match"
    BY <1>3, <2>3, Zenon DEF A!Call, HitIsKept, A!TypeOK, A!Awaits
  <2>4. CASE A!OnItsWay(w) /\ w = v /\ emitting[e].ev # "match"
    BY <2>4 DEF A!Call, A!OnItsWay, A!TypeOK
  <2>5. QED
    BY <1>3, <2>1, <2>2, <2>3, <2>4
<1>4. QED
  BY <1>1, <1>2, <1>3 DEF A!NoMissedEvent, A!Call, A!Matched

(* An emit that returns has called everybody.                               *)
LEMMA EmitReturnsPreserves ==
  ASSUME AwaitInv, NEW e \in Emitters, A!EmitReturns(e)
  PROVE  AwaitInv'
<1> USE DEF AwaitInv
<1>1. A!TypeOK'
  BY DEF A!EmitReturns, A!Idle, A!TypeOK, A!Awaits
<1>2. HitIsKept' /\ NotYetCalled'
  BY DEF A!EmitReturns, A!Idle, HitIsKept, NotYetCalled, A!TypeOK
<1>3. ASSUME NEW w \in EventWaits, A!OnItsWay(w) PROVE A!OnItsWay(w)'
  BY <1>3 DEF A!EmitReturns, A!OnItsWay, A!TypeOK
<1>4. QED
  BY <1>1, <1>2, <1>3 DEF A!NoMissedEvent, A!EmitReturns, A!Matched

(* A wait starts to block only when nothing matches under its subscription. *)
LEMMA EventWaitPreserves ==
  ASSUME A!AwaitConstants, AwaitInv, NEW v \in EventWaits, A!EventWaitNext(v)
  PROVE  AwaitInv'
<1> USE DEF AwaitInv
<1>1. A!TypeOK'
  <2>1. CASE A!EagerCheck(v)
    BY <2>1 DEF A!EagerCheck, A!Goes, A!TypeOK, A!Awaits
  <2>2. CASE A!Subscribe(v)
    BY <2>2 DEF A!Subscribe, A!Goes, A!TypeOK, A!Awaits
  <2>3. CASE A!Recheck(v)
    BY <2>3 DEF A!Recheck, A!Returns, A!Goes, A!TypeOK, A!Awaits
  <2>4. CASE A!Hit(v)
    BY <2>4 DEF A!Hit, A!Returns, A!Goes, A!TypeOK, A!Awaits
  <2>5. CASE A!GivesUp(v)
    BY <2>5 DEF A!GivesUp, A!Returns, A!Goes, A!TypeOK, A!Awaits
  <2>6. QED
    BY <2>1, <2>2, <2>3, <2>4, <2>5 DEF A!EventWaitNext
<1>2. HitIsKept' /\ NotYetCalled'
  BY DEF A!EventWaitNext, A!EagerCheck, A!Subscribe, A!Recheck, A!Hit, A!GivesUp, A!Returns, A!Goes,
         A!TypeOK, A!Awaits, HitIsKept, NotYetCalled
<1>3. ASSUME NEW w \in EventWaits, wait'[w] = "waiting", A!Matched'
      PROVE  chan'[w] \/ A!OnItsWay(w)'
  <2>1. A!Matched /\ (A!OnItsWay(w) => A!OnItsWay(w)')
    BY <1>3 DEF A!EventWaitNext, A!EagerCheck, A!Subscribe, A!Recheck, A!Hit, A!GivesUp, A!Returns,
                A!Goes, A!Matched, A!OnItsWay
  <2>2. wait[w] = "waiting" /\ chan'[w] = chan[w]
    BY <1>3, <2>1 DEF A!EventWaitNext, A!EagerCheck, A!Subscribe, A!Recheck, A!Hit, A!GivesUp,
                      A!Returns, A!Goes, A!TypeOK, A!Awaits
  <2>3. QED
    BY <1>3, <2>1, <2>2 DEF A!NoMissedEvent
<1>4. QED
  BY <1>1, <1>2, <1>3 DEF A!NoMissedEvent

(* await_stable, the clock and cancellation leave event waits alone.        *)
LEMMA OthersPreserve ==
  ASSUME A!AwaitConstants, AwaitInv,
         (\E v \in StableWaits : A!StableWaitNext(v)) \/ A!Tick \/ A!Cancel
  PROVE  AwaitInv'
<1> USE DEF AwaitInv
<1>1. ASSUME NEW v \in StableWaits, A!StableWaitNext(v) PROVE AwaitInv'
  <2>1. A!TypeOK'
    <3>1. CASE A!SubscribeStable(v)
      BY <3>1 DEF A!SubscribeStable, A!Goes, A!TypeOK, A!Awaits, A!AwaitConstants
    <3>2. CASE A!ResetTimer(v)
      BY <3>2 DEF A!ResetTimer, A!TypeOK, A!Awaits, A!AwaitConstants
    <3>3. CASE A!Stable(v) \/ A!GivesUp(v)
      BY <3>3, Zenon DEF A!Stable, A!GivesUp, A!Returns, A!Goes, A!TypeOK, A!Awaits
    <3>4. QED
      BY <1>1, <3>1, <3>2, <3>3 DEF A!StableWaitNext
  <2>2. /\ UNCHANGED <<entries, emitting, sent>>
        /\ \A w \in EventWaits : wait'[w] = wait[w] /\ chan'[w] = chan[w]
    BY <1>1 DEF A!StableWaitNext, A!SubscribeStable, A!ResetTimer, A!Stable, A!GivesUp, A!Returns,
                A!Goes, A!TypeOK, A!Awaits, A!AwaitConstants
  <2>3. QED
    BY <2>1, <2>2, Zenon DEF HitIsKept, NotYetCalled, A!NoMissedEvent, A!Matched, A!OnItsWay
<1>2. CASE A!Tick \/ A!Cancel
  <2>1. A!TypeOK'
    <3>1. CASE A!Tick
      <4>1. timer' \in [StableWaits -> 0..Window]
        BY <3>1 DEF A!Tick, A!TypeOK, A!AwaitConstants
      <4>2. QED
        BY <3>1, <4>1 DEF A!Tick, A!TypeOK
    <3>2. CASE A!Cancel
      BY <3>2 DEF A!Cancel, A!TypeOK
    <3>3. QED
      BY <1>2, <3>1, <3>2
  <2>2. QED
    BY <1>2, <2>1 DEF A!Tick, A!Cancel, HitIsKept, NotYetCalled, A!NoMissedEvent, A!Matched, A!OnItsWay
<1>3. QED
  BY <1>1, <1>2

(* A step that changes nothing.                                             *)
LEMMA StutterPreserves == AwaitInv /\ UNCHANGED A!vars => AwaitInv'
BY DEF AwaitInv, A!vars, A!TypeOK, HitIsKept, NotYetCalled, A!NoMissedEvent, A!Matched, A!OnItsWay

(* await_event blocks only while nothing matching is logged, or with the    *)
(* match in its channel or on its way to it: the check between subscription *)
(* and select closes the gap the eager check leaves (await.go 98-136).     *)
THEOREM NoEventIsMissed == A!AwaitConstants => (A!Spec => [](A!TypeOK /\ A!NoMissedEvent))
<1> SUFFICES ASSUME A!AwaitConstants PROVE A!Spec => [](A!TypeOK /\ A!NoMissedEvent)
  OBVIOUS
<1>1. A!Init => AwaitInv
  BY AwaitInit
<1>2. AwaitInv /\ [A!Next]_(A!vars) => AwaitInv'
  BY AppendPreserves, CopyPreserves, CallPreserves, EmitReturnsPreserves,
     EventWaitPreserves, OthersPreserve, StutterPreserves DEF A!Next, A!EmitterNext
<1>3. AwaitInv => A!TypeOK /\ A!NoMissedEvent
  BY DEF AwaitInv
<1>4. QED
  BY <1>1, <1>2, <1>3, PTL DEF A!Spec
=============================================================================
