------------------------------ MODULE Consume -------------------------------
(***************************************************************************)
(* kafka.consume_many (protocol/kafka_consume_many.go): poll, decode,       *)
(* commit, until enough records came, none came for a while, or the time is *)
(* up. The broker and the group (external) may refuse, take partitions      *)
(* away between polls, and do a commit whose answer is lost.                *)
(***************************************************************************)
EXTENDS Naturals, Sequences

CONSTANTS Topics,     \* the topics to consume: each a sequence of "good" and "bad" records
          MaxRecords, \* max_records
          Idle,       \* idle_timeout, in polls
          Timeout     \* timeout, in polls

ConsumeConstants ==
    /\ Topics \subseteq Seq({"good", "bad"})
    /\ MaxRecords \in Nat /\ Idle \in Nat /\ Timeout \in Nat

VARIABLES
    topic,      \* the records of the partition
    clock,      \* polls of time gone by
    idle,       \* the idle deadline, 0 if there is none
    assigned,   \* the flag the assignment callbacks set
    blocked,    \* rebalances are blocked: between a poll and AllowRebalance
    batch,      \* offsets polled and not yet committed
    records,    \* offsets returned to the spec, in order
    committed,  \* committed_records
    offset,     \* the broker: records before it are committed
    stop        \* "args", "none", "usage", or the stop_reason

consume == <<topic, clock, idle, assigned, blocked, batch, records, committed, offset, stop>>

ConsumeInit ==
    /\ topic \in Topics
    /\ clock = 0 /\ idle = 0 /\ assigned = FALSE /\ blocked = FALSE /\ batch = <<>> /\ records = <<>>
    /\ committed = 0 /\ offset = 0 /\ stop = "args"

----------------------------------------------------------------------------
(* Fault: a failed decode commits what was polled with it. *)
CommittedBeforeDecode(b) == offset' = offset + Len(b)

(* Decoding leaves the offsets alone. *)
Decoding(b) == UNCHANGED offset

(* An argument that is unknown, missing, of a wrong type or out of its      *)
(* range is an error before the broker is called.                           *)
CheckArguments ==
    /\ stop = "args"
    /\ stop' \in {"none", "usage"}
    /\ UNCHANGED <<topic, clock, idle, assigned, blocked, batch, records, committed, offset>>

(* The top of the loop: the caller's context has ended, *)
Cancelled ==
    /\ stop = "none" /\ ~blocked /\ stop' = "cancelled"
    /\ UNCHANGED <<topic, clock, idle, assigned, blocked, batch, records, committed, offset>>

(* Fault: the time is not looked at before the assignment. *)
FinishedOnceAssigned ==
    /\ stop = "none" /\ ~blocked /\ assigned
    /\ \/ clock >= Timeout /\ stop' = "timeout"
       \/ clock < Timeout /\ idle # 0 /\ clock >= idle /\ stop' = "idle_timeout"
    /\ UNCHANGED <<topic, clock, idle, assigned, blocked, batch, records, committed, offset>>

(* the time is up, the idle budget is spent, or a poll is due. The idle     *)
(* budget begins with the assignment.                                       *)
Finished ==
    /\ stop = "none" /\ ~blocked
    /\ \/ clock >= Timeout /\ stop' = (IF assigned THEN "timeout" ELSE "not_assigned")
       \/ clock < Timeout /\ assigned /\ idle # 0 /\ clock >= idle /\ stop' = "idle_timeout"
    /\ UNCHANGED <<topic, clock, idle, assigned, blocked, batch, records, committed, offset>>

Until == IF idle = 0 THEN clock + Idle ELSE idle

(* A poll of the records after the last one polled, or an empty one when    *)
(* its time is up, or an error of the fetch.                                *)
Poll ==
    /\ stop = "none" /\ ~blocked /\ clock < Timeout
    /\ assigned => clock < Until
    /\ idle' = IF assigned THEN Until ELSE 0
    /\ \/ \E n \in 1..(MaxRecords - Len(records)) :
             /\ assigned /\ offset + n <= Len(topic)
             /\ batch' = [i \in 1..n |-> offset + i] /\ blocked' = TRUE
             /\ UNCHANGED <<clock, stop>>
       \/ clock' = (IF assigned THEN Until ELSE clock + 1) /\ UNCHANGED <<batch, blocked, stop>>
       \/ assigned /\ stop' = "error" /\ UNCHANGED <<clock, batch, blocked>>
    /\ UNCHANGED <<topic, assigned, records, committed, offset>>

Bad == {i \in 1..Len(batch) : topic[batch[i]] = "bad"}

(* Each record of the batch is decoded; the first that cannot be is the     *)
(* last one returned.                                                       *)
DecodeFails ==
    /\ stop = "none" /\ blocked
    /\ \E k \in Bad : /\ \A j \in Bad : k <= j
                      /\ records' = records \o SubSeq(batch, 1, k)
    /\ stop' = "decode_error"
    /\ Decoding(batch)
    /\ UNCHANGED <<topic, clock, idle, assigned, blocked, batch, committed>>

Committed ==
    /\ stop = "none" /\ blocked /\ Bad = {}
    /\ records' = records \o batch
    /\ offset' = offset + Len(batch) /\ committed' = committed + Len(batch)
    /\ idle' = clock + Idle /\ batch' = <<>> /\ blocked' = FALSE
    /\ stop' = IF Len(records') >= MaxRecords THEN "max_records" ELSE "none"
    /\ UNCHANGED <<topic, clock, assigned>>

(* The answer is an error, or is lost; the broker may have done it. *)
CommitFails ==
    /\ stop = "none" /\ blocked /\ Bad = {}
    /\ records' = records \o batch
    /\ \/ UNCHANGED offset
       \/ offset' = offset + Len(batch)
    /\ stop' = "commit_error"
    /\ UNCHANGED <<topic, clock, idle, assigned, blocked, batch, committed>>

----------------------------------------------------------------------------
(* The group *)
Assigned ==
    /\ stop = "none" /\ ~assigned /\ assigned' = TRUE
    /\ UNCHANGED <<topic, clock, idle, blocked, batch, records, committed, offset, stop>>
Revoked ==
    /\ stop = "none" /\ assigned /\ ~blocked /\ assigned' = FALSE
    /\ UNCHANGED <<topic, clock, idle, blocked, batch, records, committed, offset, stop>>

ConsumeStep == CheckArguments \/ Finished \/ Poll \/ DecodeFails \/ Committed \/ CommitFails
ConsumeNext == ConsumeStep \/ Cancelled \/ Assigned \/ Revoked
ConsumeSpec == ConsumeInit /\ [][ConsumeNext]_consume

----------------------------------------------------------------------------
(* No record is committed that the spec did not get, decoded: what the      *)
(* group skips for good was seen, whatever ended the read                   *)
(* (kafka_consume_many.go:191).                                             *)
CommittedWereReturned ==
    /\ committed <= offset /\ offset <= Len(records)
    /\ \A i \in 1..offset : records[i] = i /\ topic[i] = "good"
============================================================================
