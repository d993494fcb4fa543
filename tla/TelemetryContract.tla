------------------------- MODULE TelemetryContract -------------------------
(***************************************************************************)
(* What the native agent's offline pipeline promises about one collected   *)
(* sample, whatever the agent, the stream and the gateway do in between:   *)
(* once the sample is in the spool it stays pending until PostgreSQL has   *)
(* committed its batch, or the bounded spool has evicted it, or the        *)
(* gateway has rejected it for good and the agent has put it aside.  A     *)
(* committed sample stays committed.  One more thing may happen to it: a   *)
(* process that was restarted may give it the number of a sample that an   *)
(* earlier process of the same boot has delivered; PostgreSQL then keeps   *)
(* the first and drops it, and it is "shadowed".  No step leads to the     *)
(* fate "lost".                                                            *)
(***************************************************************************)
EXTENDS Naturals

CONSTANT Sample             \* every sample that may be collected: [boot, sequence, process]

VARIABLE fate               \* what has become of each sample

Fate == {"unborn", "pending", "committed", "evicted", "quarantined", "shadowed", "lost"}

(* In one step each sample keeps its fate or takes one of these ways.      *)
Along(ways) ==
  /\ fate' \in [Sample -> Fate]
  /\ \A s \in Sample : fate'[s] # fate[s] => <<fate[s], fate'[s]>> \in ways

ContractInit == fate = [s \in Sample |-> "unborn"]

(* A batch enters the spool, which may evict others to make room.          *)
Accept == Along({<<"unborn", "pending">>, <<"pending", "evicted">>})

(* The gateway commits a batch.  The spool may have given the batch up     *)
(* while it was still travelling.                                          *)
Commit == Along({"pending", "evicted", "quarantined", "shadowed"} \X {"committed"})

(* A batch that the gateway rejected for good leaves the queue.            *)
PutAside == Along({<<"pending", "quarantined">>})

(* A batch leaves the queue acknowledged although the conflict clause      *)
(* dropped some of it: only what an earlier process had delivered under    *)
(* the same number.                                                        *)
Numbered(s, t) == t.boot = s.boot /\ t.sequence = s.sequence /\ t.process < s.process

Shadow ==
  /\ Along({<<"pending", "shadowed">>})
  /\ \A s \in Sample : fate'[s] # fate[s] =>
       \E t \in Sample : fate[t] = "committed" /\ Numbered(s, t)

ContractNext == Accept \/ Commit \/ PutAside \/ Shadow

ContractSpec == ContractInit /\ [][ContractNext]_fate

(* A pending sample does not stay pending for ever.                        *)
PendingIsResolved ==
  \A s \in Sample : (fate[s] = "pending") ~> (fate[s] # "pending")
=============================================================================
