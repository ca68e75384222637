------------------------- MODULE AtomicPublication -------------------------
(***************************************************************************)
(* What the lease, the directory swap and the rollback of a dashboard      *)
(* release promise together: workflows take turns, and a turn that ends    *)
(* leaves production either as it was or on the workflow's own commit.     *)
(***************************************************************************)
EXTENDS Naturals

CONSTANTS Workflow,      \* the deployments that may run
          NoOne,         \* the holder of a free lease
          Candidate,     \* the commit each workflow publishes
          Ordered,       \* the workflows that never publish an older commit
          Unconditional  \* the workflows that give the lease up whatever happened

VARIABLES live,          \* the commit production serves between two turns, 0 when mixed
          holder         \* the workflow whose turn it is

Init == live \in Nat /\ holder = NoOne

Take(w) == holder = NoOne /\ holder' = w /\ live' = live

Keep(w) == holder = w /\ holder' = NoOne /\ live' = live

Publish(w) ==
    /\ holder = w
    /\ w \in Ordered => live <= Candidate[w]
    /\ holder' = NoOne
    /\ live' = Candidate[w]

Abandon(w) == holder = w /\ w \in Unconditional /\ holder' = NoOne /\ live' \in Nat

Next == \E w \in Workflow : Take(w) \/ Keep(w) \/ Publish(w) \/ Abandon(w)

Spec == Init /\ [][Next]_<<live, holder>>
=============================================================================
