----------------------------- MODULE ClaimLease -----------------------------
(***************************************************************************)
(* What a claim lock promises, and nothing else: it is taken when it is    *)
(* free, one taking is good for at most one run, by the process that took  *)
(* it, and it is never given back but by an operator.  Only an operator    *)
(* who takes it from a process at work breaks the lease: from then on      *)
(* nothing is promised of that package.                                    *)
(***************************************************************************)
CONSTANTS Packages, Procs

VARIABLES
  holder,    \* [Packages -> Procs \cup {"free"}]: who has taken the lock
  unused,    \* packages whose lock was taken and not yet used for a run
  running,   \* [Packages -> SUBSET Procs]: who runs the package
  broken     \* packages whose lock was taken from a process at work

vars == <<holder, unused, running, broken>>

Init ==
  /\ holder = [p \in Packages |-> "free"]
  /\ unused = {} /\ broken = {}
  /\ running = [p \in Packages |-> {}]

(* Take the lock, to run later, never, or at once.                         *)
Take(p, q) ==
  /\ holder[p] = "free"
  /\ holder' = [holder EXCEPT ![p] = q]
  /\ \/ unused' \in {unused \ {p}, unused \cup {p}} /\ UNCHANGED running
     \/ /\ unused' = unused \ {p}
        /\ running' = [running EXCEPT ![p] = @ \cup {q}]
  /\ UNCHANGED broken

(* The one run a lock is good for; of a broken lease, any.                 *)
Begin(p, q) ==
  /\ \/ holder[p] = q /\ p \in unused
     \/ p \in broken
  /\ running' = [running EXCEPT ![p] = @ \cup {q}]
  /\ unused' = IF holder[p] = q THEN unused \ {p} ELSE unused
  /\ UNCHANGED <<holder, broken>>

End(p, q) ==
  /\ q \in running[p]
  /\ running' = [running EXCEPT ![p] = @ \ {q}]
  /\ UNCHANGED <<holder, unused, broken>>

(* The process that holds the lock ends without a run.                     *)
Forfeit(p) ==
  /\ p \in unused
  /\ unused' = unused \ {p}
  /\ UNCHANGED <<holder, running, broken>>

Reset(p) ==
  /\ holder[p] # "free"
  /\ holder' = [holder EXCEPT ![p] = "free"]
  /\ unused' = unused \ {p}
  /\ broken' \in {broken, broken \cup {p}}
  /\ running[p] # {} \/ p \in unused => p \in broken'
  /\ UNCHANGED running

Next ==
  \E p \in Packages :
    \/ Forfeit(p) \/ Reset(p)
    \/ \E q \in Procs : Take(p, q) \/ Begin(p, q) \/ End(p, q)

Spec == Init /\ [][Next]_vars
=============================================================================
