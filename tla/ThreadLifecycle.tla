--------------------------- MODULE ThreadLifecycle ---------------------------
(***************************************************************************)
(* What a chat thread promises its user, with no processes, claims or      *)
(* files: the life of a thread as docs/context/threads.md tells it.        *)
(* Threads, with one process that rewrites thread.json, implements it.     *)
(***************************************************************************)
EXTENDS Naturals

VARIABLES
  state,    \* "none", "open", "parked", "merged", or "broken" by a crash
  base,     \* the fork point: the length of main the thread sees
  digests   \* digests of the thread that main received

lifeVars == <<state, base, digests>>

Alive == state \in {"open", "parked"}

LifeInit == state = "none" /\ base = 0 /\ digests = 0

Fork == state = "none" /\ state' = "open" /\ base' \in Nat /\ UNCHANGED digests
ParkLife == state = "open" /\ state' = "parked" /\ UNCHANGED <<base, digests>>
ReviveLife == state = "parked" /\ state' = "open" /\ UNCHANGED <<base, digests>>
PullLife == Alive /\ base' \in Nat /\ base' > base /\ UNCHANGED <<state, digests>>
MergeLife == Alive /\ state' = "merged" /\ UNCHANGED <<base, digests>>
Deliver == state = "merged" /\ digests = 0 /\ digests' = 1 /\ UNCHANGED <<state, base>>
DropLife == Alive /\ state' = "none" /\ base' = 0 /\ UNCHANGED digests

\* A crash in the middle of a write leaves a thread.json nothing can read.
Break == state # "merged" /\ state' = "broken" /\ base' = 0 /\ UNCHANGED digests

LifeNext ==
  \/ Fork \/ ParkLife \/ ReviveLife \/ PullLife
  \/ MergeLife \/ Deliver \/ DropLife \/ Break

LifeSpec == LifeInit /\ [][LifeNext]_lifeVars
=============================================================================
