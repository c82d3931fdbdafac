---------------------------- MODULE PoolContract ----------------------------
(***************************************************************************)
(* What the memory pool promises its clients, without list or mutex: the   *)
(* blocks it has handed out are disjoint ranges of the pool, each as large *)
(* as was asked for and hardly larger, and a request is refused only when  *)
(* no gap between the blocks could hold it.                                *)
(***************************************************************************)
EXTENDS Integers

CONSTANTS
  Clients,
  Sizes,              (* sizes that are asked for                          *)
  POOL_SIZE,
  HEADER,             (* bytes a block needs besides its data              *)
  GRAIN,              (* sizes are rounded up to a multiple of it          *)
  NULL

VARIABLES
  want,               (* the size a client is waiting for, or NULL         *)
  held                (* the blocks handed out, as pairs <<first, end>>    *)

poolVars == <<want, held>>

Need(n) == ((n + GRAIN - 1) \div GRAIN) * GRAIN + HEADER

IsGap(lo, hi) == \A r \in held : hi <= r[1] \/ r[2] <= lo

ContractInit ==
  /\ want = [c \in Clients |-> NULL]
  /\ held = {}

Ask(c, n) ==
  /\ want[c] = NULL
  /\ want' = [want EXCEPT ![c] = n]
  /\ UNCHANGED held

\* What is left of a gap goes into the block if it could not be one itself.
Grant(c) ==
  /\ want[c] # NULL
  /\ \E lo, hi \in 0..POOL_SIZE :
       /\ Need(want[c]) <= hi - lo
       /\ hi - lo < Need(want[c]) + HEADER + GRAIN
       /\ IsGap(lo, hi)
       /\ held' = held \cup {<<lo, hi>>}
  /\ want' = [want EXCEPT ![c] = NULL]

Refuse(c) ==
  /\ want[c] # NULL
  /\ \A lo \in 0..(POOL_SIZE - Need(want[c])) : ~IsGap(lo, lo + Need(want[c]))
  /\ want' = [want EXCEPT ![c] = NULL]
  /\ UNCHANGED held

Release ==
  /\ \E r \in held : held' = held \ {r}
  /\ UNCHANGED want

ContractNext ==
  \/ \E c \in Clients : (\E n \in Sizes : Ask(c, n)) \/ Grant(c) \/ Refuse(c)
  \/ Release

ContractSpec == ContractInit /\ [][ContractNext]_poolVars
=============================================================================
