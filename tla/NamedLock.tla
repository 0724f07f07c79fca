------------------------------ MODULE NamedLock ------------------------------
(***************************************************************************)
(* What a named lock of lib/utils/db.py promises to the code inside it,    *)
(* without the database that makes it: a process opens blocks, one in the  *)
(* other; a block that got its lock excludes the conflicting blocks of     *)
(* every other process for as long as it has it; it may lose it, and a     *)
(* block that lost its lock never ends as if nothing had happened.         *)
(***************************************************************************)
EXTENDS Naturals

CONSTANTS Procs,   \* the processes that use the database
          Ids,     \* the keys of locks
          Depth    \* blocks a process may have open, one inside the other

VARIABLES blocks,  \* of each process, by level: the block open there
          ended    \* of each process: how the last of its blocks to end did

avars == <<blocks, ended>>

Levels == 1 .. Depth
Status == {"none", "refused", "held", "lost"}
NoBlock == [id |-> CHOOSE i \in Ids : TRUE, shared |-> FALSE, status |-> "none"]
Block == [id : Ids, shared : BOOLEAN, status : Status]

AInit == /\ blocks = [p \in Procs |-> [d \in Levels |-> NoBlock]]
         /\ ended = [p \in Procs |-> "none"]

Open(p, d) == blocks[p][d].status # "none"
Innermost(p, d) == Open(p, d) /\ \A e \in Levels : e > d => ~Open(p, e)
Free(p, d) == ~Open(p, d) /\ \A e \in Levels : (e < d => Open(p, e)) /\ (e > d => ~Open(p, e))

(* Another process has a block that cannot be open beside one of p. *)
Excluded(p, id, shared) ==
  \E q \in Procs \ {p}, d \in Levels :
    /\ blocks[q][d].status = "held" /\ blocks[q][d].id = id
    /\ ~(shared /\ blocks[q][d].shared)

Enter(p) ==
  \E d \in Levels, id \in Ids, shared \in BOOLEAN :
    /\ Free(p, d) /\ ~Excluded(p, id, shared)
    /\ blocks' = [blocks EXCEPT ![p][d] = [id |-> id, shared |-> shared, status |-> "held"]]
    /\ ended' = ended
(* wait=False: the block runs, and is told that it has no lock. *)
Refuse(p) ==
  \E d \in Levels, id \in Ids, shared \in BOOLEAN :
    /\ Free(p, d)
    /\ blocks' = [blocks EXCEPT ![p][d] = [id |-> id, shared |-> shared, status |-> "refused"]]
    /\ ended' = ended
Lose(p) ==
  /\ blocks' = [blocks EXCEPT ![p] = [d \in Levels |->
       IF @[d].status = "held" THEN [@[d] EXCEPT !.status = "lost"] ELSE @[d]]]
  /\ ended' = ended
Leave(p) ==
  \E d \in Levels :
    /\ Innermost(p, d) /\ blocks[p][d].status # "lost"
    /\ blocks' = [blocks EXCEPT ![p][d] = NoBlock]
    /\ ended' = [ended EXCEPT ![p] = "well"]
Fail(p) ==
  \E d \in Levels :
    /\ Innermost(p, d)
    /\ blocks' = [blocks EXCEPT ![p][d] = NoBlock]
    /\ ended' = [ended EXCEPT ![p] = "failed"]

ANext == \E p \in Procs : Lose(p) \/ Enter(p) \/ Refuse(p) \/ Leave(p) \/ Fail(p)
ASpec == AInit /\ [][ANext]_avars

-----------------------------------------------------------------------------
(* Nobody is inside beside a block that excludes him. *)
Exclusion ==
  \A p, q \in Procs, d, e \in Levels :
    /\ p # q /\ blocks[p][d].status = "held" /\ blocks[q][e].status = "held"
    /\ blocks[p][d].id = blocks[q][e].id
    => blocks[p][d].shared /\ blocks[q][e].shared
=============================================================================
