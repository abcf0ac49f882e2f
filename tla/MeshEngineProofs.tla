-------------------------- MODULE MeshEngineProofs --------------------------
(***************************************************************************)
(* Proofs about MeshEngine, for any finite set of peers, any set of        *)
(* requests and any value of the bounds.                                   *)
(***************************************************************************)
EXTENDS MeshEngine, TLAPS, FiniteSetTheorems

LoopRecord == [at : Points, cancel : BOOLEAN, kicked : BOOLEAN]
PeerRecord == [is : {"absent", "present", "deleted"}, enabled : BOOLEAN,
               key : Keys, backoff : 0..MaxBackoff]

AdminRecord == [at : {"idle", "changed", "read"}, read : SUBSET Peers, late : BOOLEAN]

(* Only tasks that were made have been anywhere. *)
UnmadeLoops == \A p \in Peers, g \in Gens : g > made[p] => loop[p][g].at = "none"

(* The inductive invariant.  The bounds of the semaphore's counter rest on  *)
(* the conservation of its places, and that on a new task never taking the  *)
(* number of one that is at work.                                           *)
MeshInv == TypeOK /\ SlotsAreConserved /\ UnmadeLoops

(* A set of loops is finite. *)
LEMMA HoldersFinite == IsFiniteSet(Holders) /\ Cardinality(Holders) \in Nat
<1>1. IsFiniteSet(Peers) /\ IsFiniteSet(Gens)
  BY MeshAssumption, FS_Interval DEF Gens
<1>2. IsFiniteSet(Peers \X Gens)
  BY <1>1, FS_Product
<1>3. Holders \subseteq Peers \X Gens
  BY DEF Holders
<1> QED BY <1>2, <1>3, FS_Subset, FS_CardinalityType

(* The record of one loop is replaced. *)
Sets(p, g, r) == loop' = [loop EXCEPT ![p][g] = r]

(* A step of one loop changes what the table says of that loop only. *)
LEMMA LoopMoves ==
    ASSUME TypeOK, NEW p \in Peers, NEW g \in Gens, NEW r \in LoopRecord,
           Sets(p, g, r)
    PROVE  /\ loop' \in [Peers -> [Gens -> LoopRecord]]
           /\ loop'[p][g] = r
           /\ \A q \in Peers, h \in Gens : <<q, h>> # <<p, g>> => loop'[q][h] = loop[q][h]
<1>1. loop \in [Peers -> [Gens -> LoopRecord]]
  BY DEF TypeOK, LoopRecord
<1>2. [loop[p] EXCEPT ![g] = r] \in [Gens -> LoopRecord]
  BY <1>1
<1>3. loop' = [loop EXCEPT ![p] = [loop[p] EXCEPT ![g] = r]]
  BY DEF Sets
<1> QED BY <1>1, <1>2, <1>3

(* A loop that enters its cycle joins the holders of a place, one that      *)
(* leaves it is taken out of them, and any other step leaves them alone.    *)
LEMMA HoldersMove ==
    ASSUME NEW p \in Peers, NEW g \in Gens,
           \A q \in Peers, h \in Gens : <<q, h>> # <<p, g>> => loop'[q][h] = loop[q][h]
    PROVE  /\ loop[p][g].at \notin InCycle /\ loop'[p][g].at \in InCycle
                => Cardinality(Holders') = Cardinality(Holders) + 1
           /\ loop[p][g].at \in InCycle /\ loop'[p][g].at \notin InCycle
                => /\ Cardinality(Holders') = Cardinality(Holders) - 1
                   /\ Cardinality(Holders) > 0
           /\ (loop[p][g].at \in InCycle <=> loop'[p][g].at \in InCycle)
                => Cardinality(Holders') = Cardinality(Holders)
<1>1. Holders' = {l \in Peers \X Gens : loop'[l[1]][l[2]].at \in InCycle}
  BY DEF Holders
<1>2. \A l \in Peers \X Gens : l # <<p, g>> => (l \in Holders' <=> l \in Holders)
  <2> SUFFICES ASSUME NEW l \in Peers \X Gens, l # <<p, g>> PROVE l \in Holders' <=> l \in Holders
    OBVIOUS
  <2>1. PICK q \in Peers, h \in Gens : l = <<q, h>>
    OBVIOUS
  <2>2. loop'[q][h] = loop[q][h]
    BY <2>1
  <2> QED BY <1>1, <2>1, <2>2 DEF Holders
<1>3. <<p, g>> \in Holders <=> loop[p][g].at \in InCycle
  BY DEF Holders
<1>4. <<p, g>> \in Holders' <=> loop'[p][g].at \in InCycle
  BY <1>1
<1>5. Holders \subseteq Peers \X Gens /\ Holders' \subseteq Peers \X Gens
  BY <1>1 DEF Holders
<1>6. ASSUME loop[p][g].at \notin InCycle, loop'[p][g].at \in InCycle
      PROVE  Cardinality(Holders') = Cardinality(Holders) + 1
  <2>1. Holders' = Holders \cup {<<p, g>>} /\ <<p, g>> \notin Holders
    BY <1>2, <1>3, <1>4, <1>5, <1>6
  <2> QED BY <2>1, HoldersFinite, FS_AddElement
<1>7. ASSUME loop[p][g].at \in InCycle, loop'[p][g].at \notin InCycle
      PROVE  Cardinality(Holders') = Cardinality(Holders) - 1 /\ Cardinality(Holders) > 0
  <2>1. Holders' = Holders \ {<<p, g>>} /\ <<p, g>> \in Holders
    BY <1>2, <1>3, <1>4, <1>5, <1>7
  <2>2. Cardinality(Holders') = Cardinality(Holders) - 1
    BY <2>1, HoldersFinite, FS_RemoveElement
  <2>3. Cardinality(Holders) # 0
    BY <2>1, HoldersFinite, FS_EmptySet
  <2> QED BY <2>2, <2>3, HoldersFinite
<1>8. ASSUME loop[p][g].at \in InCycle <=> loop'[p][g].at \in InCycle
      PROVE  Cardinality(Holders') = Cardinality(Holders)
  <2>1. \A l \in Peers \X Gens : l \in Holders' <=> l \in Holders
    BY <1>2, <1>3, <1>4, <1>8
  <2>2. Holders' = Holders
    BY <1>5, <2>1
  <2> QED BY <2>2
<1> QED BY <1>6, <1>7, <1>8

----------------------------------------------------------------------------
(* No step of a loop makes another one, or one that was cancelled, work. *)
NoRevival == \A p \in Peers, g \in Gens :
                Alive(p, g)' /\ ~loop'[p][g].cancel => Alive(p, g) /\ ~loop[p][g].cancel

(* What the step of a loop leaves true when it treats the semaphore right: *)
(* a place is taken on the way into a cycle and given back on the way out. *)
LEMMA StepOfLoop ==
    ASSUME MeshInv, NEW p \in Peers, NEW g \in Gens, NEW r \in LoopRecord,
           Sets(p, g, r), Alive(p, g),
           r.cancel = loop[p][g].cancel, made' = made,
           \/ free' = free /\ (loop[p][g].at \in InCycle <=> r.at \in InCycle)
           \/ free' = free + 1 /\ loop[p][g].at \in InCycle /\ r.at \notin InCycle
           \/ free > 0 /\ free' = free - 1 /\ loop[p][g].at \notin InCycle /\ r.at \in InCycle
    PROVE  /\ loop' \in [Peers -> [Gens -> LoopRecord]]
           /\ free' \in 0..Slots /\ SlotsAreConserved' /\ UnmadeLoops' /\ NoRevival
<1>1. /\ loop' \in [Peers -> [Gens -> LoopRecord]]
      /\ loop'[p][g] = r
      /\ \A q \in Peers, h \in Gens : <<q, h>> # <<p, g>> => loop'[q][h] = loop[q][h]
  BY LoopMoves DEF MeshInv
<1>2. free \in Nat /\ Slots \in Nat /\ Cardinality(Holders) \in Nat
  BY MeshAssumption, HoldersFinite DEF MeshInv, TypeOK
<1>3. free + Cardinality(Holders) = Slots
  BY DEF MeshInv, SlotsAreConserved
<1>4. /\ loop[p][g].at \notin InCycle /\ r.at \in InCycle
            => Cardinality(Holders') = Cardinality(Holders) + 1
      /\ loop[p][g].at \in InCycle /\ r.at \notin InCycle
            => /\ Cardinality(Holders') = Cardinality(Holders) - 1
               /\ Cardinality(Holders) > 0
      /\ (loop[p][g].at \in InCycle <=> r.at \in InCycle)
            => Cardinality(Holders') = Cardinality(Holders)
  BY <1>1, HoldersMove
<1>5. free' \in 0..Slots /\ free' + Cardinality(Holders') = Slots
  BY <1>2, <1>3, <1>4
<1>6. UnmadeLoops'
  <2> SUFFICES ASSUME NEW q \in Peers, NEW h \in Gens, h > made[q]
               PROVE  loop'[q][h].at = "none"
    BY DEF UnmadeLoops
  <2>1. loop[q][h].at = "none"
    BY DEF MeshInv, UnmadeLoops
  <2>2. <<q, h>> # <<p, g>>
    BY <2>1 DEF Alive
  <2> QED BY <1>1, <2>1, <2>2
<1>7. NoRevival
  <2> SUFFICES ASSUME NEW q \in Peers, NEW h \in Gens, Alive(q, h)', ~loop'[q][h].cancel
               PROVE  Alive(q, h) /\ ~loop[q][h].cancel
    BY DEF NoRevival
  <2>1. CASE <<q, h>> = <<p, g>>
    BY <2>1, <1>1
  <2>2. CASE <<q, h>> # <<p, g>>
    BY <2>2, <1>1 DEF Alive
  <2> QED BY <2>1, <2>2
<1> QED BY <1>1, <1>5, <1>6, <1>7 DEF SlotsAreConserved

(* The same of a loop that only moves. *)
LEMMA MoveOfLoop ==
    ASSUME MeshInv, NEW p \in Peers, NEW g \in Gens, NEW at \in Points, Move(p, g, at),
           Alive(p, g), made' = made,
           \/ free' = free /\ (loop[p][g].at \in InCycle <=> at \in InCycle)
           \/ free' = free + 1 /\ loop[p][g].at \in InCycle /\ at \notin InCycle
           \/ free > 0 /\ free' = free - 1 /\ loop[p][g].at \notin InCycle /\ at \in InCycle
    PROVE  /\ loop' \in [Peers -> [Gens -> LoopRecord]]
           /\ free' \in 0..Slots /\ SlotsAreConserved' /\ UnmadeLoops' /\ NoRevival
<1> DEFINE r == [loop[p][g] EXCEPT !.at = at]
<1>1. loop[p][g] \in LoopRecord
  BY DEF MeshInv, TypeOK, LoopRecord
<1>2. r \in LoopRecord /\ r.at = at /\ r.cancel = loop[p][g].cancel
  BY <1>1 DEF LoopRecord
<1>3. Sets(p, g, r)
  BY DEF Move, Sets
<1> HIDE DEF r
<1> QED BY <1>2, <1>3, StepOfLoop

(* Resetting the back-off of a peer, or doubling it, keeps it in range. *)
LEMMA PeersTyped ==
    ASSUME TypeOK, NEW p \in Peers
    PROVE  /\ ResetBackoff(p) => peer' \in [Peers -> PeerRecord]
           /\ peer' = [peer EXCEPT ![p].backoff = NextBackoff(@)]
                => peer' \in [Peers -> PeerRecord]
           /\ peer' = peer => peer' \in [Peers -> PeerRecord]
<1>1. peer \in [Peers -> PeerRecord] /\ peer[p] \in PeerRecord
  BY DEF TypeOK, PeerRecord
<1>2. peer[p].backoff \in 0..MaxBackoff /\ MaxBackoff \in Nat \ {0}
  BY <1>1, MeshAssumption DEF PeerRecord
<1>3. NextBackoff(peer[p].backoff) \in 0..MaxBackoff
  BY <1>2 DEF NextBackoff, Least, Most
<1>4. \A b \in 0..MaxBackoff : [peer[p] EXCEPT !.backoff = b] \in PeerRecord
  BY <1>1 DEF PeerRecord
<1>5. \A b \in 0..MaxBackoff : [peer EXCEPT ![p].backoff = b] \in [Peers -> PeerRecord]
  BY <1>1, <1>4
<1>6. 0 \in 0..MaxBackoff
  BY <1>2
<1>7. ResetBackoff(p) => peer' \in [Peers -> PeerRecord]
  BY <1>1, <1>2, <1>5, <1>6 DEF ResetBackoff
<1> QED BY <1>1, <1>3, <1>5, <1>7

----------------------------------------------------------------------------
(* Every step of the loop of a peer. *)
LEMMA LoopStepKeeps ==
    ASSUME MeshInv, NEW p \in Peers, NEW g \in Gens, Acquire(p, g) \/ LoopStep(p, g)
    PROVE  /\ MeshInv' /\ NoRevival /\ UNCHANGED <<tasks, events>>
<1> USE DEF MeshInv
<1>1. /\ loop[p][g].at \in Points /\ free \in 0..Slots /\ Slots \in Nat
      /\ peer \in [Peers -> PeerRecord]
  BY MeshAssumption DEF TypeOK, PeerRecord
<1>2. Untouched /\ made' = made /\ UNCHANGED <<tasks, events>>
  BY DEF Untouched, registry, LoopStep, CycleStep, Acquire, Begin, Read, Pull,
         RecordPullSuccess, Reread, Push, CycleFails, HandleError, LoopDies, Wake, Timeout,
         Cancelled
<1>3. Head \in {"slot", "done"}
  BY DEF Head
<1> DEFINE Kept == /\ loop' \in [Peers -> [Gens -> LoopRecord]]
                   /\ free' \in 0..Slots /\ SlotsAreConserved' /\ UnmadeLoops' /\ NoRevival
<1>4. Kept
  <2> USE DEF InCycle, Points, Awaits
  <2>1. CASE Acquire(p, g)
    BY <2>1, <1>1, <1>2, MoveOfLoop DEF Acquire, Ready, Alive
  <2>2. CASE Begin(p, g)
    BY <2>2, <1>1, <1>2, <1>3, MoveOfLoop DEF Begin, Ready, Alive
  <2>3. CASE Read(p, g)
    BY <2>3, <1>1, <1>2, MoveOfLoop DEF Read, Finish, Ready, Alive
  <2>4. CASE Pull(p, g)
    BY <2>4, <1>1, <1>2, MoveOfLoop DEF Pull, Ready, Alive
  <2>5. CASE RecordPullSuccess(p, g)
    BY <2>5, <1>1, <1>2, MoveOfLoop DEF RecordPullSuccess, Ready, Alive
  <2>6. CASE Reread(p, g)
    BY <2>6, <1>1, <1>2, MoveOfLoop DEF Reread, Finish, Ready, Alive
  <2>7. CASE Push(p, g)
    BY <2>7, <1>1, <1>2, MoveOfLoop DEF Push, Finish, Ready, Alive
  <2>8. CASE CycleFails(p, g)
    BY <2>8, <1>1, <1>2, MoveOfLoop DEF CycleFails, Alive
  <2>9. CASE HandleError(p, g)
    BY <2>9, <1>1, <1>2, MoveOfLoop DEF HandleError, Ready, Alive
  <2>10. CASE LoopDies(p, g)
    BY <2>10, <1>1, <1>2, MoveOfLoop DEF LoopDies, Ready, Alive
  <2>11. CASE Wake(p, g)
    <3> DEFINE r == [loop[p][g] EXCEPT !.at = Head, !.kicked = FALSE]
    <3>1. loop[p][g] \in LoopRecord
      BY DEF TypeOK, LoopRecord
    <3>2. r \in LoopRecord /\ r.at = Head /\ r.cancel = loop[p][g].cancel
      BY <3>1, <1>3 DEF LoopRecord
    <3>3. Sets(p, g, r)
      BY <2>11 DEF Wake, Sets
    <3>4. Alive(p, g) /\ free' = free /\ loop[p][g].at \notin InCycle
      BY <2>11 DEF Wake, Ready, Alive
    <3>5. r.at \notin InCycle
      BY <3>2, <1>3
    <3> HIDE DEF r
    <3> QED BY <3>2, <3>3, <3>4, <3>5, <1>2, StepOfLoop
  <2>12. CASE Timeout(p, g)
    BY <2>12, <1>1, <1>2, <1>3, MoveOfLoop DEF Timeout, Ready, Alive
  <2>13. CASE Cancelled(p, g)
    BY <2>13, <1>1, <1>2, MoveOfLoop DEF Cancelled
  <2> QED BY <2>1, <2>2, <2>3, <2>4, <2>5, <2>6, <2>7, <2>8, <2>9, <2>10, <2>11, <2>12,
             <2>13 DEF LoopStep, CycleStep
<1>5. peer' \in [Peers -> PeerRecord]
  BY PeersTyped DEF LoopStep, CycleStep, Acquire, Begin, Read, Pull, RecordPullSuccess,
     Reread, Push, CycleFails, HandleError, LoopDies, Wake, Timeout, Cancelled
<1>6. TypeOK'
  BY <1>2, <1>4, <1>5 DEF TypeOK, Untouched, registry, bounds, LoopRecord, PeerRecord
<1> QED BY <1>2, <1>4, <1>6

(* A step that makes no loop enter or leave its cycle. *)
LEMMA SlotsUnmoved ==
    ASSUME SlotsAreConserved, free' = free,
           \A p \in Peers, g \in Gens :
                loop[p][g].at \in InCycle <=> loop'[p][g].at \in InCycle
    PROVE  SlotsAreConserved'
<1>1. \A l \in Peers \X Gens :
          loop[l[1]][l[2]].at \in InCycle <=> loop'[l[1]][l[2]].at \in InCycle
  OBVIOUS
<1>2. Holders' = Holders
  BY <1>1 DEF Holders
<1> QED BY <1>2 DEF SlotsAreConserved

----------------------------------------------------------------------------
(* _stop_peer_task marks the registered tasks and moves none. *)
LEMMA StoppedTables ==
    ASSUME TypeOK, NEW Q \in SUBSET {p \in Peers : tasks[p] # 0}
    PROVE  /\ Stopped(Q, loop) \in [Peers -> [Gens -> LoopRecord]]
           /\ \A p \in Peers, g \in Gens :
                /\ Stopped(Q, loop)[p][g].at = loop[p][g].at
                /\ loop[p][g].cancel => Stopped(Q, loop)[p][g].cancel
                /\ p \in Q /\ g = tasks[p] => Stopped(Q, loop)[p][g].cancel
                /\ p \notin Q => Stopped(Q, loop)[p][g] = loop[p][g]
<1> DEFINE L == Stopped(Q, loop)
<1>1. loop \in [Peers -> [Gens -> LoopRecord]] /\ MaxGen \in Nat
  BY MeshAssumption DEF TypeOK, LoopRecord
<1>2. \A p \in Q : tasks[p] \in Gens
  BY <1>1 DEF TypeOK, Gens
<1>3. L = [p \in Peers |-> IF p \in Q THEN [loop[p] EXCEPT ![tasks[p]].cancel = TRUE]
                                     ELSE loop[p]]
  BY DEF Stopped
<1> HIDE DEF L
<1>4. ASSUME NEW p \in Peers
      PROVE  /\ L[p] \in [Gens -> LoopRecord]
             /\ \A g \in Gens : /\ L[p][g].at = loop[p][g].at
                                /\ loop[p][g].cancel => L[p][g].cancel
                                /\ p \in Q /\ g = tasks[p] => L[p][g].cancel
                                /\ p \notin Q => L[p][g] = loop[p][g]
  <2>1. CASE p \in Q
    <3>1. L[p] = [loop[p] EXCEPT ![tasks[p]].cancel = TRUE] /\ tasks[p] \in Gens
      BY <1>2, <1>3, <2>1
    <3>2. loop[p] \in [Gens -> LoopRecord] /\ loop[p][tasks[p]] \in LoopRecord
      BY <1>1, <3>1
    <3>3. /\ [loop[p][tasks[p]] EXCEPT !.cancel = TRUE] \in LoopRecord
          /\ [loop[p][tasks[p]] EXCEPT !.cancel = TRUE].at = loop[p][tasks[p]].at
          /\ [loop[p][tasks[p]] EXCEPT !.cancel = TRUE].cancel = TRUE
      BY <3>2 DEF LoopRecord
    <3>4. L[p] = [loop[p] EXCEPT ![tasks[p]] = [loop[p][tasks[p]] EXCEPT !.cancel = TRUE]]
      BY <3>1
    <3> QED BY <2>1, <3>1, <3>2, <3>3, <3>4
  <2>2. CASE p \notin Q
    <3>1. L[p] = loop[p]
      BY <1>3, <2>2
    <3> QED BY <1>1, <2>2, <3>1
  <2> QED BY <2>1, <2>2
<1>5. L \in [Peers -> [Gens -> LoopRecord]]
  BY <1>3, <1>4
<1> QED BY <1>4, <1>5 DEF L

(* _start_peer_task gives a task the next number. *)
LEMMA StartedTables ==
    ASSUME TypeOK, NEW P \in SUBSET Peers, NEW l \in [Peers -> [Gens -> LoopRecord]]
    PROVE  /\ Started(P, l) \in [Peers -> [Gens -> LoopRecord]]
           /\ \A p \in Peers, g \in Gens :
                Started(P, l)[p][g] = IF p \in ToStart(P) /\ g = made[p] + 1
                                      THEN NewLoop ELSE l[p][g]
           /\ \A p \in ToStart(P) : made[p] + 1 \in Gens
<1>1. \A p \in ToStart(P) : p \in Peers /\ made[p] + 1 \in Gens
  BY MeshAssumption DEF ToStart, TypeOK, Gens
<1>2. NewLoop \in LoopRecord
  BY DEF NewLoop, NoLoop, LoopRecord, Points, Awaits, InCycle
<1>3. ASSUME NEW p \in Peers
      PROVE  /\ Started(P, l)[p] \in [Gens -> LoopRecord]
             /\ \A g \in Gens : Started(P, l)[p][g] = IF p \in ToStart(P) /\ g = made[p] + 1
                                                      THEN NewLoop ELSE l[p][g]
  <2>1. CASE p \in ToStart(P)
    <3>1. Started(P, l)[p] = [l[p] EXCEPT ![made[p] + 1] = NewLoop]
      BY <2>1 DEF Started
    <3> QED BY <1>1, <1>2, <2>1, <3>1
  <2>2. CASE p \notin ToStart(P)
    <3>1. Started(P, l)[p] = l[p]
      BY <2>2 DEF Started
    <3> QED BY <2>2, <3>1
  <2> QED BY <2>1, <2>2
<1>4. Started(P, l) \in [Peers -> [Gens -> LoopRecord]]
  <2>1. Started(P, l) = [p \in Peers |-> Started(P, l)[p]]
    BY DEF Started
  <2> QED BY <1>3, <2>1
<1> QED BY <1>1, <1>3, <1>4

(* What the reconciliation of the tasks with a set of peers leaves true. *)
LEMMA RegistryStep ==
    ASSUME MeshInv, NEW P \in SUBSET Peers, NEW Q \in SUBSET {p \in Peers : tasks[p] # 0},
           loop' = Started(P, Stopped(Q, loop)),
           tasks' = Registered(P, Unregistered(Q, tasks)),
           events' = Registered(P, Unregistered(Q, events)),
           made' = Registered(P, made), free' = free
    PROVE  /\ loop' \in [Peers -> [Gens -> LoopRecord]]
           /\ tasks' \in [Peers -> 0..MaxGen] /\ events' \in [Peers -> 0..MaxGen]
           /\ made' \in [Peers -> 0..MaxGen]
           /\ SlotsAreConserved' /\ UnmadeLoops'
           /\ LoopsAreRegistered => LoopsAreRegistered'
<1> DEFINE L == Stopped(Q, loop)
<1>1. /\ TypeOK /\ SlotsAreConserved /\ UnmadeLoops
      /\ tasks \in [Peers -> 0..MaxGen] /\ events \in [Peers -> 0..MaxGen]
      /\ made \in [Peers -> 0..MaxGen] /\ MaxGen \in Nat
  BY MeshAssumption DEF MeshInv, TypeOK
<1>2. /\ L \in [Peers -> [Gens -> LoopRecord]]
      /\ \A p \in Peers, g \in Gens :
            /\ L[p][g].at = loop[p][g].at
            /\ loop[p][g].cancel => L[p][g].cancel
            /\ p \in Q /\ g = tasks[p] => L[p][g].cancel
  BY <1>1, StoppedTables
<1>3. loop' = Started(P, L)
  OBVIOUS
<1> HIDE DEF L
<1>4. /\ loop' \in [Peers -> [Gens -> LoopRecord]]
      /\ \A p \in Peers, g \in Gens :
            loop'[p][g] = IF p \in ToStart(P) /\ g = made[p] + 1 THEN NewLoop ELSE L[p][g]
      /\ \A p \in ToStart(P) : made[p] + 1 \in Gens
  <2>1. /\ Started(P, L) \in [Peers -> [Gens -> LoopRecord]]
        /\ \A p \in Peers, g \in Gens :
              Started(P, L)[p][g] = IF p \in ToStart(P) /\ g = made[p] + 1
                                    THEN NewLoop ELSE L[p][g]
        /\ \A p \in ToStart(P) : made[p] + 1 \in Gens
    BY <1>1, <1>2, StartedTables
  <2> QED BY <1>3, <2>1
<1>5. \A p \in Peers : /\ made'[p] = IF p \in ToStart(P) THEN made[p] + 1 ELSE made[p]
                       /\ tasks'[p] = IF p \in ToStart(P) THEN made[p] + 1
                                      ELSE IF p \in Q THEN 0 ELSE tasks[p]
                       /\ events'[p] = IF p \in ToStart(P) THEN made[p] + 1
                                       ELSE IF p \in Q THEN 0 ELSE events[p]
  BY DEF Registered, Unregistered
<1>6. /\ tasks' = [p \in Peers |-> tasks'[p]] /\ events' = [p \in Peers |-> events'[p]]
      /\ made' = [p \in Peers |-> made'[p]]
  BY DEF Registered
<1>7. \A p \in Peers : /\ made'[p] \in 0..MaxGen /\ tasks'[p] \in 0..MaxGen
                       /\ events'[p] \in 0..MaxGen
  BY <1>1, <1>4, <1>5 DEF Gens
<1>8. NewLoop.at = "created" /\ NewLoop.cancel = FALSE
  BY DEF NewLoop, NoLoop
<1>9. \A p \in Peers, g \in Gens : p \in ToStart(P) /\ g = made[p] + 1 => loop[p][g].at = "none"
  BY <1>1 DEF UnmadeLoops, Gens
<1>10. SlotsAreConserved'
  <2>1. \A p \in Peers, g \in Gens : loop[p][g].at \in InCycle <=> loop'[p][g].at \in InCycle
    BY <1>2, <1>4, <1>8, <1>9 DEF InCycle
  <2> QED BY <1>1, <2>1, SlotsUnmoved
<1>11. UnmadeLoops'
  <2> SUFFICES ASSUME NEW p \in Peers, NEW g \in Gens, g > made'[p]
               PROVE  loop'[p][g].at = "none"
    BY DEF UnmadeLoops
  <2>1. g > made[p] /\ ~(p \in ToStart(P) /\ g = made[p] + 1)
    BY <1>1, <1>5 DEF Gens
  <2>2. loop[p][g].at = "none"
    BY <1>1, <2>1 DEF UnmadeLoops
  <2>3. loop'[p][g] = L[p][g]
    BY <1>4, <2>1
  <2> QED BY <1>2, <2>2, <2>3
<1>12. ASSUME LoopsAreRegistered PROVE LoopsAreRegistered'
  <2> SUFFICES ASSUME NEW p \in Peers, NEW g \in Gens, Alive(p, g)', ~loop'[p][g].cancel
               PROVE  tasks'[p] = g /\ events'[p] = g
    BY DEF LoopsAreRegistered
  <2>1. CASE p \in ToStart(P) /\ g = made[p] + 1
    BY <1>5, <2>1
  <2>2. CASE ~(p \in ToStart(P) /\ g = made[p] + 1)
    <3>1. Alive(p, g) /\ ~loop[p][g].cancel /\ ~(p \in Q /\ g = tasks[p])
      BY <1>2, <1>4, <2>2 DEF Alive
    <3>2. tasks[p] = g /\ events[p] = g
      BY <1>12, <3>1 DEF LoopsAreRegistered
    <3>3. p \notin ToStart(P)
      BY <3>1, <3>2, <1>1 DEF ToStart, Gens
    <3> QED BY <1>5, <3>1, <3>2, <3>3
  <2> QED BY <2>1, <2>2
<1> QED BY <1>4, <1>6, <1>7, <1>10, <1>11, <1>12

(* stop() marks every registered task. *)
LEMMA EngineStopKeeps ==
    ASSUME MeshInv, EngineStop
    PROVE  MeshInv' /\ (LoopsAreRegistered => LoopsAreRegistered')
<1> DEFINE Q == {p \in Peers : tasks[p] # 0}
<1>1. TypeOK /\ SlotsAreConserved /\ UnmadeLoops
  BY DEF MeshInv
<1>2. loop' = Stopped(Q, loop) /\ free' = free /\ UNCHANGED <<tasks, events, made>>
  BY DEF EngineStop, registry
<1>3. /\ loop' \in [Peers -> [Gens -> LoopRecord]]
      /\ \A p \in Peers, g \in Gens : /\ loop'[p][g].at = loop[p][g].at
                                      /\ loop[p][g].cancel => loop'[p][g].cancel
  BY <1>1, <1>2, StoppedTables
<1>4. SlotsAreConserved'
  BY <1>1, <1>2, <1>3, SlotsUnmoved
<1>5. UnmadeLoops'
  BY <1>1, <1>2, <1>3 DEF UnmadeLoops
<1>6. TypeOK'
  BY <1>1, <1>3 DEF EngineStop, TypeOK, registry, bounds, LoopRecord
<1>7. LoopsAreRegistered => LoopsAreRegistered'
  BY <1>2, <1>3 DEF LoopsAreRegistered, Alive
<1> QED BY <1>4, <1>5, <1>6, <1>7 DEF MeshInv

(* kick() sets an event and moves no loop. *)
LEMMA KickKeeps ==
    ASSUME MeshInv, NEW p \in Peers, Kick(p)
    PROVE  MeshInv' /\ (LoopsAreRegistered => LoopsAreRegistered')
<1> DEFINE g == events[p]
           r == [loop[p][g] EXCEPT !.kicked = TRUE]
<1>1. TypeOK /\ SlotsAreConserved /\ UnmadeLoops
  BY DEF MeshInv
<1>2. g \in Gens
  BY <1>1, MeshAssumption DEF Kick, TypeOK, Gens
<1>3. loop[p][g] \in LoopRecord
  BY <1>1, <1>2 DEF TypeOK, LoopRecord
<1>4. r \in LoopRecord /\ r.at = loop[p][g].at /\ r.cancel = loop[p][g].cancel
  BY <1>3 DEF LoopRecord
<1>5. Sets(p, g, r) /\ free' = free /\ UNCHANGED <<tasks, events, made>>
  BY DEF Kick, Sets, registry
<1> HIDE DEF r, g
<1>6. /\ loop' \in [Peers -> [Gens -> LoopRecord]] /\ loop'[p][g] = r
      /\ \A q \in Peers, h \in Gens : <<q, h>> # <<p, g>> => loop'[q][h] = loop[q][h]
  BY <1>1, <1>2, <1>4, <1>5, LoopMoves
<1>7. \A q \in Peers, h \in Gens :
        loop'[q][h].at = loop[q][h].at /\ loop'[q][h].cancel = loop[q][h].cancel
  BY <1>4, <1>6
<1>8. SlotsAreConserved'
  BY <1>1, <1>5, <1>7, SlotsUnmoved
<1>9. UnmadeLoops'
  BY <1>1, <1>5, <1>7 DEF UnmadeLoops
<1>10. kicks' \in 0..MaxKicks
  BY <1>1, MeshAssumption DEF Kick, TypeOK
<1>11. TypeOK'
  BY <1>1, <1>6, <1>10 DEF Kick, TypeOK, registry, LoopRecord
<1>12. LoopsAreRegistered => LoopsAreRegistered'
  BY <1>5, <1>7 DEF LoopsAreRegistered, Alive
<1> QED BY <1>8, <1>9, <1>11, <1>12 DEF MeshInv

(* Steps that leave the loops and the tables of the engine alone. *)
LEMMA FrameKeeps ==
    ASSUME MeshInv, UNCHANGED <<loop, free, made, tasks, events>>
    PROVE  /\ SlotsAreConserved' /\ UnmadeLoops'
           /\ LoopsAreRegistered => LoopsAreRegistered'
<1>1. SlotsAreConserved'
  BY SlotsUnmoved DEF MeshInv
<1> QED BY <1>1 DEF MeshInv, UnmadeLoops, LoopsAreRegistered, Alive

(* A request that changes the table makes late the ones that have read it. *)
LEMMA AdminsChange ==
    ASSUME TypeOK, NEW a \in Admins, NEW p \in Peers, ChangePeer(a, p)
    PROVE  /\ admin' \in [Admins -> AdminRecord]
           /\ admin'[a].at = "changed"
           /\ \A b \in Admins : admin'[b].at = "read" => admin'[b].late
<1>1. /\ admin \in [Admins -> AdminRecord]
      /\ admin' = [b \in Admins |-> IF b = a THEN [admin[b] EXCEPT !.at = "changed"]
                                     ELSE [admin[b] EXCEPT !.late = admin[b].at = "read"]]
  BY DEF ChangePeer, TypeOK, AdminRecord
<1>2. ASSUME NEW b \in Admins
      PROVE  LET x == [admin[b] EXCEPT !.at = "changed"]
                 y == [admin[b] EXCEPT !.late = admin[b].at = "read"]
             IN  /\ x \in AdminRecord /\ x.at = "changed"
                 /\ y \in AdminRecord /\ (y.at = "read" => y.late)
  <2>1. admin[b] \in AdminRecord
    BY <1>1
  <2>2. (admin[b].at = "read") \in BOOLEAN
    OBVIOUS
  <2> DEFINE late == admin[b].at = "read"
             x == [admin[b] EXCEPT !.at = "changed"]
             y == [admin[b] EXCEPT !.late = late]
  <2>3. x \in AdminRecord /\ x.at = "changed"
    BY <2>1 DEF AdminRecord
  <2> HIDE DEF late
  <2>4. y \in AdminRecord /\ y.at = admin[b].at /\ y.late = late
    BY <2>1, <2>2 DEF AdminRecord, late
  <2> HIDE DEF x, y
  <2>5. y.at = "read" => y.late
    BY <2>4 DEF late
  <2> QED BY <2>3, <2>4, <2>5 DEF x, y, late
<1> QED BY <1>1, <1>2, Zenon

(* What a request writes is a peer. *)
LEMMA ChangePeerTyped ==
    ASSUME TypeOK, NEW a \in Admins, NEW p \in Peers, ChangePeer(a, p)
    PROVE  TypeOK'
<1>1. peer \in [Peers -> PeerRecord] /\ peer[p] \in PeerRecord /\ MaxBackoff \in Nat
  BY MeshAssumption DEF TypeOK, PeerRecord
<1>2. NewPeers \subseteq PeerRecord
  BY <1>1, MeshAssumption DEF NewPeers, PeerRecord, Keys
<1>3. Changed(p) \subseteq PeerRecord
  <2>1. /\ [peer[p] EXCEPT !.enabled = ~@] \in PeerRecord
        /\ [peer[p] EXCEPT !.is = "deleted"] \in PeerRecord
        /\ \A k \in Keys : [peer[p] EXCEPT !.key = k] \in PeerRecord
    BY <1>1 DEF PeerRecord
  <2> QED BY <1>2, <2>1 DEF Changed
<1>4. peer' \in [Peers -> PeerRecord]
  BY <1>1, <1>3 DEF ChangePeer
<1>5. changes' \in 0..MaxChanges
  BY MeshAssumption DEF ChangePeer, TypeOK
<1>6. admin' \in [Admins -> AdminRecord]
  BY AdminsChange
<1> QED BY <1>4, <1>5, <1>6 DEF ChangePeer, TypeOK, registry, PeerRecord, AdminRecord

----------------------------------------------------------------------------
(* The initial states: every place of the semaphore is free. *)
LEMMA InitKeeps ==
    ASSUME Init
    PROVE  MeshInv /\ LoopsAreRegistered
<1>1. NoLoop \in LoopRecord /\ NoLoop.at = "none"
  BY DEF NoLoop, LoopRecord, Points
<1>2. \A p \in Peers, g \in Gens : loop[p][g] = NoLoop
  BY DEF Init
<1>3. loop \in [Peers -> [Gens -> LoopRecord]]
  BY <1>1 DEF Init
<1>4. {NoPeer} \cup NewPeers \subseteq PeerRecord
  <2>1. MaxBackoff \in Nat /\ 0 \in 0..MaxBackoff
    BY MeshAssumption
  <2>2. NoPeer \in PeerRecord
    BY <2>1 DEF NoPeer, PeerRecord, Keys
  <2>3. NewPeers \subseteq PeerRecord
    BY <2>1, MeshAssumption DEF NewPeers, PeerRecord, Keys
  <2> QED BY <2>2, <2>3
<1>5. peer \in [Peers -> PeerRecord]
  BY <1>4 DEF Init
<1>6. TypeOK
  <2>1. /\ 0 \in 0..MaxGen /\ Slots \in 0..Slots
        /\ 0 \in 0..MaxChanges /\ 0 \in 0..MaxKicks
    BY MeshAssumption
  <2>2. admin \in [Admins -> AdminRecord]
    BY DEF Init, NoRequest, AdminRecord
  <2> QED BY <1>3, <1>5, <2>1, <2>2 DEF Init, TypeOK, LoopRecord, PeerRecord, AdminRecord
<1>7. Holders = {}
  <2>1. \A l \in Peers \X Gens : loop[l[1]][l[2]].at = "none"
    BY <1>1, <1>2
  <2> QED BY <2>1 DEF Holders, InCycle
<1>8. SlotsAreConserved
  BY <1>7, FS_EmptySet, MeshAssumption DEF SlotsAreConserved, Init
<1>9. UnmadeLoops /\ LoopsAreRegistered
  BY <1>1, <1>2 DEF UnmadeLoops, LoopsAreRegistered, Alive
<1> QED BY <1>6, <1>8, <1>9 DEF MeshInv

(* Every step, action by action. *)
LEMMA NextKeeps ==
    ASSUME MeshInv, [Next]_vars
    PROVE  MeshInv' /\ (LoopsAreRegistered => LoopsAreRegistered')
<1>0. TypeOK
  BY DEF MeshInv
<1>1. CASE EngineStart
  <2>1. UNCHANGED <<loop, free, made, tasks, events>>
    BY <1>1 DEF EngineStart, registry
  <2>2. TypeOK'
    BY <1>0, <1>1 DEF EngineStart, EnabledPeers, TypeOK, registry, bounds
  <2> QED BY <2>1, <2>2, FrameKeeps DEF MeshInv
<1>2. CASE EngineStarted
  <2>1. loop = Stopped({}, loop)
    BY <1>0 DEF Stopped, TypeOK
  <2>2. tasks = Unregistered({}, tasks) /\ events = Unregistered({}, events)
    BY <1>0 DEF Unregistered, TypeOK
  <2>3. /\ loop' = Started(snapshot, Stopped({}, loop))
        /\ tasks' = Registered(snapshot, Unregistered({}, tasks))
        /\ events' = Registered(snapshot, Unregistered({}, events))
        /\ made' = Registered(snapshot, made) /\ free' = free
        /\ snapshot \in SUBSET Peers
    BY <1>0, <1>2, <2>1, <2>2 DEF EngineStarted, TypeOK
  <2>4. /\ loop' \in [Peers -> [Gens -> LoopRecord]]
        /\ tasks' \in [Peers -> 0..MaxGen] /\ events' \in [Peers -> 0..MaxGen]
        /\ made' \in [Peers -> 0..MaxGen]
        /\ SlotsAreConserved' /\ UnmadeLoops'
        /\ LoopsAreRegistered => LoopsAreRegistered'
    <3>1. {} \in SUBSET {p \in Peers : tasks[p] # 0}
      OBVIOUS
    <3> QED BY <2>3, <3>1, RegistryStep
  <2>5. TypeOK'
    BY <1>0, <1>2, <2>4 DEF EngineStarted, TypeOK, bounds, LoopRecord
  <2> QED BY <2>4, <2>5 DEF MeshInv
<1>3. CASE EngineStop
  BY <1>3, EngineStopKeeps
<1>4. CASE EngineStopped
  <2>1. SlotsAreConserved' /\ UnmadeLoops'
    <3>1. SlotsAreConserved'
      BY <1>4, SlotsUnmoved DEF EngineStopped, MeshInv
    <3> QED BY <1>4, <3>1 DEF EngineStopped, MeshInv, UnmadeLoops
  <2>2. TypeOK'
    BY <1>0, <1>4, MeshAssumption DEF EngineStopped, TypeOK, bounds
  <2>3. ASSUME LoopsAreRegistered PROVE LoopsAreRegistered'
    <3> SUFFICES ASSUME NEW p \in Peers, NEW g \in Gens, Alive(p, g), ~loop[p][g].cancel
                 PROVE  FALSE
      BY <1>4 DEF LoopsAreRegistered, EngineStopped, Alive
    <3>1. tasks[p] = g /\ g # 0
      BY <2>3 DEF LoopsAreRegistered, Gens
    <3> QED BY <1>4, <3>1 DEF EngineStopped
  <2> QED BY <2>1, <2>2, <2>3 DEF MeshInv
<1>5. ASSUME NEW p \in Peers, NEW g \in Gens, Acquire(p, g) \/ LoopStep(p, g)
      PROVE  MeshInv' /\ (LoopsAreRegistered => LoopsAreRegistered')
  <2>1. MeshInv' /\ NoRevival /\ UNCHANGED <<tasks, events>>
    BY <1>5, LoopStepKeeps
  <2> QED BY <2>1 DEF NoRevival, LoopsAreRegistered
<1>6. ASSUME NEW p \in Peers, Kick(p)
      PROVE  MeshInv' /\ (LoopsAreRegistered => LoopsAreRegistered')
  BY <1>6, KickKeeps
<1>7. ASSUME NEW a \in Admins, NEW p \in Peers, ChangePeer(a, p)
      PROVE  MeshInv' /\ (LoopsAreRegistered => LoopsAreRegistered')
  <2>1. UNCHANGED <<loop, free, made, tasks, events>>
    BY <1>7 DEF ChangePeer, registry
  <2> QED BY <1>0, <1>7, <2>1, FrameKeeps, ChangePeerTyped DEF MeshInv
<1>8. ASSUME NEW a \in Admins, ReconcileRead(a)
      PROVE  MeshInv' /\ (LoopsAreRegistered => LoopsAreRegistered')
  <2>1. UNCHANGED <<loop, free, made, tasks, events>>
    BY <1>8 DEF ReconcileRead, registry
  <2>2. TypeOK'
    BY <1>0, <1>8 DEF ReconcileRead, EnabledPeers, TypeOK, registry, bounds
  <2> QED BY <2>1, <2>2, FrameKeeps DEF MeshInv
<1>9. ASSUME NEW a \in Admins, ReconcileApply(a)
      PROVE  MeshInv' /\ (LoopsAreRegistered => LoopsAreRegistered')
  <2> DEFINE on  == {p \in admin[a].read : tasks[p] = 0}
             off == {p \in Peers \ admin[a].read : tasks[p] # 0}
  <2>1. on \in SUBSET Peers /\ off \in SUBSET {p \in Peers : tasks[p] # 0}
    BY <1>0 DEF TypeOK
  <2>2. /\ loop' = Started(on, Stopped(off, loop))
        /\ tasks' = Registered(on, Unregistered(off, tasks))
        /\ events' = Registered(on, Unregistered(off, events))
        /\ made' = Registered(on, made) /\ free' = free
    BY <1>9 DEF ReconcileApply
  <2> HIDE DEF on, off
  <2>3. /\ loop' \in [Peers -> [Gens -> LoopRecord]]
        /\ tasks' \in [Peers -> 0..MaxGen] /\ events' \in [Peers -> 0..MaxGen]
        /\ made' \in [Peers -> 0..MaxGen]
        /\ SlotsAreConserved' /\ UnmadeLoops'
        /\ LoopsAreRegistered => LoopsAreRegistered'
    BY <2>1, <2>2, RegistryStep
  <2>4. admin' \in [Admins -> AdminRecord] /\ overtaken' \in BOOLEAN
    <3>1. NoRequest \in AdminRecord /\ admin \in [Admins -> AdminRecord]
      BY <1>0 DEF NoRequest, AdminRecord, TypeOK
    <3>2. admin[a].late \in BOOLEAN
      BY <3>1 DEF AdminRecord
    <3> QED BY <1>9, <3>1, <3>2 DEF ReconcileApply
  <2>5. TypeOK'
    BY <1>0, <1>9, <2>3, <2>4 DEF ReconcileApply, TypeOK, bounds, LoopRecord, AdminRecord
  <2> QED BY <2>3, <2>5 DEF MeshInv
<1>10. CASE UNCHANGED vars
  <2>1. UNCHANGED <<loop, free, made, tasks, events>>
    BY <1>10 DEF vars, registry
  <2>2. TypeOK'
    BY <1>0, <1>10 DEF vars, registry, bounds, TypeOK
  <2> QED BY <2>1, <2>2, FrameKeeps DEF MeshInv
<1> QED BY <1>1, <1>2, <1>3, <1>4, <1>5, <1>6, <1>7, <1>8, <1>9, <1>10
        DEF Next, Lifespan, Reconcile

(* Every variable of the engine keeps its type: _MAX_BACKOFF_S bounds every *)
(* delay, and the semaphore never holds more places than max_concurrent.    *)
THEOREM MeshTypeCorrect == Spec => []TypeOK
<1>1. Init => MeshInv
  BY InitKeeps
<1>2. MeshInv /\ [Next]_vars => MeshInv'
  BY NextKeeps
<1>3. MeshInv => TypeOK
  BY DEF MeshInv
<1> QED BY <1>1, <1>2, <1>3, PTL DEF Spec

(* However cycles end, by a success, an early return, an error or a         *)
(* cancellation, `async with self._semaphore` gives every place back.       *)
THEOREM SlotsStayConserved == Spec => []SlotsAreConserved
<1>1. Init => MeshInv
  BY InitKeeps
<1>2. MeshInv /\ [Next]_vars => MeshInv'
  BY NextKeeps
<1>3. MeshInv => SlotsAreConserved
  BY DEF MeshInv
<1> QED BY <1>1, <1>2, <1>3, PTL DEF Spec

(* A loop that _stop_peer_task or stop() has not cancelled is the one in    *)
(* _tasks, through every interleaving of reconciliations, cancellations     *)
(* still on their way, errors and the shut-down.                            *)
THEOREM LoopsStayRegistered == Spec => []LoopsAreRegistered
<1>1. Init => MeshInv /\ LoopsAreRegistered
  BY InitKeeps
<1>2. MeshInv /\ LoopsAreRegistered /\ [Next]_vars => (MeshInv /\ LoopsAreRegistered)'
  BY NextKeeps
<1> QED BY <1>1, <1>2, PTL DEF Spec

----------------------------------------------------------------------------
(* Peers and tasks agree between requests. *)

(* As long as the engine is on, a registered task is not cancelled and has  *)
(* not returned.                                                            *)
TasksWork == engine = "on" =>
    running /\ \A p \in Peers, g \in Gens :
                  tasks[p] = g => loop[p][g].at # "done" /\ ~loop[p][g].cancel

(* What on_peer_config_change is to leave. *)
Agreed == \A p \in Peers : Enabled(p) <=> tasks[p] # 0

(* Nothing changes the table between the query of start() and what is done *)
(* with it, and a change between the query of a request and what it does   *)
(* with it makes it late; unless what was applied last was late, the peers *)
(* and the tasks agree when no request is at work.                         *)
AgreeInv == /\ engine \in {"off", "starting"} => \A p \in Peers : tasks[p] = 0 /\ made[p] = 0
            /\ engine = "starting" => running /\ snapshot = EnabledPeers
            /\ engine # "on" => \A a \in Admins : admin[a].at = "idle"
            /\ \A a \in Admins : admin[a].at = "read" => admin[a].late \/ admin[a].read = EnabledPeers
            /\ engine = "on" /\ (\A a \in Admins : admin[a].at = "idle") /\ ~overtaken => Agreed
            /\ TasksWork

(* A step that leaves the registry, the requests and what enables a peer.   *)
LEMMA AgreeFrame ==
    ASSUME AgreeInv, TasksWork', UNCHANGED <<engine, running, tasks, made, snapshot, admin, overtaken>>,
           \A p \in Peers : peer'[p].is = peer[p].is /\ peer'[p].enabled = peer[p].enabled
    PROVE  AgreeInv'
<1>1. \A p \in Peers : Enabled(p)' <=> Enabled(p)
  BY DEF Enabled
<1>2. EnabledPeers' = EnabledPeers
  BY <1>1 DEF EnabledPeers
<1> QED BY <1>1, <1>2 DEF AgreeInv, Agreed

(* The loops that are registered or started, and those that are stopped.    *)
LEMMA WorkStep ==
    ASSUME TypeOK, NEW on \in SUBSET Peers, NEW off \in SUBSET {p \in Peers : tasks[p] # 0},
           \A p \in Peers, g \in Gens :
               tasks[p] = g => loop[p][g].at # "done" /\ ~loop[p][g].cancel,
           loop' = Started(on, Stopped(off, loop)), running',
           tasks' = Registered(on, Unregistered(off, tasks))
    PROVE  TasksWork'
<1> SUFFICES ASSUME NEW p \in Peers, NEW g \in Gens, tasks'[p] = g
             PROVE  loop'[p][g].at # "done" /\ ~loop'[p][g].cancel
  BY DEF TasksWork
<1>0. /\ loop \in [Peers -> [Gens -> LoopRecord]] /\ 0 \notin Gens
      /\ tasks \in [Peers -> 0..MaxGen] /\ made \in [Peers -> 0..MaxGen] /\ MaxGen \in Nat
  BY MeshAssumption DEF TypeOK, LoopRecord, Gens
<1>1. Stopped(off, loop)[p] = IF p \in off THEN [loop[p] EXCEPT ![tasks[p]].cancel = TRUE] ELSE loop[p]
  BY DEF Stopped
<1>2. CASE p \in ToStart(on)
  <2>1. g = made[p] + 1 /\ loop'[p] = [Stopped(off, loop)[p] EXCEPT ![made[p] + 1] = NewLoop]
    BY <1>2 DEF Registered, Started
  <2>2. DOMAIN Stopped(off, loop)[p] = Gens
    BY <1>0, <1>1
  <2>3. loop'[p][g] = NewLoop
    BY <2>1, <2>2
  <2> QED BY <2>3 DEF NewLoop, NoLoop
<1>3. CASE p \notin ToStart(on)
  <2>1. g = Unregistered(off, tasks)[p] /\ loop'[p] = Stopped(off, loop)[p]
    BY <1>3 DEF Registered, Started
  <2>2. p \notin off /\ g = tasks[p]
    BY <1>0, <2>1 DEF Unregistered
  <2> QED BY <1>1, <2>1, <2>2
<1> QED BY <1>2, <1>3

(* Cycles and errors touch the back-off of a peer only. *)
LEMMA LoopsKeepPeers ==
    ASSUME TypeOK, NEW p \in Peers, NEW g \in Gens, Acquire(p, g) \/ LoopStep(p, g)
    PROVE  \A q \in Peers : peer'[q].is = peer[q].is /\ peer'[q].enabled = peer[q].enabled
<1>1. peer \in [Peers -> PeerRecord] /\ peer[p] \in PeerRecord
  BY DEF TypeOK, PeerRecord
<1>2. \A b : LET r == [peer[p] EXCEPT !.backoff = b] IN r.is = peer[p].is /\ r.enabled = peer[p].enabled
  BY <1>1 DEF PeerRecord
<1>3. peer' = peer \/ \E b : peer' = [peer EXCEPT ![p].backoff = b]
  BY DEF LoopStep, CycleStep, Acquire, Begin, Read, Pull, RecordPullSuccess, ResetBackoff,
     Reread, Push, CycleFails, HandleError, LoopDies, Wake, Timeout, Cancelled
<1>4. CASE peer' = peer
  BY <1>4
<1>5. CASE \E b : peer' = [peer EXCEPT ![p].backoff = b]
  <2>1. PICK b : peer' = [peer EXCEPT ![p] = [peer[p] EXCEPT !.backoff = b]]
    BY <1>5
  <2> TAKE q \in Peers
  <2>2. CASE q = p
    BY <1>1, <1>2, <2>1, <2>2
  <2>3. CASE q # p
    BY <1>1, <2>1, <2>3
  <2> QED BY <2>2, <2>3
<1> QED BY <1>3, <1>4, <1>5

(* A loop that returns was cancelled or found the engine not running.      *)
LEMMA LoopsWork ==
    ASSUME TypeOK, TasksWork, NEW p \in Peers, NEW g \in Gens, Acquire(p, g) \/ LoopStep(p, g)
    PROVE  TasksWork'
<1>1. UNCHANGED <<engine, running, tasks>>
  BY DEF Untouched, registry, LoopStep, CycleStep, Acquire, Begin, Read, Pull, RecordPullSuccess,
         Reread, Push, CycleFails, HandleError, LoopDies, Wake, Timeout, Cancelled
<1>2. /\ loop \in [Peers -> [Gens -> LoopRecord]] /\ loop[p][g] \in LoopRecord
  BY DEF TypeOK, LoopRecord
<1>3. ASSUME NEW r, loop' = [loop EXCEPT ![p][g] = r],
             engine = "on" /\ tasks[p] = g => r.at # "done" /\ ~r.cancel
      PROVE  TasksWork'
  <2>1. \A q \in Peers, h \in Gens : loop'[q][h] = IF q = p /\ h = g THEN r ELSE loop[q][h]
    BY <1>2, <1>3
  <2> QED BY <1>1, <1>3, <2>1 DEF TasksWork
<1>4. ASSUME NEW at \in Points, Move(p, g, at),
             at = "done" => ~running \/ loop[p][g].cancel
      PROVE  TasksWork'
  <2> DEFINE r == [loop[p][g] EXCEPT !.at = at]
  <2>1. r.at = at /\ r.cancel = loop[p][g].cancel /\ loop' = [loop EXCEPT ![p][g] = r]
    BY <1>2, <1>4 DEF Move, LoopRecord
  <2> HIDE DEF r
  <2> QED BY <1>3, <1>4, <2>1 DEF TasksWork
<1>5. CASE Wake(p, g)
  <2> DEFINE r == [loop[p][g] EXCEPT !.at = Head, !.kicked = FALSE]
  <2>1. r.at = Head /\ r.cancel = loop[p][g].cancel /\ loop' = [loop EXCEPT ![p][g] = r]
    BY <1>2, <1>5 DEF Wake, LoopRecord
  <2> HIDE DEF r
  <2> QED BY <1>3, <2>1 DEF TasksWork, Head
<1>6. CASE Begin(p, g) \/ Timeout(p, g)
  BY <1>4, <1>6 DEF Begin, Timeout, Head, Points, Awaits
<1>7. CASE Cancelled(p, g)
  BY <1>4, <1>7 DEF Cancelled, Points
<1>8. ASSUME NEW at \in Points \ {"done"}, Move(p, g, at) PROVE TasksWork'
  BY <1>4, <1>8
<1>9. CASE Acquire(p, g) \/ CycleStep(p, g) \/ HandleError(p, g) \/ LoopDies(p, g)
  BY <1>8, <1>9 DEF Acquire, CycleStep, Read, Pull, RecordPullSuccess, Reread, Push, CycleFails,
     Finish, HandleError, LoopDies, Points, Awaits, InCycle
<1> QED BY <1>5, <1>6, <1>7, <1>9 DEF LoopStep

LEMMA AgreeStep ==
    ASSUME TypeOK, AgreeInv, [Next]_vars PROVE AgreeInv'
<1>0. MaxGen \in Nat \ {0} /\ tasks \in [Peers -> 0..MaxGen] /\ made \in [Peers -> 0..MaxGen]
  BY MeshAssumption DEF TypeOK
<1> USE DEF TasksWork
<1>1. CASE EngineStart
  <2>1. EnabledPeers' = EnabledPeers
    BY <1>1 DEF EngineStart, EnabledPeers, Enabled
  <2> QED BY <1>1, <2>1 DEF EngineStart, AgreeInv, registry
<1>2. CASE EngineStarted
  <2>1. /\ engine' = "on" /\ tasks' = Registered(snapshot, tasks) /\ snapshot = EnabledPeers
        /\ loop' = Started(snapshot, loop) /\ running' /\ snapshot \in SUBSET Peers
        /\ UNCHANGED <<peer, admin>> /\ \A a \in Admins : admin[a].at = "idle"
        /\ \A p \in Peers : tasks[p] = 0 /\ made[p] = 0
    BY <1>2 DEF EngineStarted, AgreeInv, TypeOK
  <2>2. \A p \in Peers : Enabled(p)' <=> Enabled(p)
    BY <2>1 DEF Enabled
  <2>3. ASSUME NEW p \in Peers PROVE Enabled(p) <=> tasks'[p] # 0
    <3>1. p \in ToStart(snapshot) <=> Enabled(p)
      BY <1>0, <2>1 DEF ToStart, EnabledPeers
    <3> QED BY <2>1, <3>1 DEF Registered
  <2>4. loop = Stopped({}, loop) /\ tasks = Unregistered({}, tasks)
    BY DEF Stopped, Unregistered, TypeOK
  <2>5. {} \in SUBSET {p \in Peers : tasks[p] # 0} /\ \A p \in Peers, g \in Gens : tasks[p] # g
    BY <1>0, <2>1 DEF Gens
  <2>6. TasksWork'
    <3> HIDE DEF TasksWork
    <3> QED BY <2>1, <2>4, <2>5, WorkStep
  <2>7. EnabledPeers' = EnabledPeers
    BY <2>2 DEF EnabledPeers
  <2> QED BY <2>1, <2>2, <2>3, <2>6 DEF AgreeInv, Agreed
<1>3. CASE EngineStop
  <2>1. \A a \in Admins : admin[a].at = "idle" /\ admin'[a].at = "idle"
    BY <1>3 DEF EngineStop
  <2> QED BY <1>3, <2>1 DEF EngineStop, AgreeInv
<1>4. CASE EngineStopped
  <2>1. \A a \in Admins : admin'[a].at = "idle"
    BY <1>4 DEF EngineStopped, AgreeInv
  <2> QED BY <1>4, <2>1 DEF EngineStopped, AgreeInv
<1>5. ASSUME NEW p \in Peers, NEW g \in Gens, Acquire(p, g) \/ LoopStep(p, g) PROVE AgreeInv'
  <2>1. Untouched
    BY <1>5 DEF LoopStep, CycleStep, Acquire, Begin, Read, Pull, RecordPullSuccess,
           Reread, Push, CycleFails, HandleError, LoopDies, Wake, Timeout, Cancelled
  <2>2. TasksWork'
    <3> HIDE DEF TasksWork
    <3> QED BY <1>5, LoopsWork DEF AgreeInv
  <2> HIDE DEF TasksWork
  <2> QED BY <1>5, <2>1, <2>2, LoopsKeepPeers, AgreeFrame DEF Untouched, registry
<1>6. ASSUME NEW p \in Peers, Kick(p) PROVE AgreeInv'
  <2> DEFINE e == events[p]
  <2>1. e \in Gens /\ loop' = [loop EXCEPT ![p][e].kicked = TRUE]
    BY <1>6, MeshAssumption DEF Kick, TypeOK, Gens
  <2>2. loop \in [Peers -> [Gens -> LoopRecord]]
    BY DEF TypeOK, LoopRecord
  <2> HIDE DEF e
  <2>3. \A q \in Peers, h \in Gens : /\ loop'[q][h].at = loop[q][h].at
                                     /\ loop'[q][h].cancel = loop[q][h].cancel
    BY <2>1, <2>2 DEF LoopRecord
  <2>4. TasksWork'
    BY <1>6, <2>3 DEF Kick, AgreeInv, registry
  <2> HIDE DEF TasksWork
  <2> QED BY <1>6, <2>4, AgreeFrame DEF Kick, registry
<1>7. ASSUME NEW a \in Admins, NEW p \in Peers, ChangePeer(a, p) PROVE AgreeInv'
  <2>1. /\ engine = "on" /\ admin'[a].at = "changed"
        /\ \A b \in Admins : admin'[b].at = "read" => admin'[b].late
        /\ UNCHANGED <<engine, running, tasks, loop>>
    BY <1>7, AdminsChange DEF ChangePeer, registry
  <2> QED BY <2>1 DEF AgreeInv
<1>8. ASSUME NEW a \in Admins, ReconcileRead(a) PROVE AgreeInv'
  <2>1. /\ admin[a].at = "changed"
        /\ admin' = [admin EXCEPT ![a] = [at |-> "read", read |-> EnabledPeers, late |-> FALSE]]
        /\ UNCHANGED <<engine, running, tasks, loop, peer>>
    BY <1>8 DEF ReconcileRead, registry
  <2>2. engine = "on"
    BY <2>1 DEF AgreeInv
  <2>3. \A b \in Admins : admin'[b] = IF b = a THEN [at |-> "read", read |-> EnabledPeers, late |-> FALSE]
                                               ELSE admin[b]
    BY <2>1 DEF TypeOK
  <2>4. EnabledPeers' = EnabledPeers
    BY <2>1 DEF EnabledPeers, Enabled
  <2> QED BY <2>1, <2>2, <2>3, <2>4 DEF AgreeInv
<1>9. ASSUME NEW a \in Admins, ReconcileApply(a) PROVE AgreeInv'
  <2> DEFINE on  == {p \in admin[a].read : tasks[p] = 0}
             off == {p \in Peers \ admin[a].read : tasks[p] # 0}
  <2>1. /\ admin[a].at = "read" /\ admin' = [admin EXCEPT ![a] = NoRequest]
        /\ UNCHANGED <<engine, running, peer>> /\ overtaken' = admin[a].late
        /\ loop' = Started(on, Stopped(off, loop))
        /\ tasks' = Registered(on, Unregistered(off, tasks))
        /\ \A p \in on : made[p] < MaxGen
    BY <1>9 DEF ReconcileApply
  <2>2. engine = "on"
    BY <2>1 DEF AgreeInv
  <2>3. \A b \in Admins \ {a} : admin'[b] = admin[b]
    BY <2>1
  <2>4. admin'[a].at = "idle"
    BY <2>1 DEF NoRequest, TypeOK
  <2>5. (\A p \in Peers : Enabled(p)' <=> Enabled(p)) /\ EnabledPeers' = EnabledPeers
    BY <2>1 DEF Enabled, EnabledPeers
  <2>6. ASSUME ~admin[a].late, NEW p \in Peers PROVE Enabled(p) <=> tasks'[p] # 0
    <3>0. admin[a].read = EnabledPeers
      BY <2>1, <2>6 DEF AgreeInv
    <3>1. p \in EnabledPeers <=> Enabled(p)
      BY DEF EnabledPeers
    <3>2. p \in ToStart(on) <=> p \in on
      BY <2>1 DEF ToStart
    <3>3. tasks'[p] = IF p \in on THEN made[p] + 1 ELSE IF p \in off THEN 0 ELSE tasks[p]
      BY <2>1, <3>2 DEF Registered, Unregistered
    <3>4. made[p] + 1 # 0
      BY <1>0
    <3> QED BY <3>0, <3>1, <3>3, <3>4
  <2>7. on \in SUBSET Peers /\ off \in SUBSET {p \in Peers : tasks[p] # 0}
    BY DEF TypeOK
  <2> HIDE DEF on, off
  <2>8. TasksWork'
    <3>1. running' /\ \A p \in Peers, g \in Gens :
                          tasks[p] = g => loop[p][g].at # "done" /\ ~loop[p][g].cancel
      BY <2>1, <2>2 DEF AgreeInv
    <3> HIDE DEF TasksWork
    <3> QED BY <2>1, <2>7, <3>1, WorkStep
  <2> HIDE DEF TasksWork
  <2>9. \A b \in Admins : admin'[b].at = "read" => b # a
    BY <2>4
  <2> QED BY <2>1, <2>2, <2>3, <2>5, <2>6, <2>8, <2>9 DEF AgreeInv, Agreed
<1>10. CASE UNCHANGED vars
  <2>1. TasksWork'
    BY <1>10 DEF vars, registry, AgreeInv
  <2> HIDE DEF TasksWork
  <2> QED BY <1>10, <2>1, AgreeFrame DEF vars, registry
<1> QED BY <1>1, <1>2, <1>3, <1>4, <1>5, <1>6, <1>7, <1>8, <1>9, <1>10
        DEF Next, Lifespan, Reconcile

(* on_peer_config_change, with any number of requests at once: when none is *)
(* at work and the one that applied its differences last was not overtaken  *)
(* by a change, every enabled peer has a task that works or whose error     *)
(* handler raised, and no other peer has one, whatever the loops do.        *)
THEOREM SettledPeersKeepTasks == Spec => []SettledPeersHaveTasks
<1>1. Init => AgreeInv
  BY DEF Init, AgreeInv, TasksWork, NoRequest
<1>2. TypeOK /\ AgreeInv /\ [Next]_vars => AgreeInv'
  BY AgreeStep
<1>3. TypeOK /\ AgreeInv => SettledPeersHaveTasks
  <2> SUFFICES ASSUME TypeOK, AgreeInv, engine = "on",
                      \A a \in Admins : admin[a].at = "idle", ~overtaken, NEW p \in Peers
               PROVE  IF Enabled(p) THEN tasks[p] # 0 /\ loop[p][tasks[p]].at # "done"
                                    ELSE tasks[p] = 0
    BY DEF SettledPeersHaveTasks
  <2>1. Enabled(p) <=> tasks[p] # 0
    BY DEF AgreeInv, Agreed
  <2>2. tasks[p] # 0 => tasks[p] \in Gens
    BY MeshAssumption DEF TypeOK, Gens
  <2> QED BY <2>1, <2>2 DEF AgreeInv, TasksWork
<1> QED BY <1>1, <1>2, <1>3, MeshTypeCorrect, PTL DEF Spec
=============================================================================
