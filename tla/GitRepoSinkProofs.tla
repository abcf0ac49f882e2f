-------------------------- MODULE GitRepoSinkProofs --------------------------
(***************************************************************************)
(* Proofs about GitRepoSink, for any clones, sinks and bundles, any faults *)
(* and any number of operations.                                           *)
(***************************************************************************)
EXTENDS GitRepoSink, TLAPS

Changes == [kind : {"add", "del", "attr"}, b : Blobs \cup {None}, by : Clones]
CloneRecord == [exists : BOOLEAN, log : SUBSET Changes, index : SUBSET Changes,
                loose : SUBSET (Blobs \cup {None})]
Pushing == {"first push", "push", "rebase", "repush"}
Phases == {"idle", Start, "attributes", "write", "add", "commit", "pull", "read", "rm"} \cup Pushing
OpRecord == [at : Phases, kind : {"put", "delete", "list", None}, b : Blobs \cup {None}]

GitTypeOK == /\ remote \subseteq Changes
             /\ clone \in [Clones -> CloneRecord]
             /\ op \in [Sinks -> OpRecord]

(* A clone has a history from _sync_init on, and no sink goes further      *)
(* before that.                                                            *)
MadeFirst == /\ \A k \in Clones : ~clone[k].exists => clone[k].log = {}
             /\ \A s \in Sinks : op[s].at \notin {"idle", Start} => clone[CloneOf[s]].exists

(* How far a put with operation r has come in the clone record c: staged,  *)
(* then committed.                                                         *)
Staged(r, c) == r.kind = "put" =>
    /\ r.at # "rm"
    /\ r.at = "commit" => Has(c.log \cup c.index, "add", r.b)
    /\ r.at \in {"push", "rebase", "repush"} => Has(c.log, "add", r.b)
PutsStaged == \A s \in Sinks : Staged(op[s], clone[CloneOf[s]])

AckedCommitted == \A b \in acked : \E k \in Clones : Has(clone[k].log, "add", b)

(* Every bundle of a history is at the remote or reported as local only.   *)
Settled(log, rem, told) == \A x \in log : x.kind = "add" => Has(rem, "add", x.b) \/ x \in told

(* A history that is not settled has a sink that is pushing it. *)
SomebodyPushes == \A k \in Clones \ crashed :
    Settled(clone[k].log, remote, warned) \/ \E s \in Sinks : CloneOf[s] = k /\ op[s].at \in Pushing

(* The remote has every change of a history. *)
Matched(log, rem) == \A x \in log : Has(rem, x.kind, x.b)

(* A clone that is not behind and that the remote does not match has a     *)
(* sink that is pushing it.                                                *)
SomebodyCatchesUp == \A k \in Clones \ behind :
    Matched(clone[k].log, remote) \/ \E s \in Sinks : CloneOf[s] = k /\ op[s].at \in Pushing

(* The inductive invariant. *)
GitInv == /\ GitTypeOK /\ MadeFirst /\ PutsStaged /\ AckedCommitted
          /\ SomebodyPushes /\ SomebodyCatchesUp

USE GitAssumption DEF Start

-----------------------------------------------------------------------------
(* Nothing is cloned, staged or acknowledged at first. *)
LEMMA GitInit == Init => GitInv
<1> SUFFICES ASSUME Init PROVE GitInv
  OBVIOUS
<1> USE DEF Init
<1>1. GitTypeOK
  BY DEF GitTypeOK, CloneRecord, OpRecord, Phases, Idle
<1>2. MadeFirst
  BY DEF MadeFirst, Idle
<1>3. PutsStaged
  BY DEF PutsStaged, Staged, Idle
<1>4. AckedCommitted
  BY DEF AckedCommitted
<1>5. SomebodyPushes
  BY DEF SomebodyPushes, Settled
<1>6. SomebodyCatchesUp
  BY DEF SomebodyCatchesUp, Matched
<1> QED BY <1>1, <1>2, <1>3, <1>4, <1>5, <1>6 DEF GitInv

(* A step of one sink.  It may add to the history and the index of its     *)
(* clone and to the remote, takes nothing from either, acknowledges what   *)
(* its clone has, and leaves a history that is settled, untouched or to be *)
(* pushed by itself.                                                       *)
LEMMA SinkStep ==
    ASSUME GitInv, GitTypeOK', NEW s \in Sinks, NEW k \in Clones, k = CloneOf[s],
           \A t \in Sinks \ {s} : op'[t] = op[t],
           \A m \in Clones \ {k} : clone'[m] = clone[m],
           \A b : Has(clone[k].log, "add", b) => Has(clone'[k].log, "add", b),
           \A b : Has(clone[k].log \cup clone[k].index, "add", b)
                    => Has(clone'[k].log \cup clone'[k].index, "add", b),
           remote \subseteq remote', warned \subseteq warned', crashed' = crashed,
           behind \subseteq behind' \cup {k},
           \A b \in acked' : b \in acked \/ Has(clone'[k].log, "add", b),
           clone[k].exists => clone'[k].exists,
           ~clone'[k].exists => clone'[k].log = {},
           op'[s].at \notin {"idle", Start} => clone'[k].exists,
           Staged(op'[s], clone'[k]),
           \/ op'[s].at \in Pushing
           \/ /\ Settled(clone'[k].log, remote', warned')
              /\ k \in behind' \/ Matched(clone'[k].log, remote')
           \/ clone'[k].log = clone[k].log /\ op[s].at \notin Pushing /\ behind \subseteq behind'
    PROVE  GitInv'
<1> USE DEF GitInv
<1>1. MadeFirst'
  BY DEF MadeFirst
<1>2. PutsStaged'
  <2> SUFFICES ASSUME NEW t \in Sinks PROVE Staged(op'[t], clone'[CloneOf[t]])
    BY DEF PutsStaged
  <2>1. CASE t = s
    BY <2>1
  <2>2. CASE t # s
    <3>1. op'[t] = op[t] /\ Staged(op[t], clone[CloneOf[t]]) /\ CloneOf[t] \in Clones
      BY <2>2 DEF PutsStaged
    <3>2. CASE CloneOf[t] = k
      BY <3>1, <3>2 DEF Staged
    <3>3. CASE CloneOf[t] # k
      BY <3>1, <3>3
    <3> QED BY <3>2, <3>3
  <2> QED BY <2>1, <2>2
<1>3. AckedCommitted'
  <2> SUFFICES ASSUME NEW b \in acked' PROVE \E m \in Clones : Has(clone'[m].log, "add", b)
    BY DEF AckedCommitted
  <2>1. CASE Has(clone'[k].log, "add", b)
    BY <2>1
  <2>2. CASE b \in acked
    <3>1. PICK m \in Clones : Has(clone[m].log, "add", b)
      BY <2>2 DEF AckedCommitted
    <3> QED BY <3>1
  <2> QED BY <2>1, <2>2
<1>4. SomebodyPushes'
  <2> SUFFICES ASSUME NEW m \in Clones \ crashed
               PROVE  \/ Settled(clone'[m].log, remote', warned')
                      \/ \E t \in Sinks : CloneOf[t] = m /\ op'[t].at \in Pushing
    BY DEF SomebodyPushes
  <2>1. \A log : Settled(log, remote, warned) => Settled(log, remote', warned')
    BY DEF Settled, Has
  <2>2. CASE m # k
    BY <2>1, <2>2 DEF SomebodyPushes
  <2>3. CASE m = k
    BY <2>1, <2>3 DEF SomebodyPushes
  <2> QED BY <2>2, <2>3
<1>5. SomebodyCatchesUp'
  <2> SUFFICES ASSUME NEW m \in Clones \ behind'
               PROVE  \/ Matched(clone'[m].log, remote')
                      \/ \E t \in Sinks : CloneOf[t] = m /\ op'[t].at \in Pushing
    BY DEF SomebodyCatchesUp
  <2>1. \A log : Matched(log, remote) => Matched(log, remote')
    BY DEF Matched, Has
  <2>2. CASE m # k
    BY <2>1, <2>2 DEF SomebodyCatchesUp
  <2>3. CASE m = k
    BY <2>1, <2>3 DEF SomebodyCatchesUp
  <2> QED BY <2>2, <2>3
<1> QED BY <1>1, <1>2, <1>3, <1>4, <1>5

-----------------------------------------------------------------------------
(* Step(s, at): only the phase of one sink changes. *)
LEMMA Moves ==
    ASSUME GitTypeOK, NEW s \in Sinks, NEW at \in Phases, Step(s, at)
    PROVE  /\ op' \in [Sinks -> OpRecord]
           /\ op'[s].at = at /\ op'[s].kind = op[s].kind /\ op'[s].b = op[s].b
           /\ \A t \in Sinks \ {s} : op'[t] = op[t]
BY DEF GitTypeOK, Step, OpRecord

(* Done(s): one sink is idle. *)
LEMMA Dones ==
    ASSUME GitTypeOK, NEW s \in Sinks, Done(s)
    PROVE  /\ op' \in [Sinks -> OpRecord]
           /\ op'[s].at = "idle"
           /\ \A t \in Sinks \ {s} : op'[t] = op[t]
<1>1. Idle \in OpRecord /\ Idle.at = "idle"
  BY DEF Idle, OpRecord, Phases
<1> HIDE DEF Idle
<1> QED BY <1>1 DEF GitTypeOK, Done

(* What the clone of a sink is. *)
LEMMA CloneFacts ==
    ASSUME GitInv, NEW s \in Sinks
    PROVE  /\ GitTypeOK /\ CloneOf[s] \in Clones
           /\ clone[CloneOf[s]] \in CloneRecord
           /\ clone[CloneOf[s]].log \subseteq Changes /\ clone[CloneOf[s]].index \subseteq Changes
           /\ ~clone[CloneOf[s]].exists => clone[CloneOf[s]].log = {}
           /\ op[s].at \notin {"idle", Start} => clone[CloneOf[s]].exists
           /\ op[s] \in OpRecord /\ Staged(op[s], clone[CloneOf[s]])
BY DEF GitInv, GitTypeOK, CloneRecord, MadeFirst, PutsStaged

(* A step that leaves the clone, the remote and the histories as they are, *)
(* by a sink that is neither pushing nor going to.                         *)
LEMMA IdleStep ==
    ASSUME GitInv, NEW s \in Sinks, op' \in [Sinks -> OpRecord],
           \A t \in Sinks \ {s} : op'[t] = op[t],
           UNCHANGED <<remote, clone, acked, warned, crashed, behind>>,
           op[s].at \notin Pushing, op'[s].at \notin Pushing \cup {"commit", "rm"},
           op'[s].at \in {"idle", Start} \/ clone[CloneOf[s]].exists
    PROVE  GitInv'
<1>1. GitTypeOK'
  BY DEF GitInv, GitTypeOK
<1>2. Staged(op'[s], clone'[CloneOf[s]])
  BY DEF Staged, Pushing
<1> QED BY <1>1, <1>2, CloneFacts, SinkStep

(* An operation begins with _sync_init. *)
LEMMA BeginStep == ASSUME GitInv, NEW s \in Sinks, Begin(s) PROVE GitInv'
<1>1. PICK r \in OpRecord : r.at = Start /\ op' = [op EXCEPT ![s] = r]
  BY DEF Begin, OpRecord, Phases
<1>2. op[s].at = "idle"
  BY DEF Begin, Idle
<1>3. /\ op' \in [Sinks -> OpRecord] /\ op'[s].at = Start
      /\ \A t \in Sinks \ {s} : op'[t] = op[t]
  BY <1>1 DEF GitInv, GitTypeOK
<1> QED BY <1>2, <1>3, IdleStep DEF Begin, hist, Pushing

(* The clone that is made starts from the remote, or from nothing. *)
LEMMA CloneStep == ASSUME GitInv, NEW s \in Sinks, Clone(s) PROVE GitInv'
<1> DEFINE k == CloneOf[s]
<1>1. op[s].at = Start /\ UNCHANGED <<remote, acked, warned, crashed, behind>>
  BY DEF Clone, hist
<1>2. CASE clone[k].exists /\ Step(s, "attributes") /\ UNCHANGED clone
  <2>1. /\ op' \in [Sinks -> OpRecord] /\ op'[s].at = "attributes"
        /\ \A t \in Sinks \ {s} : op'[t] = op[t]
    BY <1>2, CloneFacts, Moves DEF Phases
  <2> QED BY <1>1, <1>2, <2>1, IdleStep DEF Pushing
<1>3. CASE Done(s) /\ UNCHANGED clone
  BY <1>1, <1>3, CloneFacts, Dones, IdleStep DEF Pushing
<1>4. ASSUME ~clone[k].exists, Step(s, "attributes"), NEW log \in {remote, {}},
             clone' = [clone EXCEPT ![k].exists = TRUE, ![k].log = log]
      PROVE  GitInv'
  <2>1. /\ k \in Clones /\ clone[k].log = {} /\ log \subseteq Changes
        /\ clone' \in [Clones -> CloneRecord]
        /\ clone'[k].exists /\ clone'[k].log = log /\ clone'[k].index = clone[k].index
        /\ \A m \in Clones \ {k} : clone'[m] = clone[m]
    BY <1>4, CloneFacts DEF GitTypeOK, CloneRecord
  <2>2. /\ op' \in [Sinks -> OpRecord] /\ op'[s].at = "attributes"
        /\ \A t \in Sinks \ {s} : op'[t] = op[t]
    BY <1>4, CloneFacts, Moves DEF Phases
  <2>3. GitTypeOK'
    BY <1>1, <2>1, <2>2 DEF GitInv, GitTypeOK
  <2>4. Staged(op'[s], clone'[k])
    BY <2>2 DEF Staged
  <2>5. Settled(clone'[k].log, remote', warned') /\ Matched(clone'[k].log, remote')
    BY <1>1, <2>1 DEF Settled, Matched, Has
  <2>6. /\ \A b : ~Has(clone[k].log, "add", b)
        /\ \A b : Has(clone[k].log \cup clone[k].index, "add", b)
                    => Has(clone'[k].log \cup clone'[k].index, "add", b)
    BY <2>1 DEF Has
  <2> QED BY <1>1, <2>1, <2>2, <2>3, <2>4, <2>5, <2>6, SinkStep
<1> QED BY <1>2, <1>3, <1>4 DEF Clone

(* get, verify and list_snapshots return. *)
LEMMA ReadStep == ASSUME GitInv, NEW s \in Sinks, Read(s) PROVE GitInv'
BY CloneFacts, Dones, IdleStep DEF Read, hist, Pushing

(* A command that fails ends an operation that is not pushing. *)
LEMMA FailStep == ASSUME GitInv, NEW s \in Sinks, Fail(s) PROVE GitInv'
BY CloneFacts, Dones, IdleStep DEF Fail, hist, Pushing

-----------------------------------------------------------------------------
(* A push ends, taken or given up: the history it found is settled. *)
LEMMA SettleStep ==
    ASSUME GitInv, NEW s \in Sinks, op[s].at \in Pushing,
           op' \in [Sinks -> OpRecord], \A t \in Sinks \ {s} : op'[t] = op[t],
           op'[s].at \in {"idle", "write", "pull"},
           clone' = clone, crashed' = crashed,
           Pushed(CloneOf[s]) \/ GivenUp(CloneOf[s]),
           acked' = acked \/ (op[s].at # "first push" /\ op[s].kind = "put" /\ acked' = acked \cup {op[s].b})
    PROVE  GitInv'
<1> DEFINE k == CloneOf[s]
<1>1. GitTypeOK' /\ remote \subseteq remote' /\ warned \subseteq warned'
  BY CloneFacts DEF GitTypeOK, FastForward, Pushed, GivenUp
<1>2. Staged(op'[s], clone'[k])
  BY DEF Staged
<1>3. /\ Settled(clone'[k].log, remote', warned') /\ behind \subseteq behind' \cup {k}
      /\ k \in behind' \/ Matched(clone'[k].log, remote')
  BY DEF Settled, Matched, Has, Pushed, GivenUp
<1>4. \A b \in acked' : b \in acked \/ Has(clone'[k].log, "add", b)
  <2>1. op[s].at # "first push" /\ op[s].kind = "put" => Has(clone[k].log, "add", op[s].b)
    <3>1. Staged(op[s], clone[k])
      BY CloneFacts
    <3> QED BY <3>1 DEF Staged, Pushing
  <2> QED BY <2>1
<1>5. k \in Clones /\ clone[k].exists
  BY CloneFacts DEF Pushing
<1> QED BY <1>1, <1>2, <1>3, <1>4, <1>5, SinkStep

(* Return(s), from any phase. *)
LEMMA Returns ==
    ASSUME GitTypeOK, NEW s \in Sinks, Return(s)
    PROVE  /\ op' \in [Sinks -> OpRecord] /\ op'[s].at = "idle"
           /\ \A t \in Sinks \ {s} : op'[t] = op[t]
           /\ acked' = acked \/ (op[s].kind = "put" /\ acked' = acked \cup {op[s].b})
BY Dones DEF Return

(* _try_push_sync pushes all the clone has, or warns. *)
LEMMA FirstPushStep == ASSUME GitInv, NEW s \in Sinks, FirstPush(s) PROVE GitInv'
<1>1. Step(s, AfterInit(s)) /\ AfterInit(s) \in {"write", "pull"} /\ AfterInit(s) \in Phases
  BY DEF FirstPush, AfterInit, Phases
<1>2. /\ op' \in [Sinks -> OpRecord] /\ \A t \in Sinks \ {s} : op'[t] = op[t]
      /\ op'[s].at \in {"idle", "write", "pull"}
  BY <1>1, CloneFacts, Moves
<1> QED BY <1>2, SettleStep DEF FirstPush, Pushing

(* A sink that goes from one phase of a push to the next, its clone's      *)
(* history keeping all it has.                                             *)
LEMMA KeepPushing ==
    ASSUME GitInv, NEW s \in Sinks, op[s].at \in {"push", "rebase", "repush"},
           NEW at \in {"push", "rebase", "repush"}, Step(s, at),
           NEW log \in SUBSET Changes, clone' = [clone EXCEPT ![CloneOf[s]].log = log],
           \A b : Has(clone[CloneOf[s]].log, "add", b) => Has(log, "add", b),
           UNCHANGED <<remote, acked, warned, crashed, behind>>
    PROVE  GitInv'
<1> DEFINE k == CloneOf[s]
<1>1. /\ k \in Clones /\ clone[k].exists
      /\ clone' \in [Clones -> CloneRecord]
      /\ clone'[k].exists /\ clone'[k].log = log /\ clone'[k].index = clone[k].index
      /\ \A m \in Clones \ {k} : clone'[m] = clone[m]
  BY CloneFacts DEF GitTypeOK, CloneRecord
<1>2. /\ op' \in [Sinks -> OpRecord] /\ \A t \in Sinks \ {s} : op'[t] = op[t]
      /\ op'[s].at = at /\ op'[s].kind = op[s].kind /\ op'[s].b = op[s].b
  BY CloneFacts, Moves DEF Phases, Pushing
<1>3. GitTypeOK'
  BY <1>1, <1>2 DEF GitInv, GitTypeOK
<1>4. Staged(op'[s], clone'[k])
  <2>1. op[s].kind = "put" => Has(clone[k].log, "add", op[s].b)
    <3>1. Staged(op[s], clone[k])
      BY CloneFacts
    <3> QED BY <3>1 DEF Staged
  <2>2. op[s].kind = "put" => Has(clone'[k].log, "add", op'[s].b)
    BY <1>1, <1>2, <2>1
  <2> QED BY <1>2, <2>2 DEF Staged
<1>5. \A b : Has(clone[k].log \cup clone[k].index, "add", b)
               => Has(clone'[k].log \cup clone'[k].index, "add", b)
  BY <1>1 DEF Has
<1>6. op'[s].at \in Pushing
  BY <1>2 DEF Pushing
<1>7. /\ remote \subseteq remote' /\ warned \subseteq warned' /\ crashed' = crashed
      /\ behind \subseteq behind' \cup {k}
      /\ \A b \in acked' : b \in acked \/ Has(clone'[k].log, "add", b)
  OBVIOUS
<1>8. \A b : Has(clone[k].log, "add", b) => Has(clone'[k].log, "add", b)
  BY <1>1
<1>9. k = CloneOf[s]
  OBVIOUS
<1> HIDE DEF k
<1> QED BY <1>1, <1>2, <1>3, <1>4, <1>5, <1>6, <1>7, <1>8, <1>9, SinkStep

(* _try_push. *)
LEMMA PushStep == ASSUME GitInv, NEW s \in Sinks, Push(s) PROVE GitInv'
<1>1. op[s].at = "push" /\ clone' = clone /\ crashed' = crashed
  BY DEF Push
<1>2. CASE Return(s) /\ (Pushed(CloneOf[s]) \/ GivenUp(CloneOf[s]))
  BY <1>1, <1>2, CloneFacts, Returns, SettleStep DEF Pushing
<1>3. CASE Step(s, "rebase") /\ UNCHANGED <<remote, acked, warned, behind>>
  <2>1. /\ clone' = [clone EXCEPT ![CloneOf[s]].log = clone[CloneOf[s]].log]
        /\ clone[CloneOf[s]].log \in SUBSET Changes
    BY <1>1, CloneFacts DEF GitTypeOK, CloneRecord
  <2> QED BY <1>1, <1>3, <2>1, KeepPushing
<1> QED BY <1>2, <1>3 DEF Push

(* git pull --rebase keeps every bundle of the two histories. *)
LEMMA RebaseStep == ASSUME GitInv, NEW s \in Sinks, Rebase(s) PROVE GitInv'
<1> DEFINE k == CloneOf[s]
<1>1. op[s].at = "rebase" /\ crashed' = crashed
  BY DEF Rebase
<1>2. CASE GivenUp(k) /\ Return(s) /\ UNCHANGED clone
  BY <1>1, <1>2, CloneFacts, Returns, SettleStep DEF Pushing
<1>3. CASE /\ clone' = [clone EXCEPT ![k].log = Rebased(clone[k].log)]
           /\ Step(s, "repush") /\ UNCHANGED <<remote, acked, warned, behind>>
  <2>1. Rebased(clone[k].log) \in SUBSET Changes
    BY CloneFacts DEF Rebased, GitTypeOK
  <2>2. \A b : Has(clone[k].log, "add", b) => Has(Rebased(clone[k].log), "add", b)
    BY DEF Has, Rebased
  <2> QED BY <1>1, <1>3, <2>1, <2>2, KeepPushing
<1> QED BY <1>2, <1>3 DEF Rebase

(* The second push. *)
LEMMA RepushStep == ASSUME GitInv, NEW s \in Sinks, Repush(s) PROVE GitInv'
BY CloneFacts, Returns, SettleStep DEF Repush, Pushing

-----------------------------------------------------------------------------
(* A step in the clone before the push: files, the index and the history   *)
(* may change, what is staged stays staged or is committed.                *)
LEMMA LocalStep ==
    ASSUME GitInv, NEW s \in Sinks, op[s].at \notin Pushing \cup {"idle", Start},
           op' \in [Sinks -> OpRecord], \A t \in Sinks \ {s} : op'[t] = op[t],
           NEW r \in CloneRecord, clone' = [clone EXCEPT ![CloneOf[s]] = r], r.exists,
           \A b : Has(clone[CloneOf[s]].log, "add", b) => Has(r.log, "add", b),
           clone[CloneOf[s]].log \cup clone[CloneOf[s]].index \subseteq r.log \cup r.index,
           \/ r.log = clone[CloneOf[s]].log
           \/ op'[s].at \in Pushing
           \/ r.log = remote,
           Staged(op'[s], r),
           UNCHANGED <<remote, acked, warned, crashed, behind>>
    PROVE  GitInv'
<1> DEFINE k == CloneOf[s]
<1>1. /\ k \in Clones /\ clone' \in [Clones -> CloneRecord] /\ clone'[k] = r
      /\ \A m \in Clones \ {k} : clone'[m] = clone[m]
  BY CloneFacts DEF GitTypeOK
<1>2. GitTypeOK'
  BY <1>1 DEF GitInv, GitTypeOK
<1>3. r.log = remote => Settled(r.log, remote', warned') /\ Matched(r.log, remote')
  BY DEF Settled, Matched, Has
<1>4. \A b : Has(clone[k].log \cup clone[k].index, "add", b)
               => Has(clone'[k].log \cup clone'[k].index, "add", b)
  BY <1>1 DEF Has
<1> QED BY <1>1, <1>2, <1>3, <1>4, SinkStep

(* .gitattributes is committed with whatever is staged. *)
LEMMA AttributesStep == ASSUME GitInv, NEW s \in Sinks, Attributes(s) PROVE GitInv'
<1> DEFINE k == CloneOf[s]
<1>1. op[s].at = "attributes" /\ UNCHANGED <<remote, acked, warned, crashed, behind>> /\ clone[k].exists
  BY CloneFacts DEF Attributes, hist
<1>2. CASE Step(s, AfterInit(s)) /\ UNCHANGED clone
  <2>1. AfterInit(s) \in Phases /\ AfterInit(s) \notin Pushing \cup {"commit", "rm"}
    BY DEF AfterInit, Phases, Pushing
  <2>2. /\ op' \in [Sinks -> OpRecord] /\ op'[s].at = AfterInit(s)
        /\ \A t \in Sinks \ {s} : op'[t] = op[t]
    BY <1>2, <2>1, CloneFacts, Moves
  <2> QED BY <1>1, <1>2, <2>1, <2>2, IdleStep DEF Pushing
<1>3. ASSUME clone' = [clone EXCEPT ![k].log = @ \cup clone[k].index \cup {Change(k, "attr", None)},
                                    ![k].index = {}],
             Step(s, "first push")
      PROVE  GitInv'
  <2> DEFINE r == [clone[k] EXCEPT !.log = @ \cup clone[k].index \cup {Change(k, "attr", None)},
                                   !.index = {}]
  <2>1. Change(k, "attr", None) \in Changes
    BY CloneFacts DEF Change, Changes
  <2>2. /\ r \in CloneRecord /\ r.exists
        /\ r.log = clone[k].log \cup clone[k].index \cup {Change(k, "attr", None)} /\ r.index = {}
    BY <1>1, <2>1, CloneFacts DEF CloneRecord
  <2>3. clone' = [clone EXCEPT ![k] = r]
    BY <1>3
  <2>4. /\ op' \in [Sinks -> OpRecord] /\ op'[s].at = "first push"
        /\ \A t \in Sinks \ {s} : op'[t] = op[t]
    BY <1>3, CloneFacts, Moves DEF Phases, Pushing
  <2> HIDE DEF r
  <2>5. \A b : Has(clone[k].log, "add", b) => Has(r.log, "add", b)
    BY <2>2 DEF Has
  <2>6. Staged(op'[s], r) /\ op'[s].at \in Pushing /\ op[s].at \notin Pushing
    BY <1>1, <2>4 DEF Staged, Pushing
  <2> QED BY <1>1, <2>2, <2>3, <2>4, <2>5, <2>6, LocalStep
<1> QED BY <1>2, <1>3 DEF Attributes

(* The two files of a snapshot are written. *)
LEMMA WriteStep == ASSUME GitInv, NEW s \in Sinks, Write(s) PROVE GitInv'
<1> DEFINE k == CloneOf[s]
           r == [clone[k] EXCEPT !.loose = @ \cup {op[s].b}]
<1>1. op[s].at = "write" /\ UNCHANGED <<remote, acked, warned, crashed, behind>> /\ clone[k].exists
  BY CloneFacts DEF Write, hist
<1>2. r \in CloneRecord /\ r.exists /\ r.log = clone[k].log /\ r.index = clone[k].index
  BY <1>1, CloneFacts DEF CloneRecord, OpRecord
<1>3. clone' = [clone EXCEPT ![k] = r]
  BY DEF Write
<1>4. /\ op' \in [Sinks -> OpRecord] /\ op'[s].at = "add" /\ \A t \in Sinks \ {s} : op'[t] = op[t]
  BY CloneFacts, Moves DEF Write, Phases
<1> HIDE DEF r
<1>5. Staged(op'[s], r) /\ op[s].at \notin Pushing
  BY <1>1, <1>4 DEF Staged, Pushing
<1> QED BY <1>1, <1>2, <1>3, <1>4, <1>5, LocalStep

(* git add stages the snapshot. *)
LEMMA AddStep == ASSUME GitInv, NEW s \in Sinks, Add(s) PROVE GitInv'
<1> DEFINE k == CloneOf[s]
           x == Change(k, "add", op[s].b)
           r == [clone[k] EXCEPT !.loose = @ \ {op[s].b}, !.index = @ \cup {x}]
<1>1. op[s].at = "add" /\ UNCHANGED <<remote, acked, warned, crashed, behind>> /\ clone[k].exists
  BY CloneFacts DEF Add, hist
<1>2. x \in Changes /\ x.kind = "add" /\ x.b = op[s].b
  BY CloneFacts DEF Change, Changes, OpRecord
<1> HIDE DEF x
<1>3. r \in CloneRecord /\ r.exists /\ r.log = clone[k].log /\ r.index = clone[k].index \cup {x}
  BY <1>1, <1>2, CloneFacts DEF CloneRecord
<1>4. clone' = [clone EXCEPT ![k] = r]
  BY DEF Add, x
<1>5. /\ op' \in [Sinks -> OpRecord] /\ op'[s].at = "commit" /\ op'[s].b = op[s].b
      /\ \A t \in Sinks \ {s} : op'[t] = op[t]
  BY CloneFacts, Moves DEF Add, Phases
<1> HIDE DEF r
<1>6. Has(r.log \cup r.index, "add", op[s].b)
  BY <1>2, <1>3 DEF Has
<1>7. Staged(op'[s], r) /\ op[s].at \notin Pushing
  BY <1>1, <1>5, <1>6 DEF Staged, Pushing
<1> QED BY <1>1, <1>3, <1>4, <1>5, <1>7, LocalStep

(* git rm stages the removal. *)
LEMMA RmStep == ASSUME GitInv, NEW s \in Sinks, Rm(s) PROVE GitInv'
<1> DEFINE k == CloneOf[s]
           x == Change(k, "del", op[s].b)
           r == [clone[k] EXCEPT !.index = @ \cup {x}]
<1>1. /\ op[s].at = "rm" /\ UNCHANGED <<remote, acked, warned, crashed, behind>> /\ clone[k].exists
      /\ op[s].kind # "put"
  BY CloneFacts DEF Rm, hist, Staged
<1>2. CASE Done(s) /\ UNCHANGED clone
  BY <1>1, <1>2, CloneFacts, Dones, IdleStep DEF Pushing
<1>3. ASSUME clone' = [clone EXCEPT ![k].index = @ \cup {x}], Step(s, "commit") PROVE GitInv'
  <2>1. x \in Changes
    BY CloneFacts DEF Change, Changes, OpRecord
  <2> HIDE DEF x
  <2>2. r \in CloneRecord /\ r.exists /\ r.log = clone[k].log /\ r.index = clone[k].index \cup {x}
    BY <1>1, <2>1, CloneFacts DEF CloneRecord
  <2>3. clone' = [clone EXCEPT ![k] = r]
    BY <1>3
  <2>4. /\ op' \in [Sinks -> OpRecord] /\ op'[s].kind = op[s].kind
        /\ \A t \in Sinks \ {s} : op'[t] = op[t]
    BY <1>3, CloneFacts, Moves DEF Phases
  <2> HIDE DEF r
  <2>5. Staged(op'[s], r) /\ op[s].at \notin Pushing
    BY <1>1, <2>4 DEF Staged, Pushing
  <2> QED BY <1>1, <2>2, <2>3, <2>4, <2>5, LocalStep
<1> QED BY <1>2, <1>3 DEF Rm

(* git commit takes all that is staged; with a clean status, somebody else *)
(* has committed it.                                                       *)
LEMMA CommitStep == ASSUME GitInv, NEW s \in Sinks, Commit(s) PROVE GitInv'
<1> DEFINE k == CloneOf[s]
           r == [clone[k] EXCEPT !.log = @ \cup clone[k].index, !.index = {}]
<1>1. /\ op[s].at = "commit" /\ UNCHANGED <<remote, warned, crashed, behind>> /\ clone[k].exists
      /\ k \in Clones
      /\ op[s].kind = "put" => Has(clone[k].log \cup clone[k].index, "add", op[s].b)
  BY CloneFacts DEF Commit, Staged
<1>2. CASE Clean(k) /\ Return(s) /\ UNCHANGED clone
  <2>1. op[s].kind = "put" => Has(clone[k].log, "add", op[s].b)
    BY <1>1, <1>2 DEF Clean
  <2>2. /\ op' \in [Sinks -> OpRecord] /\ op'[s].at = "idle" /\ \A t \in Sinks \ {s} : op'[t] = op[t]
        /\ acked' = acked \/ (op[s].kind = "put" /\ acked' = acked \cup {op[s].b})
    BY <1>2, CloneFacts, Returns
  <2>3. GitTypeOK'
    BY <1>1, <1>2, <2>2 DEF GitInv, GitTypeOK
  <2>4. Staged(op'[s], clone'[k]) /\ op[s].at \notin Pushing
    BY <1>1, <2>2 DEF Staged, Pushing
  <2>5. \A b \in acked' : b \in acked \/ Has(clone'[k].log, "add", b)
    BY <1>2, <2>1, <2>2
  <2> QED BY <1>1, <1>2, <2>2, <2>3, <2>4, <2>5, SinkStep
<1>3. CASE Done(s) /\ UNCHANGED <<clone, acked>>
  BY <1>1, <1>3, CloneFacts, Dones, IdleStep DEF Pushing
<1>4. ASSUME clone' = [clone EXCEPT ![k].log = @ \cup clone[k].index, ![k].index = {}],
             Step(s, "push"), acked' = acked
      PROVE  GitInv'
  <2>1. r \in CloneRecord /\ r.exists /\ r.log = clone[k].log \cup clone[k].index /\ r.index = {}
    BY <1>1, CloneFacts DEF CloneRecord
  <2>2. clone' = [clone EXCEPT ![k] = r]
    BY <1>4
  <2>3. /\ op' \in [Sinks -> OpRecord] /\ \A t \in Sinks \ {s} : op'[t] = op[t]
        /\ op'[s].at = "push" /\ op'[s].kind = op[s].kind /\ op'[s].b = op[s].b
    BY <1>4, CloneFacts, Moves DEF Phases, Pushing
  <2> HIDE DEF r
  <2>4. Staged(op'[s], r) /\ op'[s].at \in Pushing /\ op[s].at \notin Pushing
    BY <1>1, <2>1, <2>3 DEF Staged, Pushing
  <2>5. \A b : Has(clone[k].log, "add", b) => Has(r.log, "add", b)
    BY <2>1 DEF Has
  <2> QED BY <1>1, <1>4, <2>1, <2>2, <2>3, <2>4, <2>5, LocalStep
<1> QED BY <1>2, <1>3, <1>4 DEF Commit

(* _pull fast-forwards to the remote, or does nothing. *)
LEMMA PullStep == ASSUME GitInv, NEW s \in Sinks, Pull(s) PROVE GitInv'
<1> DEFINE k == CloneOf[s]
           r == [clone[k] EXCEPT !.log = remote]
           at == IF op[s].kind = "delete" THEN "rm" ELSE "read"
<1>1. /\ op[s].at = "pull" /\ UNCHANGED <<remote, acked, warned, crashed, behind>> /\ clone[k].exists
      /\ op[s].at \notin Pushing
  BY CloneFacts DEF Pull, hist, Pushing
<1>2. /\ op' \in [Sinks -> OpRecord] /\ \A t \in Sinks \ {s} : op'[t] = op[t]
      /\ op'[s].at = at /\ op'[s].kind = op[s].kind
  BY CloneFacts, Moves DEF Pull, Phases
<1>3. \A c : Staged(op'[s], c)
  BY <1>2 DEF Staged
<1>4. CASE UNCHANGED clone
  <2>1. clone' = [clone EXCEPT ![k] = clone[k]]
    BY <1>4, CloneFacts DEF GitTypeOK
  <2> QED BY <1>1, <1>2, <1>3, <2>1, CloneFacts, LocalStep
<1>5. ASSUME clone[k].log \subseteq remote, clone' = [clone EXCEPT ![k].log = remote] PROVE GitInv'
  <2>1. r \in CloneRecord /\ r.exists /\ r.log = remote /\ r.index = clone[k].index
    BY <1>1, CloneFacts DEF CloneRecord, GitTypeOK
  <2>2. clone' = [clone EXCEPT ![k] = r]
    BY <1>5
  <2> HIDE DEF r
  <2>3. \A b : Has(clone[k].log, "add", b) => Has(r.log, "add", b)
    BY <1>5, <2>1 DEF Has
  <2>4. clone[k].log \cup clone[k].index \subseteq r.log \cup r.index
    BY <1>5, <2>1
  <2> QED BY <1>1, <1>2, <1>3, <2>1, <2>2, <2>3, <2>4, LocalStep
<1> QED BY <1>4, <1>5 DEF Pull

(* The end of a process leaves the clone as it is and excuses it. *)
LEMMA CrashStep == ASSUME GitInv, NEW k \in Clones, Crash(k) PROVE GitInv'
<1> USE DEF GitInv, Crash
<1>0. Idle \in OpRecord /\ Idle.at = "idle"
  BY DEF Idle, OpRecord, Phases
<1> HIDE DEF Idle
<1>1. GitTypeOK'
  BY <1>0 DEF GitTypeOK
<1>2. MadeFirst'
  BY <1>0 DEF MadeFirst
<1>3. PutsStaged'
  BY <1>0 DEF PutsStaged, Staged
<1>4. AckedCommitted'
  BY DEF AckedCommitted
<1>5. SomebodyPushes'
  <2> SUFFICES ASSUME NEW m \in Clones \ crashed, m # k
               PROVE  \/ Settled(clone[m].log, remote, warned)
                      \/ \E t \in Sinks : CloneOf[t] = m /\ op'[t].at \in Pushing
    BY DEF SomebodyPushes
  <2> QED BY DEF SomebodyPushes
<1>6. SomebodyCatchesUp'
  <2> SUFFICES ASSUME NEW m \in Clones \ behind, m # k
               PROVE  \/ Matched(clone[m].log, remote)
                      \/ \E t \in Sinks : CloneOf[t] = m /\ op'[t].at \in Pushing
    BY DEF SomebodyCatchesUp
  <2> QED BY DEF SomebodyCatchesUp
<1> QED BY <1>1, <1>2, <1>3, <1>4, <1>5, <1>6

-----------------------------------------------------------------------------
(* GitInv holds in every reachable state. *)
THEOREM GitInvariant == Spec => []GitInv
<1>1. Init => GitInv
  BY GitInit
<1>2. GitInv /\ [Next]_vars => GitInv'
  <2> SUFFICES ASSUME GitInv, [Next]_vars PROVE GitInv'
    OBVIOUS
  <2>1. CASE UNCHANGED vars
    BY <2>1 DEF vars, hist, GitInv, GitTypeOK, MadeFirst, PutsStaged, AckedCommitted,
                   SomebodyPushes, SomebodyCatchesUp
  <2>2. ASSUME NEW s \in Sinks,
               \/ Begin(s) \/ Clone(s) \/ Attributes(s) \/ FirstPush(s) \/ Write(s) \/ Add(s) \/ Commit(s)
        PROVE  GitInv'
    BY <2>2, BeginStep, CloneStep, AttributesStep, FirstPushStep, WriteStep, AddStep, CommitStep
  <2>3. ASSUME NEW s \in Sinks,
               Push(s) \/ Rebase(s) \/ Repush(s) \/ Pull(s) \/ Read(s) \/ Rm(s) \/ Fail(s)
        PROVE  GitInv'
    BY <2>3, PushStep, RebaseStep, RepushStep, PullStep, ReadStep, RmStep, FailStep
  <2>4. ASSUME NEW k \in Clones, Crash(k) PROVE GitInv'
    BY <2>4, CrashStep
  <2> QED BY <2>1, <2>2, <2>3, <2>4 DEF Next
<1> QED BY <1>1, <1>2, PTL DEF Spec

(* A snapshot whose put returned stays in the history of a clone, whatever *)
(* other operations, processes and failures do.                            *)
THEOREM AckedStay == Spec => []AckedIsKept
<1>1. GitInv => AckedIsKept
  BY DEF GitInv, AckedCommitted, AckedIsKept
<1> QED BY <1>1, GitInvariant, PTL

(* A snapshot that put reported as stored is at the remote once its clone  *)
(* is quiet, or was reported as local only, or its process ended.          *)
THEOREM SilentPutsPushed == Spec => []SilentPutsArePushed
<1>1. GitInv => SilentPutsArePushed
  <2> SUFFICES ASSUME GitInv, NEW k \in Clones \ crashed, Quiet(k),
                      NEW x \in clone[k].log, x.kind = "add"
               PROVE  Has(remote, "add", x.b) \/ x \in warned
    BY DEF SilentPutsArePushed
  <2>0. Idle.at \notin Pushing
    BY DEF Idle, Pushing
  <2>1. \A s \in Sinks : CloneOf[s] = k => op[s].at \notin Pushing
    BY <2>0 DEF Quiet
  <2> QED BY <2>1 DEF GitInv, SomebodyPushes, Settled
<1> QED BY <1>1, GitInvariant, PTL

(* Once a push has been taken after the last one that was given up and the *)
(* last end of the process, a quiet clone has nothing that the remote has  *)
(* not.                                                                    *)
THEOREM PushesBringAll == Spec => []PushesCatchUp
<1>1. GitInv => PushesCatchUp
  <2> SUFFICES ASSUME GitInv, NEW k \in Clones \ behind, Quiet(k)
               PROVE  Matched(clone[k].log, remote)
    BY DEF PushesCatchUp, Matched
  <2>0. Idle.at \notin Pushing
    BY DEF Idle, Pushing
  <2>1. \A s \in Sinks : CloneOf[s] = k => op[s].at \notin Pushing
    BY <2>0 DEF Quiet
  <2> QED BY <2>1 DEF GitInv, SomebodyCatchesUp
<1> QED BY <1>1, GitInvariant, PTL
=============================================================================
