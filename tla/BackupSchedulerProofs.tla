------------------------ MODULE BackupSchedulerProofs ------------------------
(***************************************************************************)
(* Proofs about BackupScheduler, for any schedules and configurations, any *)
(* faults and any length of the run table.                                 *)
(***************************************************************************)
EXTENDS BackupScheduler, FiniteSetTheorems, SequenceTheorems, WellFoundedInduction, TLAPS

RunRecord == [sched : Schedules, status : RunStatus, loc : Locators \cup {NoLoc},
              blob : Blobs \cup {NoBlob}, started : 1..MaxTime, created : 1..MaxTime]
ScheduleRecord == [is : {"absent", "present", "deleted"}, active : BOOLEAN,
                   next : 0..(MaxTime + 1), cfg : ConfigSet \cup {None}]
HasRun == InTry \cup {"failing"}        \* a dispatch that has created its row
Calm   == faults \cap {"db", "halt"} = {}

(* The dispatch in progress, and the rows of schedules that exist. *)
DispatchOK ==
    /\ at \in HasRun \cup {"pending"} =>
          cur \in Schedules /\ base \in 1..MaxTime /\ sched[cur].is # "absent" /\ cur \notin due
    /\ at \in HasRun => run \in RunIds /\ runs[run].sched = cur
    /\ \A s \in Schedules : sched[s].is # "absent" => sched[s].cfg \in ConfigSet
    /\ \A s \in due : sched[s].is # "absent"
    /\ \A r \in RunIds : sched[runs[r].sched].is # "absent"

(* The row of the dispatch follows the driver, and so does its snapshot. *)
RowOK ==
    /\ at = "running" => runs[run].status = "pending"
    /\ at \in {"export", "put", "success"} => runs[run].status = "running"
    /\ at \in {"running", "export", "put", "success"} => runs[run].blob = NoBlob
    /\ at = "success" => files[Locator(Cfg.dir, base)] = run
    /\ at \in {"advance", "scan"} => runs[run].status = "success"
    /\ at = "advance" => Stored(run)
    /\ at \in {"delete", "erase"} => runs[run].status \in {"success", "pruned"}

(* What _prune has still to delete are successes of its schedule. *)
VictimsOK ==
    /\ victims # {} <=> at \in {"delete", "erase"}
    /\ \A v \in victims : runs[v].status = "success" /\ runs[v].sched = cur

NoOpenRows == Calm =>
    \A r \in RunIds : runs[r].status \in {"pending", "running"} => r = run /\ at \in HasRun

(* A one-shot that has succeeded is not due again. *)
Succeeded(r) == runs[r].status \in {"success", "pruned"}
OneShotOver == Calm =>
    \A s \in Schedules : sched[s].is # "absent" /\ sched[s].cfg.cron = "none" =>
        \A r \in RunIds : runs[r].sched = s /\ Succeeded(r) =>
            /\ s \notin due
            /\ cur = s => at \notin {"pending", "running", "export", "put", "success"}
            /\ \/ sched[s].is = "deleted"
               \/ ~sched[s].active
               \/ at = "advance" /\ cur = s
            /\ \A q \in RunIds : runs[q].sched = s /\ Succeeded(q) => q = r

(* A file has a row with its locator and content, or is about to have it. *)
LedgerOK == faults \subseteq {"export"} =>
    /\ \A l \in Locators : files[l] # NoBlob =>
          \/ \E r \in RunIds : runs[r].status # "pruned" /\ runs[r].loc = l /\ runs[r].blob = files[l]
          \/ at = "success" /\ files[l] = run /\ l = Locator(Cfg.dir, base)
    /\ at = "erase" => \A v \in victims, l \in Locators :
          (\A q \in victims : q <= v) /\ runs[v].loc = l => files[l] = NoBlob

(* Apart from what is to be deleted, and from the run that has just        *)
(* succeeded, a schedule has keep_last successes.                          *)
Extra == victims \cup (IF at \in {"advance", "scan", "failing"} THEN {run} ELSE {})
WithinLimit == Calm =>
    \A s \in Schedules :
        sched[s].is # "absent" /\ sched[s].cfg.keepLast > 0 /\ sched[s].cfg.retain = 0
            => Cardinality(SuccessesOf(s) \ Extra) <= sched[s].cfg.keepLast

(* The inductive invariant. *)
BackupInv == /\ TypeOK /\ DispatchOK /\ RowOK /\ VictimsOK
             /\ NoOpenRows /\ OneShotOver /\ LedgerOK /\ WithinLimit

-----------------------------------------------------------------------------
(* A set of numbers has a least one. *)
LEMMA Least ==
    ASSUME NEW T \in SUBSET Nat, T # {}
    PROVE  \E x \in T : \A y \in T : x <= y
<1> DEFINE R == OpToRel(<, Nat)
<1>1. IsWellFoundedOn(R, Nat)
  BY NatLessThanWellFounded
<1>2. \A x, y \in Nat : x < y => <<x, y>> \in R
  BY DEF OpToRel
<1> HIDE DEF R
<1>3. PICK x \in T : \A y \in T : ~(<<y, x>> \in R)
  BY <1>1, WFMin
<1>4. \A y \in T : x <= y
  <2> SUFFICES ASSUME NEW y \in T, ~(x <= y) PROVE FALSE
    OBVIOUS
  <2>1. x \in Nat /\ y \in Nat /\ y < x
    OBVIOUS
  <2>2. <<y, x>> \in R
    BY ONLY <2>1, <1>2
  <2> QED BY <2>2, <1>3
<1> QED BY <1>4

(* A bounded one has a greatest. *)
LEMMA Greatest ==
    ASSUME NEW n \in Nat, NEW V \in SUBSET (1..n), V # {}
    PROVE  \E x \in V : \A y \in V : y <= x
<1> DEFINE T == {n - v : v \in V}
<1>1. T \in SUBSET Nat
  OBVIOUS
<1>2. T # {}
  <2>1. PICK v \in V : TRUE
    OBVIOUS
  <2>2. n - v \in T
    BY <2>1
  <2> QED BY <2>2
<1>3. PICK m \in T : \A t \in T : m <= t
  BY <1>1, <1>2, Least
<1>4. PICK v \in V : m = n - v
  BY <1>3
<1>5. \A y \in V : n - v <= n - y
  BY <1>3, <1>4
<1> QED BY <1>4, <1>5

(* A set each of whose members has fewer than n above it has at most n. *)
LEMMA TopOnes ==
    ASSUME NEW m \in Nat, NEW S \in SUBSET (1..m), NEW n \in Nat \ {0},
           \A r \in S : Cardinality({q \in S : q > r}) < n
    PROVE  Cardinality(S) <= n
<1>0. IsFiniteSet(S)
  <2>1. IsFiniteSet(1..m)
    BY FS_Interval
  <2> QED BY <2>1, FS_Subset
<1>1. CASE S = {}
  BY <1>1, FS_EmptySet
<1>2. CASE S # {}
  <2>1. PICK r \in S : \A y \in S : r <= y
    BY <1>2, Least
  <2>2. {q \in S : q > r} = S \ {r}
    <3>1. \A q \in S : q > r <=> q # r
      BY <2>1
    <3> QED BY <3>1
  <2>3. Cardinality(S \ {r}) = Cardinality(S) - 1 /\ Cardinality(S) \in Nat
    BY <1>0, <2>1, FS_RemoveElement, FS_CardinalityType
  <2> QED BY <2>1, <2>2, <2>3
<1> QED BY <1>1, <1>2

-----------------------------------------------------------------------------
USE BackupAssumption

(* The rows of the run table. *)
LEMMA RunsShape ==
    ASSUME runs \in Seq(RunRecord)
    PROVE  /\ Len(runs) \in Nat /\ RunIds = 1..Len(runs)
           /\ \A r \in RunIds : runs[r] \in RunRecord
           /\ \A V \in SUBSET RunIds : IsFiniteSet(V) /\ Cardinality(V) \in Nat
<1>1. Len(runs) \in Nat /\ RunIds = 1..Len(runs) /\ \A r \in RunIds : runs[r] \in RunRecord
  BY DEF RunIds
<1>2. IsFiniteSet(1..Len(runs))
  BY <1>1, FS_Interval
<1>3. \A V \in SUBSET RunIds : IsFiniteSet(V)
  BY <1>1, <1>2, FS_Subset
<1> QED BY <1>1, <1>3, FS_CardinalityType

(* A row is replaced. *)
LEMMA RowReplaced ==
    ASSUME runs \in Seq(RunRecord), NEW r \in RunIds, NEW x \in RunRecord
    PROVE  LET new == [runs EXCEPT ![r] = x]
           IN  /\ new \in Seq(RunRecord) /\ DOMAIN new = RunIds /\ Len(new) = Len(runs)
               /\ new[r] = x /\ \A q \in RunIds \ {r} : new[q] = runs[q]
<1> DEFINE new == [runs EXCEPT ![r] = x]
<1>1. new \in [1..Len(runs) -> RunRecord] /\ Len(runs) \in Nat
  BY RunsShape DEF RunIds
<1>2. new \in Seq(RunRecord) /\ Len(new) = Len(runs)
  BY <1>1
<1> QED BY <1>1, <1>2 DEF RunIds

(* A row is added. *)
LEMMA RowAdded ==
    ASSUME runs \in Seq(RunRecord), NEW x \in RunRecord
    PROVE  LET new == Append(runs, x)
           IN  /\ new \in Seq(RunRecord) /\ DOMAIN new = RunIds \cup {Len(runs) + 1}
               /\ Len(runs) + 1 \notin RunIds /\ Len(runs) + 1 \in Nat \ {0}
               /\ new[Len(runs) + 1] = x /\ \A q \in RunIds : new[q] = runs[q]
<1>1. Len(runs) \in Nat /\ RunIds = 1..Len(runs)
  BY RunsShape
<1> QED BY <1>1 DEF RunIds

(* SetStatus. *)
LEMMA StatusSet ==
    ASSUME runs \in Seq(RunRecord), NEW r \in RunIds, NEW st \in RunStatus
    PROVE  LET new == SetStatus(r, st)
           IN  /\ new \in Seq(RunRecord) /\ DOMAIN new = RunIds
               /\ \A q \in RunIds \ {r} : new[q] = runs[q]
               /\ \A q \in RunIds : /\ new[q].sched = runs[q].sched /\ new[q].loc = runs[q].loc
                                     /\ new[q].blob = runs[q].blob /\ new[q].created = runs[q].created
                                     /\ new[q].started = runs[q].started
               /\ new[r].status = IF runs[r].status = "pruned" THEN "pruned" ELSE st
<1> DEFINE x == [runs[r] EXCEPT !.status = IF @ = "pruned" THEN @ ELSE st]
<1>1. runs[r] \in RunRecord
  BY RunsShape
<1>2. /\ x \in RunRecord /\ x.sched = runs[r].sched /\ x.loc = runs[r].loc /\ x.blob = runs[r].blob
      /\ x.created = runs[r].created /\ x.started = runs[r].started
      /\ x.status = IF runs[r].status = "pruned" THEN "pruned" ELSE st
  BY <1>1 DEF RunRecord
<1>3. SetStatus(r, st) = [runs EXCEPT ![r] = x]
  BY DEF SetStatus
<1> HIDE DEF x
<1> QED BY <1>2, <1>3, RowReplaced

(* The newest victim is there. *)
LEMMA VictimFacts ==
    ASSUME TypeOK, victims # {}
    PROVE  Victim \in victims /\ Victim \in RunIds /\ \A q \in victims : q <= Victim
<1>1. runs \in Seq(RunRecord) /\ victims \in SUBSET RunIds
  BY DEF TypeOK, RunRecord
<1>2. \E r \in victims : \A q \in victims : q <= r
  BY <1>1, RunsShape, Greatest
<1> QED BY <1>1, <1>2 DEF Victim

(* Faults are counted. *)
LEMMA FaultFacts ==
    ASSUME TypeOK, NEW f, Fault(f)
    PROVE  /\ faults' \subseteq Faults /\ Cardinality(faults') <= MaxFaults
           /\ f \in faults' /\ faults \subseteq faults'
<1>1. IsFiniteSet({"export", "put", "delete", "db", "halt"})
  <2>1. IsFiniteSet({}) BY FS_EmptySet
  <2>2. IsFiniteSet({} \cup {"export"}) BY <2>1, FS_AddElement
  <2>3. IsFiniteSet({} \cup {"export"} \cup {"put"}) BY <2>2, FS_AddElement
  <2>4. IsFiniteSet({} \cup {"export"} \cup {"put"} \cup {"delete"}) BY <2>3, FS_AddElement
  <2>5. IsFiniteSet({} \cup {"export"} \cup {"put"} \cup {"delete"} \cup {"db"}) BY <2>4, FS_AddElement
  <2>6. IsFiniteSet({} \cup {"export"} \cup {"put"} \cup {"delete"} \cup {"db"} \cup {"halt"})
    BY <2>5, FS_AddElement
  <2>7. {} \cup {"export"} \cup {"put"} \cup {"delete"} \cup {"db"} \cup {"halt"}
        = {"export", "put", "delete", "db", "halt"}
    OBVIOUS
  <2> QED BY <2>6, <2>7
<1>2. IsFiniteSet(faults)
  BY <1>1, FS_Subset DEF TypeOK
<1>3. Cardinality(faults \cup {f}) = Cardinality(faults) + 1 /\ Cardinality(faults) \in Nat
  BY <1>2, FS_AddElement, FS_CardinalityType DEF Fault
<1> QED BY <1>3 DEF Fault, TypeOK

(* Every row is of a schedule. *)
LEMMA RowsHaveSchedules ==
    ASSUME TypeOK
    PROVE  \A r \in RunIds : runs[r] \in RunRecord /\ runs[r].sched \in Schedules
<1>1. \A r \in RunIds : runs[r] \in RunRecord
  BY RunsShape DEF TypeOK, RunRecord
<1> QED BY <1>1 DEF RunRecord

(* A schedule row that is marked deleted. *)
LEMMA RecordDeleted ==
    ASSUME NEW x \in ScheduleRecord
    PROVE  LET y == [x EXCEPT !.is = "deleted"]
           IN  /\ y \in ScheduleRecord /\ y.is = "deleted"
               /\ y.cfg = x.cfg /\ y.active = x.active /\ y.next = x.next
BY DEF ScheduleRecord

(* The driver starts. *)
LEMMA StartStep == ASSUME BackupInv, UNCHANGED faults, Start PROVE BackupInv'
<1> USE DEF BackupInv, Start
<1>1. TypeOK'
  BY DEF TypeOK, RunIds, Points, InTry
<1>2. DispatchOK'
  BY DEF DispatchOK, RunIds, HasRun, InTry, TypeOK
<1>3. RowOK'
  BY DEF RowOK, Stored, Cfg, DispatchOK
<1>4. VictimsOK'
  BY DEF VictimsOK
<1>5. NoOpenRows'
  BY DEF NoOpenRows, Calm, RunIds, HasRun, InTry
<1>6. OneShotOver'
  BY DEF OneShotOver, Calm, RunIds, Succeeded
<1>7. LedgerOK'
  BY DEF LedgerOK, Cfg, RunIds
<1>8. WithinLimit'
  BY DEF WithinLimit, Calm, SuccessesOf, RunIds, Extra
<1> QED BY <1>1, <1>2, <1>3, <1>4, <1>5, <1>6, <1>7, <1>8

(* A tick takes the list of the schedules that are due. *)
LEMMA TickStep == ASSUME BackupInv, UNCHANGED faults, Tick PROVE BackupInv'
<1> USE DEF BackupInv, Tick, Due
<1>1. TypeOK'
  BY DEF TypeOK, RunIds, Points, InTry
<1>2. DispatchOK'
  BY DEF DispatchOK, RunIds, HasRun, InTry, TypeOK
<1>3. RowOK'
  BY DEF RowOK, Stored, Cfg, DispatchOK
<1>4. VictimsOK'
  BY DEF VictimsOK
<1>5. NoOpenRows'
  BY DEF NoOpenRows, Calm, RunIds, HasRun, InTry
<1>6. OneShotOver'
  BY DEF OneShotOver, Calm, RunIds, Succeeded
<1>7. LedgerOK'
  BY DEF LedgerOK, Cfg, RunIds
<1>8. WithinLimit'
  BY DEF WithinLimit, Calm, SuccessesOf, RunIds, Extra
<1> QED BY <1>1, <1>2, <1>3, <1>4, <1>5, <1>6, <1>7, <1>8

(* The list is finished. *)
LEMMA TickDoneStep == ASSUME BackupInv, UNCHANGED faults, TickDone PROVE BackupInv'
<1> USE DEF BackupInv, TickDone, Sleep
<1>1. TypeOK'
  BY DEF TypeOK, RunIds, Points, InTry
<1>2. DispatchOK'
  BY DEF DispatchOK, RunIds, HasRun, InTry, TypeOK
<1>3. RowOK'
  BY DEF RowOK, Stored, Cfg, DispatchOK
<1>4. VictimsOK'
  BY DEF VictimsOK
<1>5. NoOpenRows'
  BY DEF NoOpenRows, Calm, RunIds, HasRun, InTry
<1>6. OneShotOver'
  BY DEF OneShotOver, Calm, RunIds, Succeeded
<1>7. LedgerOK'
  BY DEF LedgerOK, Cfg, RunIds
<1>8. WithinLimit'
  BY DEF WithinLimit, Calm, SuccessesOf, RunIds, Extra, VictimsOK
<1> QED BY <1>1, <1>2, <1>3, <1>4, <1>5, <1>6, <1>7, <1>8

(* A schedule is taken from the list. *)
LEMMA DispatchStep == ASSUME BackupInv, UNCHANGED faults, NEW s \in Schedules, Dispatch(s) PROVE BackupInv'
<1> USE DEF BackupInv, Dispatch
<1>1. TypeOK'
  BY DEF TypeOK, RunIds, Points, InTry
<1>2. DispatchOK'
  BY DEF DispatchOK, RunIds, HasRun, InTry, TypeOK
<1>3. RowOK'
  BY DEF RowOK, Stored, Cfg, DispatchOK
<1>4. VictimsOK'
  BY DEF VictimsOK
<1>5. NoOpenRows'
  BY DEF NoOpenRows, Calm, RunIds, HasRun, InTry
<1>6. OneShotOver'
  BY DEF OneShotOver, Calm, RunIds, Succeeded
<1>7. LedgerOK'
  BY DEF LedgerOK, Cfg, RunIds
<1>8. WithinLimit'
  BY DEF WithinLimit, Calm, SuccessesOf, RunIds, Extra
<1> QED BY <1>1, <1>2, <1>3, <1>4, <1>5, <1>6, <1>7, <1>8

(* The export. *)
LEMMA RunExportStep == ASSUME BackupInv, UNCHANGED faults, RunExport PROVE BackupInv'
<1> USE DEF BackupInv, RunExport, Continue
<1>1. TypeOK'
  BY DEF TypeOK, RunIds, Points, InTry
<1>2. DispatchOK'
  BY DEF DispatchOK, RunIds, HasRun, InTry, TypeOK
<1>3. RowOK'
  BY DEF RowOK, Stored, Cfg, DispatchOK
<1>4. VictimsOK'
  BY DEF VictimsOK
<1>5. NoOpenRows'
  BY DEF NoOpenRows, Calm, RunIds, HasRun, InTry
<1>6. OneShotOver'
  BY DEF OneShotOver, Calm, RunIds, Succeeded
<1>7. LedgerOK'
  BY DEF LedgerOK, Cfg, RunIds
<1>8. WithinLimit'
  BY DEF WithinLimit, Calm, SuccessesOf, RunIds, Extra
<1> QED BY <1>1, <1>2, <1>3, <1>4, <1>5, <1>6, <1>7, <1>8

(* Time passes. *)
LEMMA ClockStep == ASSUME BackupInv, UNCHANGED faults, Clock PROVE BackupInv'
<1> USE DEF BackupInv, Clock, driver
<1>1. TypeOK'
  BY DEF TypeOK, RunIds, Points, InTry
<1>2. DispatchOK'
  BY DEF DispatchOK, RunIds, HasRun, InTry, TypeOK
<1>3. RowOK'
  BY DEF RowOK, Stored, Cfg, DispatchOK
<1>4. VictimsOK'
  BY DEF VictimsOK
<1>5. NoOpenRows'
  BY DEF NoOpenRows, Calm, RunIds, HasRun, InTry
<1>6. OneShotOver'
  BY DEF OneShotOver, Calm, RunIds, Succeeded
<1>7. LedgerOK'
  BY DEF LedgerOK, Cfg, RunIds
<1>8. WithinLimit'
  BY DEF WithinLimit, Calm, SuccessesOf, RunIds, Extra
<1> QED BY <1>1, <1>2, <1>3, <1>4, <1>5, <1>6, <1>7, <1>8

(* A delete of the sink that fails is swallowed. *)
LEMMA SinkDeleteFailsStep == ASSUME BackupInv, SinkDeleteFails PROVE BackupInv'
<1> USE DEF BackupInv, SinkDeleteFails, Continue
<1>0. /\ faults' \subseteq Faults /\ Cardinality(faults') <= MaxFaults
      /\ "delete" \in faults' /\ faults \subseteq faults'
  BY FaultFacts
<1>1. TypeOK'
  BY <1>0 DEF TypeOK, RunIds, Points, InTry
<1>2. DispatchOK'
  BY <1>0 DEF DispatchOK, RunIds, HasRun, InTry, TypeOK
<1>3. RowOK'
  BY <1>0 DEF RowOK, Stored, Cfg, DispatchOK
<1>4. VictimsOK'
  BY <1>0 DEF VictimsOK
<1>5. NoOpenRows'
  BY <1>0 DEF NoOpenRows, Calm, RunIds, HasRun, InTry
<1>6. OneShotOver'
  BY <1>0 DEF OneShotOver, Calm, RunIds, Succeeded
<1>7. LedgerOK'
  BY <1>0 DEF LedgerOK, Cfg, RunIds
<1>8. WithinLimit'
  BY <1>0 DEF WithinLimit, Calm, SuccessesOf, RunIds, Extra
<1> QED BY <1>1, <1>2, <1>3, <1>4, <1>5, <1>6, <1>7, <1>8

(* An error of the database outside the try of _dispatch leaves the tick. *)
LEMMA TickAbortsStep == ASSUME BackupInv, TickAborts PROVE BackupInv'
<1> USE DEF BackupInv, TickAborts, Sleep
<1>0. /\ faults' \subseteq Faults /\ Cardinality(faults') <= MaxFaults
      /\ "db" \in faults' /\ faults \subseteq faults'
  BY FaultFacts
<1>1. TypeOK'
  BY <1>0 DEF TypeOK, RunIds, Points, InTry
<1>2. DispatchOK'
  BY <1>0 DEF DispatchOK, RunIds, HasRun, InTry, TypeOK
<1>3. RowOK'
  BY <1>0 DEF RowOK, Stored, Cfg, DispatchOK
<1>4. VictimsOK'
  BY <1>0 DEF VictimsOK
<1>5. NoOpenRows'
  BY <1>0 DEF NoOpenRows, Calm, RunIds, HasRun, InTry
<1>6. OneShotOver'
  BY <1>0 DEF OneShotOver, Calm, RunIds, Succeeded
<1>7. LedgerOK'
  BY <1>0 DEF LedgerOK, Cfg, RunIds
<1>8. WithinLimit'
  BY <1>0 DEF WithinLimit, Calm, SuccessesOf, RunIds, Extra
<1> QED BY <1>1, <1>2, <1>3, <1>4, <1>5, <1>6, <1>7, <1>8

(* The process ends. *)
LEMMA HaltStep == ASSUME BackupInv, Halt PROVE BackupInv'
<1> USE DEF BackupInv, Halt
<1>0. /\ faults' \subseteq Faults /\ Cardinality(faults') <= MaxFaults
      /\ "halt" \in faults' /\ faults \subseteq faults'
  BY FaultFacts
<1>a. at = "put" => Written \in [Locators -> Blobs \cup {NoBlob}]
  <2> SUFFICES ASSUME at = "put" PROVE run \in Blobs
    BY DEF Written, TypeOK
  <2> QED BY RunsShape DEF DispatchOK, HasRun, InTry, TypeOK, RunRecord, Blobs
<1>b. Unlinked \in [Locators -> Blobs \cup {NoBlob}]
  BY DEF Unlinked, TypeOK
<1>1. TypeOK'
  BY <1>0, <1>a, <1>b DEF TypeOK, RunIds, Points, InTry
<1>2. DispatchOK'
  BY <1>0 DEF DispatchOK, RunIds, HasRun, InTry, TypeOK
<1>3. RowOK'
  BY <1>0 DEF RowOK, Stored, Cfg, DispatchOK
<1>4. VictimsOK'
  BY <1>0 DEF VictimsOK
<1>5. NoOpenRows'
  BY <1>0 DEF NoOpenRows, Calm, RunIds, HasRun, InTry
<1>6. OneShotOver'
  BY <1>0 DEF OneShotOver, Calm, RunIds, Succeeded
<1>7. LedgerOK'
  BY <1>0 DEF LedgerOK, Cfg, RunIds
<1>8. WithinLimit'
  BY <1>0 DEF WithinLimit, Calm, SuccessesOf, RunIds, Extra
<1> QED BY <1>1, <1>2, <1>3, <1>4, <1>5, <1>6, <1>7, <1>8

(* A schedule is created. *)
LEMMA CreateStep == ASSUME BackupInv, UNCHANGED faults, NEW s \in Schedules, NEW c \in Configs[s], CreateSchedule(s, c) PROVE BackupInv'
<1> USE DEF BackupInv, driver
<1>0. /\ sched' \in [Schedules -> ScheduleRecord] /\ due \subseteq Schedules
      /\ \A t \in Schedules \ {s} : sched'[t] = sched[t]
      /\ UNCHANGED <<now, runs, files, driver, faults>>
      /\ sched[s].is = "absent" /\ sched'[s].is = "present" /\ sched'[s].cfg = c /\ c \in ConfigSet
  BY DEF CreateSchedule, TypeOK, ScheduleRecord
<1>a. at \in HasRun \cup {"pending"} => cur # s /\ Cfg' = Cfg
  BY <1>0 DEF DispatchOK, Cfg
<1>b. s \notin due /\ \A r \in RunIds : runs[r].sched # s
  BY <1>0 DEF DispatchOK
<1>c. Cardinality(SuccessesOf(s) \ Extra) = 0
  <2>1. SuccessesOf(s) \ Extra = {}
    BY <1>b DEF SuccessesOf
  <2> QED BY <2>1, FS_EmptySet
<1>d. (Extra = Extra') /\ \A t \in Schedules : SuccessesOf(t)' = SuccessesOf(t)
  BY <1>0 DEF Extra, SuccessesOf, RunIds
<1>1. TypeOK'
  BY <1>0 DEF TypeOK, RunIds, Points, InTry, ScheduleRecord
<1>2. DispatchOK'
  BY <1>0, <1>a, <1>b, RowsHaveSchedules DEF DispatchOK, RunIds, HasRun, InTry
<1>3. RowOK'
  <2>1. at = "success" => Cfg' = Cfg
    BY <1>a DEF HasRun, InTry
  <2> QED BY <1>0, <2>1 DEF RowOK, Stored
<1>4. VictimsOK'
  BY <1>0 DEF VictimsOK
<1>5. NoOpenRows'
  BY <1>0 DEF NoOpenRows, Calm, RunIds, HasRun, InTry
<1>6. OneShotOver'
  BY <1>0, <1>b DEF OneShotOver, Calm, RunIds, Succeeded
<1>7. LedgerOK'
  <2>1. at = "success" => Cfg' = Cfg
    BY <1>a DEF HasRun, InTry
  <2> QED BY <1>0, <2>1 DEF LedgerOK, RunIds
<1>8. WithinLimit'
  <2> SUFFICES ASSUME Calm', NEW t \in Schedules, sched'[t].is # "absent",
                      sched'[t].cfg.keepLast > 0, sched'[t].cfg.retain = 0
               PROVE  Cardinality(SuccessesOf(t) \ Extra) <= sched'[t].cfg.keepLast
    BY <1>d DEF WithinLimit
  <2>1. CASE t = s
    BY <1>0, <1>c, <2>1 DEF ConfigSet
  <2>2. CASE t # s
    BY <1>0, <2>2 DEF WithinLimit, Calm
  <2> QED BY <2>1, <2>2
<1> QED BY <1>1, <1>2, <1>3, <1>4, <1>5, <1>6, <1>7, <1>8

(* A schedule is deleted. *)
LEMMA DeleteStep == ASSUME BackupInv, UNCHANGED faults, NEW s \in Schedules, DeleteSchedule(s) PROVE BackupInv'
<1> USE DEF BackupInv, driver
<1>0. /\ sched' \in [Schedules -> ScheduleRecord] /\ due \subseteq Schedules
      /\ \A t \in Schedules \ {s} : sched'[t] = sched[t]
      /\ UNCHANGED <<now, runs, files, driver, faults>>
      /\ sched[s].is = "present" /\ sched'[s].is = "deleted"
      /\ sched'[s].cfg = sched[s].cfg /\ sched'[s].active = sched[s].active
  <2> DEFINE x == [sched[s] EXCEPT !.is = "deleted"]
  <2>1. sched[s] \in ScheduleRecord
    BY DEF TypeOK, ScheduleRecord
  <2>2. x \in ScheduleRecord /\ x.is = "deleted" /\ x.cfg = sched[s].cfg /\ x.active = sched[s].active
    BY <2>1, RecordDeleted
  <2> HIDE DEF x
  <2>3. sched' = [sched EXCEPT ![s] = x]
    BY DEF DeleteSchedule, x
  <2>4. sched \in [Schedules -> ScheduleRecord] /\ due \subseteq Schedules
    BY DEF TypeOK, ScheduleRecord
  <2> QED BY <2>2, <2>3, <2>4 DEF DeleteSchedule
<1>a. /\ \A t \in Schedules : /\ sched'[t].cfg = sched[t].cfg
                             /\ sched'[t].is = "absent" <=> sched[t].is = "absent"
      /\ cur \in Schedules => Cfg' = Cfg
  BY <1>0 DEF Cfg
<1>1. TypeOK'
  BY <1>0 DEF TypeOK, RunIds, Points, InTry, ScheduleRecord
<1>2. DispatchOK'
  BY <1>0, <1>a, RowsHaveSchedules DEF DispatchOK, RunIds, HasRun, InTry
<1>3. RowOK'
  BY <1>0, <1>a DEF RowOK, Stored, DispatchOK, HasRun, InTry
<1>4. VictimsOK'
  BY <1>0 DEF VictimsOK
<1>5. NoOpenRows'
  BY <1>0 DEF NoOpenRows, Calm, RunIds, HasRun, InTry
<1>6. OneShotOver'
  BY <1>0, <1>a DEF OneShotOver, Calm, RunIds, Succeeded
<1>7. LedgerOK'
  BY <1>0, <1>a DEF LedgerOK, RunIds, DispatchOK, HasRun, InTry
<1>8. WithinLimit'
  BY <1>0, <1>a DEF WithinLimit, Calm, SuccessesOf, RunIds, Extra
<1> QED BY <1>1, <1>2, <1>3, <1>4, <1>5, <1>6, <1>7, <1>8

(* The snapshot is written, over what is at its locator. *)
LEMMA PutStep == ASSUME BackupInv, UNCHANGED faults, Put PROVE BackupInv'
<1> USE DEF BackupInv, Put, Continue
<1>a. Locator(Cfg.dir, base) \in Locators /\ run \in Blobs
  <2>1. cur \in Schedules /\ base \in 1..MaxTime /\ sched[cur].cfg \in ConfigSet /\ run \in RunIds
    BY DEF DispatchOK, HasRun, InTry
  <2>2. RunIds = 1..Len(runs) /\ Len(runs) \in Nat
    BY RunsShape DEF TypeOK, RunRecord
  <2> QED BY <2>1, <2>2 DEF Locator, Locators, Cfg, ConfigSet, Blobs
<1>b. /\ files' \in [Locators -> Blobs \cup {NoBlob}] /\ files'[Locator(Cfg.dir, base)] = run
      /\ \A l \in Locators : l # Locator(Cfg.dir, base) => files'[l] = files[l]
  BY <1>a DEF Written, TypeOK
<1>c. Cfg' = Cfg
  BY DEF Cfg
<1>1. TypeOK'
  BY <1>b DEF TypeOK, RunIds, Points, InTry
<1>2. DispatchOK'
  BY DEF DispatchOK, RunIds, HasRun, InTry, TypeOK
<1>3. RowOK'
  BY <1>b, <1>c DEF RowOK, Stored, Cfg, DispatchOK
<1>4. VictimsOK'
  BY DEF VictimsOK
<1>5. NoOpenRows'
  BY DEF NoOpenRows, Calm, RunIds, HasRun, InTry
<1>6. OneShotOver'
  BY DEF OneShotOver, Calm, RunIds, Succeeded
<1>7. LedgerOK'
  BY <1>a, <1>b, <1>c DEF LedgerOK, RunIds, Locator
<1>8. WithinLimit'
  BY DEF WithinLimit, Calm, SuccessesOf, RunIds, Extra
<1> QED BY <1>1, <1>2, <1>3, <1>4, <1>5, <1>6, <1>7, <1>8

(* The newest victim is deleted from the sink. *)
LEMMA SinkDeleteStep == ASSUME BackupInv, UNCHANGED faults, SinkDelete PROVE BackupInv'
<1> USE DEF BackupInv, SinkDelete, Continue
<1>a. /\ files' \in [Locators -> Blobs \cup {NoBlob}]
      /\ \A l \in Locators : files'[l] = IF l = runs[Victim].loc THEN NoBlob ELSE files[l]
  BY DEF Unlinked, TypeOK
<1>b. Victim \in victims /\ \A q \in victims : q <= Victim
  BY VictimFacts DEF VictimsOK
<1>c. \A v \in victims : (\A q \in victims : q <= v) => v = Victim
  <2>1. victims \subseteq Nat
    BY RunsShape DEF TypeOK, RunRecord
  <2> QED BY <1>b, <2>1
<1>1. TypeOK'
  BY <1>a DEF TypeOK, RunIds, Points, InTry
<1>2. DispatchOK'
  BY DEF DispatchOK, RunIds, HasRun, InTry, TypeOK
<1>3. RowOK'
  BY DEF RowOK, Stored, Cfg, DispatchOK
<1>4. VictimsOK'
  BY DEF VictimsOK
<1>5. NoOpenRows'
  BY DEF NoOpenRows, Calm, RunIds, HasRun, InTry
<1>6. OneShotOver'
  BY DEF OneShotOver, Calm, RunIds, Succeeded
<1>7. LedgerOK'
  BY <1>a, <1>c DEF LedgerOK, RunIds
<1>8. WithinLimit'
  BY DEF WithinLimit, Calm, SuccessesOf, RunIds, Extra
<1> QED BY <1>1, <1>2, <1>3, <1>4, <1>5, <1>6, <1>7, <1>8

(* A step inside the try of _dispatch raises. *)
LEMMA StepFailsStep == ASSUME BackupInv, StepFails PROVE BackupInv'
<1> USE DEF BackupInv, StepFails, Continue
<1>a. at = "put" => Written \in [Locators -> Blobs \cup {NoBlob}]
  <2> SUFFICES ASSUME at = "put" PROVE run \in Blobs
    BY DEF Written, TypeOK
  <2> QED BY RunsShape DEF DispatchOK, HasRun, InTry, TypeOK, RunRecord, Blobs
<1>b. Unlinked \in [Locators -> Blobs \cup {NoBlob}]
  BY DEF Unlinked, TypeOK
<1>0. /\ faults' \subseteq Faults /\ Cardinality(faults') <= MaxFaults /\ faults \subseteq faults'
      /\ Calm' => at \in {"export", "put"} \/ (at = "advance" /\ Cfg.cron = "bad")
      /\ faults' \subseteq {"export"} => at \in {"export", "advance"}
  <2>1. CASE Misconfigured /\ UNCHANGED faults
    BY <2>1 DEF Misconfigured, TypeOK
  <2>2. ASSUME NEW f \in Faults, Raises(f), Fault(f)
        PROVE  /\ faults' \subseteq Faults /\ Cardinality(faults') <= MaxFaults /\ faults \subseteq faults'
               /\ Calm' => at \in {"export", "put"}
               /\ faults' \subseteq {"export"} => at = "export"
    BY <2>2, FaultFacts DEF Raises, Calm
  <2> QED BY <2>1, <2>2 DEF Raised
<1>1. TypeOK'
  BY <1>0, <1>a DEF TypeOK, RunIds, Points, InTry
<1>2. DispatchOK'
  BY <1>0 DEF DispatchOK, RunIds, HasRun, InTry, TypeOK
<1>3. RowOK'
  BY <1>0 DEF RowOK, Stored, Cfg, DispatchOK
<1>4. VictimsOK'
  BY <1>0 DEF VictimsOK
<1>5. NoOpenRows'
  BY <1>0 DEF NoOpenRows, Calm, RunIds, HasRun, InTry
<1>6. OneShotOver'
  BY <1>0 DEF OneShotOver, Calm, RunIds, Succeeded, Cfg
<1>7. LedgerOK'
  BY <1>0 DEF LedgerOK, Cfg, RunIds
<1>8. WithinLimit'
  <2> SUFFICES ASSUME Calm' PROVE WithinLimit'
    BY DEF WithinLimit
  <2>1. Calm /\ victims = {} /\ victims' = {} /\ run' = run /\ at' = "failing"
    BY <1>0 DEF Calm, VictimsOK
  <2>2. at \in {"export", "put"} => runs[run].status = "running"
    BY DEF RowOK
  <2>3. \A s \in Schedules : SuccessesOf(s)' = SuccessesOf(s)
    BY DEF SuccessesOf, RunIds
  <2>4. \A s \in Schedules : SuccessesOf(s) \ Extra' = SuccessesOf(s) \ Extra
    BY <1>0, <2>1, <2>2 DEF SuccessesOf, Extra
  <2> QED BY <2>1, <2>3, <2>4 DEF WithinLimit
<1> QED BY <1>1, <1>2, <1>3, <1>4, <1>5, <1>6, <1>7, <1>8

(* The victims are chosen: what is left is within keep_last. *)
LEMMA PruneScanStep == ASSUME BackupInv, UNCHANGED faults, PruneScan PROVE BackupInv'
<1> USE DEF BackupInv, PruneScan, Continue
<1>a. victims' \subseteq SuccessesOf(cur) /\ victims' \in SUBSET RunIds
  BY DEF SuccessesOf
<1>b. runs[run].sched = cur /\ cur \in Schedules /\ sched[cur].cfg \in ConfigSet /\ run \in RunIds
  BY DEF DispatchOK, HasRun, InTry
<1>c. \A v \in victims' : runs[v].status = "success" /\ runs[v].sched = cur
  BY <1>a DEF SuccessesOf
<1> HIDE DEF PruneScan
<1>d. /\ at = "scan" /\ at' \in {"delete", "dispatch"} /\ (at' = "delete" <=> victims' # {})
      /\ at' = "delete" => UNCHANGED <<cur, run, base>>
      /\ at' = "dispatch" => cur' = None /\ base' = 0 /\ run' = 0
      /\ UNCHANGED <<now, sched, runs, files, lastTick, due>>
  BY DEF PruneScan
<1>1. TypeOK'
  <2>1. at' \in Points /\ cur' \in Schedules \cup {None} /\ base' \in 0..MaxTime /\ run' \in RunIds \cup {0}
    BY <1>b, <1>d, BackupAssumption DEF TypeOK, Points, InTry
  <2>2. UNCHANGED <<now, sched, runs, files, lastTick, due, faults>>
    BY <1>d
  <2> QED BY <1>a, <2>1, <2>2 DEF TypeOK, RunIds
<1>2. DispatchOK'
  BY <1>d DEF DispatchOK, RunIds, HasRun, InTry, TypeOK
<1>3. RowOK'
  BY <1>d DEF RowOK, Stored, Cfg, DispatchOK
<1>4. VictimsOK'
  BY <1>d, <1>c DEF VictimsOK
<1>5. NoOpenRows'
  BY <1>d DEF NoOpenRows, Calm, RunIds, HasRun, InTry, RowOK
<1>6. OneShotOver'
  BY <1>d DEF OneShotOver, Calm, RunIds, Succeeded
<1>7. LedgerOK'
  BY <1>d DEF LedgerOK, Cfg, RunIds
<1>8. WithinLimit'
  <2> SUFFICES ASSUME Calm, NEW s \in Schedules, sched[s].is # "absent",
                      sched[s].cfg.keepLast > 0, sched[s].cfg.retain = 0
               PROVE  Cardinality(SuccessesOf(s) \ victims') <= sched[s].cfg.keepLast
    BY <1>d DEF WithinLimit, Calm, Extra, SuccessesOf, RunIds
  <2>1. CASE s # cur
    <3>1. SuccessesOf(s) \ victims' = SuccessesOf(s) \ Extra
      BY <1>b, <1>c, <1>d, <2>1 DEF SuccessesOf, Extra, VictimsOK
    <3> QED BY <3>1 DEF WithinLimit
  <2>2. CASE s = cur
    <3> DEFINE n == sched[cur].cfg.keepLast
               S == SuccessesOf(cur) \ victims'
               Above(r) == {q \in SuccessesOf(cur) : q > r}
    <3>0. n \in Nat \ {0} /\ runs \in Seq(RunRecord)
      BY <1>b, <2>2 DEF ConfigSet, TypeOK, RunRecord
    <3>1. S = {r \in SuccessesOf(cur) : Cardinality(Above(r)) < n}
      BY <2>2, <1>b DEF PruneScan, Keep, AmongLast, ConfigSet
    <3>2. S \in SUBSET (1..Len(runs)) /\ Len(runs) \in Nat
      BY <3>0, RunsShape DEF SuccessesOf
    <3>3. \A r \in S : Cardinality({q \in S : q > r}) < n
      <4> TAKE r \in S
      <4>1. /\ {q \in S : q > r} \in SUBSET Above(r) /\ Above(r) \in SUBSET RunIds
            /\ {q \in S : q > r} \in SUBSET RunIds
        BY DEF SuccessesOf
      <4>2. /\ IsFiniteSet(Above(r)) /\ Cardinality(Above(r)) \in Nat
            /\ Cardinality({q \in S : q > r}) \in Nat
        BY <3>0, <4>1, RunsShape
      <4>3. Cardinality({q \in S : q > r}) <= Cardinality(Above(r))
        BY <4>1, <4>2, FS_Subset
      <4>4. Cardinality(Above(r)) < n
        BY <3>1
      <4> HIDE DEF S, Above, n
      <4> QED BY <3>0, <4>2, <4>3, <4>4
    <3> HIDE DEF S, n
    <3>4. Cardinality(S) <= n
      BY <3>0, <3>2, <3>3, TopOnes
    <3> QED BY <3>4, <2>2 DEF S, n
  <2> QED BY <2>1, <2>2
<1> QED BY <1>1, <1>2, <1>3, <1>4, <1>5, <1>6, <1>7, <1>8

(* The schedule moves on, or is switched off. *)
LEMMA AdvanceStep == ASSUME BackupInv, UNCHANGED faults, Advance PROVE BackupInv'
<1> USE DEF BackupInv, Continue
<1>0. cur \in Schedules /\ sched[cur].cfg \in ConfigSet /\ runs[run].sched = cur /\ base \in 1..MaxTime
  BY DEF Advance, DispatchOK, HasRun, InTry
<1>a. /\ sched' \in [Schedules -> ScheduleRecord]
      /\ \A t \in Schedules \ {cur} : sched'[t] = sched[t]
      /\ sched'[cur].is = sched[cur].is /\ sched'[cur].cfg = sched[cur].cfg
      /\ sched[cur].cfg.cron = "none" => sched[cur].is = "deleted" \/ ~sched'[cur].active
  <2>0. sched \in [Schedules -> ScheduleRecord] /\ sched[cur] \in ScheduleRecord
    BY <1>0 DEF TypeOK, ScheduleRecord
  <2>1. CASE sched[cur].is = "deleted"
    BY <2>0, <2>1 DEF Advance
  <2>2. CASE sched[cur].is # "deleted"
    <3> DEFINE nx == IF Cfg.cron = "none" THEN 0 ELSE base + 1
               x == [sched[cur] EXCEPT !.next = nx, !.active = Cfg.cron = "ok" /\ @]
    <3>1. nx \in 0..(MaxTime + 1)
      BY <1>0
    <3> HIDE DEF nx
    <3>2. /\ x \in ScheduleRecord /\ x.is = sched[cur].is /\ x.cfg = sched[cur].cfg
          /\ Cfg.cron = "none" => ~x.active
      BY <2>0, <3>1 DEF ScheduleRecord
    <3>3. sched' = [sched EXCEPT ![cur] = x]
      BY <2>2 DEF Advance, nx
    <3> HIDE DEF x
    <3> QED BY <1>0, <2>0, <3>2, <3>3 DEF Cfg
  <2> QED BY <2>1, <2>2
<1>b. /\ at = "advance" /\ at' \in {"scan", "dispatch"}
      /\ at' = "dispatch" => Cfg.keepLast = 0
      /\ at' = "scan" => UNCHANGED <<cur, run, base>>
      /\ at' = "dispatch" => cur' = None /\ base' = 0 /\ run' = 0
      /\ UNCHANGED <<now, runs, files, victims, lastTick, due>>
  <2>1. Cfg.keepLast \in Nat
    BY <1>0 DEF Cfg, ConfigSet
  <2> QED BY <2>1 DEF Advance
<1>c. \A t \in Schedules : sched'[t].cfg = sched[t].cfg /\ sched'[t].is = sched[t].is
  BY <1>a
<1>1. TypeOK'
  <2>1. at' \in Points /\ cur' \in Schedules \cup {None} /\ base' \in 0..MaxTime /\ run' \in RunIds \cup {0}
    BY <1>b, BackupAssumption DEF TypeOK, Points, InTry
  <2>2. UNCHANGED <<now, runs, files, victims, lastTick, due, faults>>
    BY <1>b
  <2>3. sched' \in [Schedules -> ScheduleRecord]
    BY <1>a
  <2> QED BY <2>1, <2>2, <2>3 DEF TypeOK, RunIds, ScheduleRecord
<1>2. DispatchOK'
  <2>1. due \subseteq Schedules
    BY DEF TypeOK
  <2> QED BY <1>0, <1>b, <1>c, <2>1, RowsHaveSchedules DEF DispatchOK, RunIds, HasRun, InTry
<1>3. RowOK'
  BY <1>b DEF RowOK, Stored, Cfg, DispatchOK
<1>4. VictimsOK'
  BY <1>b DEF VictimsOK
<1>5. NoOpenRows'
  BY <1>b DEF NoOpenRows, Calm, RunIds, HasRun, InTry, RowOK
<1>6. OneShotOver'
  BY <1>b, <1>a, <1>c DEF OneShotOver, Calm, RunIds, Succeeded
<1>7. LedgerOK'
  BY <1>b DEF LedgerOK, Cfg, RunIds
<1>8. WithinLimit'
  <2> SUFFICES ASSUME Calm, NEW s \in Schedules, sched[s].is # "absent",
                      sched[s].cfg.keepLast > 0, sched[s].cfg.retain = 0
               PROVE  Cardinality(SuccessesOf(s) \ Extra') <= sched[s].cfg.keepLast
    BY <1>b, <1>c DEF WithinLimit, Calm, SuccessesOf, RunIds
  <2>1. SuccessesOf(s) \ Extra' = SuccessesOf(s) \ Extra
    <3>1. CASE s = cur
      BY <1>0, <1>b, <3>1 DEF Extra, Cfg, ConfigSet
    <3>2. CASE s # cur
      BY <1>0, <1>b, <3>2 DEF Extra, SuccessesOf
    <3> QED BY <3>1, <3>2
  <2> QED BY <2>1 DEF WithinLimit
<1> QED BY <1>1, <1>2, <1>3, <1>4, <1>5, <1>6, <1>7, <1>8

(* The row of the run is created. *)
LEMMA MarkPendingStep == ASSUME BackupInv, UNCHANGED faults, MarkPending PROVE BackupInv'
<1> USE DEF BackupInv, MarkPending
<1> DEFINE n == Len(runs) + 1
<1>a. NewRun(cur, "pending", NoLoc, NoBlob) \in RunRecord
  BY DEF NewRun, RunRecord, RunStatus, TypeOK, DispatchOK
<1>b. runs \in Seq(RunRecord) /\ run' = n
  BY DEF TypeOK, RunRecord
<1>c. /\ runs' \in Seq(RunRecord) /\ RunIds' = RunIds \cup {n} /\ n \notin RunIds /\ n # 0
      /\ runs'[n] = NewRun(cur, "pending", NoLoc, NoBlob) /\ \A q \in RunIds : runs'[q] = runs[q]
  BY <1>a, <1>b, RowAdded DEF RunIds
<1>d. runs'[n].sched = cur /\ runs'[n].status = "pending" /\ runs'[n].blob = NoBlob /\ runs'[n].loc = NoLoc
  BY <1>c DEF NewRun
<1>e. victims = {} /\ victims' = {} /\ at' = "running"
  BY DEF VictimsOK
<1> HIDE DEF n
<1>1. TypeOK'
  BY <1>b, <1>c, <1>e DEF TypeOK, Points, InTry, RunRecord
<1>2. DispatchOK'
  BY <1>b, <1>c, <1>d, <1>e DEF DispatchOK, HasRun, InTry
<1>3. RowOK'
  BY <1>b, <1>c, <1>d, <1>e DEF RowOK, Stored, Cfg, DispatchOK
<1>4. VictimsOK'
  BY <1>b, <1>c, <1>d, <1>e DEF VictimsOK
<1>5. NoOpenRows'
  BY <1>b, <1>c, <1>d, <1>e DEF NoOpenRows, Calm, HasRun, InTry
<1>6. OneShotOver'
  <2>1. \A r \in RunIds' : Succeeded(r)' => r \in RunIds /\ Succeeded(r) /\ runs'[r] = runs[r]
    BY <1>c, <1>d DEF Succeeded
  <2> SUFFICES ASSUME Calm', NEW s \in Schedules, sched'[s].is # "absent", sched'[s].cfg.cron = "none",
                      NEW r \in RunIds', runs'[r].sched = s, Succeeded(r)'
               PROVE  /\ s \notin due' /\ cur' # s
                      /\ sched'[s].is = "deleted" \/ ~sched'[s].active
                      /\ \A q \in RunIds' : runs'[q].sched = s /\ Succeeded(q)' => q = r
    BY DEF OneShotOver
  <2>2. /\ Calm /\ sched' = sched /\ due' = due /\ cur' = cur /\ at = "pending"
        /\ r \in RunIds /\ runs[r].sched = s /\ Succeeded(r)
    BY <2>1 DEF Calm
  <2>3. /\ s \notin due /\ cur # s
        /\ sched[s].is = "deleted" \/ ~sched[s].active
        /\ \A q \in RunIds : runs[q].sched = s /\ Succeeded(q) => q = r
    BY <2>2 DEF OneShotOver
  <2> QED BY <2>1, <2>2, <2>3
<1>7. LedgerOK'
  <2>1. \A r \in RunIds : r \in RunIds' /\ runs'[r] = runs[r]
    BY <1>c
  <2>2. at = "pending" /\ files' = files /\ faults' = faults
    OBVIOUS
  <2> HIDE DEF MarkPending, BackupInv
  <2> QED BY <2>1, <2>2, <1>e DEF LedgerOK, BackupInv
<1>8. WithinLimit'
  <2>1. \A s \in Schedules : SuccessesOf(s)' = SuccessesOf(s)
    BY <1>c, <1>d DEF SuccessesOf
  <2>2. Extra' = {} /\ Extra = {}
    BY <1>e DEF Extra
  <2> QED BY <2>1, <2>2 DEF WithinLimit, Calm
<1> QED BY <1>1, <1>2, <1>3, <1>4, <1>5, <1>6, <1>7, <1>8

(* The row is marked running. *)
LEMMA MarkRunningStep == ASSUME BackupInv, UNCHANGED faults, MarkRunning PROVE BackupInv'
<1> USE DEF BackupInv, MarkRunning, Continue
<1>a. run \in RunIds /\ runs \in Seq(RunRecord) /\ runs[run].sched = cur /\ cur \in Schedules /\ run # 0
  <2>1. run \in RunIds /\ runs \in Seq(RunRecord) /\ runs[run].sched = cur /\ cur \in Schedules
    BY DEF DispatchOK, HasRun, InTry, TypeOK, RunRecord
  <2> QED BY <2>1, RunsShape
<1>b. /\ runs' \in Seq(RunRecord) /\ RunIds' = RunIds
      /\ \A q \in RunIds \ {run} : runs'[q] = runs[q]
      /\ \A q \in RunIds : /\ runs'[q].sched = runs[q].sched /\ runs'[q].loc = runs[q].loc
                            /\ runs'[q].blob = runs[q].blob
      /\ runs'[run].status = "running"
  <2>1. runs[run].status = "pending" /\ "running" \in RunStatus
    BY DEF RowOK, RunStatus
  <2> QED BY <1>a, <2>1, StatusSet DEF RunIds
<1>c. victims = {} /\ victims' = {} /\ runs[run].status = "pending" /\ runs[run].blob = NoBlob
  BY DEF VictimsOK, RowOK
<1>1. TypeOK'
  BY <1>a, <1>b, <1>c DEF TypeOK, Points, InTry, RunRecord
<1>2. DispatchOK'
  BY <1>a, <1>b DEF DispatchOK, HasRun, InTry
<1>3. RowOK'
  BY <1>a, <1>b, <1>c DEF RowOK
<1>4. VictimsOK'
  BY <1>c DEF VictimsOK
<1>5. NoOpenRows'
  BY <1>b DEF NoOpenRows, Calm, HasRun, InTry
<1>6. OneShotOver'
  <2>1. \A r \in RunIds : Succeeded(r)' <=> Succeeded(r)
    BY <1>b, <1>c DEF Succeeded
  <2> QED BY <1>b, <2>1 DEF OneShotOver, Calm
<1>7. LedgerOK'
  <2>1. \A r \in RunIds : runs'[r].status # "pruned" <=> runs[r].status # "pruned"
    BY <1>b, <1>c
  <2> QED BY <1>b, <2>1 DEF LedgerOK
<1>8. WithinLimit'
  <2>1. \A s \in Schedules : SuccessesOf(s)' = SuccessesOf(s)
    BY <1>b, <1>c DEF SuccessesOf
  <2>2. Extra' = {} /\ Extra = {}
    BY <1>c DEF Extra
  <2> QED BY <2>1, <2>2 DEF WithinLimit, Calm
<1> QED BY <1>1, <1>2, <1>3, <1>4, <1>5, <1>6, <1>7, <1>8

(* The success is recorded with its locator and content. *)
LEMMA MarkSuccessStep == ASSUME BackupInv, UNCHANGED faults, MarkSuccess PROVE BackupInv'
<1> USE DEF BackupInv, Continue
<1>0. at = "success" /\ at' = "advance" /\ UNCHANGED <<now, sched, files, victims, lastTick, due, cur, base, run, faults>>
  BY DEF MarkSuccess
<1>l. Locator(Cfg.dir, base) \in Locators /\ run \in Blobs
  <2>1. cur \in Schedules /\ base \in 1..MaxTime /\ sched[cur].cfg \in ConfigSet /\ run \in RunIds
    BY <1>0 DEF DispatchOK, HasRun, InTry
  <2>2. RunIds = 1..Len(runs) /\ Len(runs) \in Nat
    BY RunsShape DEF TypeOK, RunRecord
  <2> QED BY <2>1, <2>2 DEF Locator, Locators, Cfg, ConfigSet, Blobs
<1>a. run \in RunIds /\ runs \in Seq(RunRecord) /\ runs[run].sched = cur /\ cur \in Schedules /\ run # 0
  <2>1. run \in RunIds /\ runs \in Seq(RunRecord) /\ runs[run].sched = cur /\ cur \in Schedules
    BY <1>0 DEF DispatchOK, HasRun, InTry, TypeOK, RunRecord
  <2> QED BY <2>1, RunsShape
<1>c. victims = {} /\ runs[run].status = "running" /\ runs[run].blob = NoBlob
  BY <1>0 DEF VictimsOK, RowOK
<1>b. /\ runs' \in Seq(RunRecord) /\ RunIds' = RunIds
      /\ \A q \in RunIds \ {run} : runs'[q] = runs[q]
      /\ runs'[run].sched = cur /\ runs'[run].status = "success"
      /\ runs'[run].loc = Locator(Cfg.dir, base) /\ runs'[run].blob = run
  <2> DEFINE x == [runs[run] EXCEPT !.status = "success", !.loc = Locator(Cfg.dir, base), !.blob = run]
  <2>1. runs[run] \in RunRecord
    BY <1>a, RunsShape
  <2>2. /\ x \in RunRecord /\ x.sched = runs[run].sched /\ x.status = "success"
        /\ x.loc = Locator(Cfg.dir, base) /\ x.blob = run
    BY <2>1, <1>l DEF RunRecord, RunStatus
  <2>3. runs' = [runs EXCEPT ![run] = x]
    BY <1>a, <1>c DEF MarkSuccess, SetStatus
  <2> HIDE DEF x
  <2> QED BY <1>a, <2>2, <2>3, RowReplaced DEF RunIds
<1>d. Cfg' = Cfg
  BY <1>0 DEF Cfg
<1>1. TypeOK'
  BY <1>0, <1>a, <1>b, <1>c DEF TypeOK, Points, InTry, RunRecord
<1>2. DispatchOK'
  BY <1>0, <1>a, <1>b DEF DispatchOK, HasRun, InTry
<1>3. RowOK'
  <2>1. files[Locator(Cfg.dir, base)] = run
    BY <1>0 DEF RowOK
  <2>2. Stored(run)'
    BY <1>0, <1>b, <2>1 DEF Stored
  <2> QED BY <1>0, <1>b, <2>2 DEF RowOK
<1>4. VictimsOK'
  BY <1>0, <1>c DEF VictimsOK
<1>5. NoOpenRows'
  BY <1>0, <1>b DEF NoOpenRows, Calm, HasRun, InTry
<1>6. OneShotOver'
  <2> SUFFICES ASSUME Calm, NEW s \in Schedules, sched[s].is # "absent", sched[s].cfg.cron = "none",
                      NEW r \in RunIds, runs'[r].sched = s, Succeeded(r)'
               PROVE  /\ s \notin due
                      /\ \/ sched[s].is = "deleted"
                         \/ ~sched[s].active
                         \/ cur = s
                      /\ \A q \in RunIds : runs'[q].sched = s /\ Succeeded(q)' => q = r
    BY <1>0, <1>b DEF OneShotOver, Calm
  <2>1. CASE s = cur
    <3>1. \A q \in RunIds : runs[q].sched = s => ~Succeeded(q)
      BY <1>0, <2>1 DEF OneShotOver
    <3>2. \A q \in RunIds \ {run} : runs'[q].sched = s => ~Succeeded(q)'
      BY <1>b, <3>1 DEF Succeeded
    <3>3. cur \notin due
      BY <1>0 DEF DispatchOK, HasRun, InTry
    <3> QED BY <2>1, <3>2, <3>3
  <2>2. CASE s # cur
    <3>1. \A q \in RunIds : runs'[q].sched = s => q # run /\ runs[q].sched = s /\ (Succeeded(q)' <=> Succeeded(q))
      BY <1>b, <2>2 DEF Succeeded
    <3> QED BY <1>0, <3>1, <2>2 DEF OneShotOver
  <2> QED BY <2>1, <2>2
<1>7. LedgerOK'
  <2> SUFFICES ASSUME faults \subseteq {"export"}, NEW l \in Locators, files[l] # NoBlob
               PROVE  \E r \in RunIds : runs'[r].status # "pruned" /\ runs'[r].loc = l /\ runs'[r].blob = files[l]
    BY <1>0, <1>b DEF LedgerOK
  <2>1. CASE files[l] = run /\ l = Locator(Cfg.dir, base)
    BY <1>a, <1>b, <2>1
  <2>2. CASE \E r \in RunIds : runs[r].status # "pruned" /\ runs[r].loc = l /\ runs[r].blob = files[l]
    <3>1. PICK r \in RunIds : runs[r].status # "pruned" /\ runs[r].loc = l /\ runs[r].blob = files[l]
      BY <2>2
    <3> QED BY <1>b, <1>c, <3>1
  <2> QED BY <2>1, <2>2 DEF LedgerOK
<1>8. WithinLimit'
  <2>1. \A s \in Schedules : SuccessesOf(s)' \ {run} = SuccessesOf(s)
    BY <1>a, <1>b, <1>c DEF SuccessesOf
  <2>2. Extra' = {run} /\ Extra = {}
    BY <1>0, <1>c DEF Extra
  <2> QED BY <1>0, <2>1, <2>2 DEF WithinLimit, Calm
<1> QED BY <1>1, <1>2, <1>3, <1>4, <1>5, <1>6, <1>7, <1>8

(* The row of the newest victim goes. *)
LEMMA EraseRowStep == ASSUME BackupInv, UNCHANGED faults, EraseRow PROVE BackupInv'
<1> USE DEF BackupInv, Continue
<1>a. /\ Victim \in victims /\ Victim \in RunIds /\ \A q \in victims : q <= Victim
      /\ runs \in Seq(RunRecord) /\ runs[Victim].status = "success" /\ runs[Victim].sched = cur
      /\ victims \subseteq RunIds
  BY VictimFacts DEF EraseRow, VictimsOK, TypeOK, RunRecord
<1>b. /\ runs' \in Seq(RunRecord) /\ RunIds' = RunIds
      /\ \A q \in RunIds \ {Victim} : runs'[q] = runs[q]
      /\ \A q \in RunIds : /\ runs'[q].sched = runs[q].sched /\ runs'[q].loc = runs[q].loc
                            /\ runs'[q].blob = runs[q].blob
      /\ runs'[Victim].status = "pruned"
  <2> DEFINE x == [runs[Victim] EXCEPT !.status = "pruned"]
  <2>1. runs[Victim] \in RunRecord
    BY <1>a, RunsShape
  <2>2. /\ x \in RunRecord /\ x.sched = runs[Victim].sched /\ x.status = "pruned"
        /\ x.loc = runs[Victim].loc /\ x.blob = runs[Victim].blob
    BY <2>1 DEF RunRecord, RunStatus
  <2>3. runs' = [runs EXCEPT ![Victim] = x]
    BY DEF EraseRow
  <2> HIDE DEF x
  <2> QED BY <1>a, <2>2, <2>3, RowReplaced DEF RunIds
<1>c. /\ at = "erase" /\ victims' = victims \ {Victim}
      /\ at' \in {"delete", "dispatch"} /\ (at' = "delete" <=> victims' # {})
      /\ at' = "delete" => UNCHANGED <<cur, run, base>>
      /\ at' = "dispatch" => cur' = None /\ base' = 0 /\ run' = 0
      /\ UNCHANGED <<now, sched, files, lastTick, due, faults>>
  BY DEF EraseRow
<1>d. run \in RunIds /\ runs[run].status \in {"success", "pruned"} /\ runs'[run].status \in {"success", "pruned"}
  BY <1>a, <1>b, <1>c DEF RowOK, DispatchOK, HasRun, InTry
<1>1. TypeOK'
  <2>1. runs' \in Seq(RunRecord) /\ victims' \in SUBSET RunIds' /\ run' \in RunIds' \cup {0}
    BY <1>a, <1>b, <1>c, <1>d
  <2>2. /\ at' \in Points /\ cur' \in Schedules \cup {None} /\ base' \in 0..MaxTime
    BY <1>c, BackupAssumption DEF TypeOK, Points, InTry
  <2> QED BY <1>c, <2>1, <2>2 DEF TypeOK, RunRecord
<1>2. DispatchOK'
  BY <1>b, <1>c DEF DispatchOK, HasRun, InTry
<1>3. RowOK'
  BY <1>c, <1>d DEF RowOK
<1>4. VictimsOK'
  BY <1>a, <1>b, <1>c DEF VictimsOK
<1>5. NoOpenRows'
  BY <1>a, <1>b, <1>c, <1>d DEF NoOpenRows, Calm, HasRun, InTry
<1>6. OneShotOver'
  <2>1. \A r \in RunIds : Succeeded(r)' <=> Succeeded(r)
    BY <1>a, <1>b DEF Succeeded
  <2> QED BY <1>b, <1>c, <2>1 DEF OneShotOver, Calm
<1>7. LedgerOK'
  <2> SUFFICES ASSUME faults \subseteq {"export"}, NEW l \in Locators, files[l] # NoBlob
               PROVE  \E r \in RunIds : runs'[r].status # "pruned" /\ runs'[r].loc = l /\ runs'[r].blob = files[l]
    BY <1>b, <1>c DEF LedgerOK
  <2>1. PICK r \in RunIds : runs[r].status # "pruned" /\ runs[r].loc = l /\ runs[r].blob = files[l]
    BY <1>c DEF LedgerOK
  <2>2. r # Victim
    BY <1>a, <1>c, <2>1 DEF LedgerOK
  <2> QED BY <1>b, <2>1, <2>2
<1>8. WithinLimit'
  <2>1. \A s \in Schedules : SuccessesOf(s)' \ victims' = SuccessesOf(s) \ victims
    BY <1>a, <1>b, <1>c DEF SuccessesOf
  <2>2. Extra' = victims' /\ Extra = victims
    BY <1>c DEF Extra
  <2> QED BY <1>c, <2>1, <2>2 DEF WithinLimit, Calm
<1> QED BY <1>1, <1>2, <1>3, <1>4, <1>5, <1>6, <1>7, <1>8

(* The failure is recorded. *)
LEMMA MarkFailedStep == ASSUME BackupInv, UNCHANGED faults, MarkFailed PROVE BackupInv'
<1> USE DEF BackupInv, MarkFailed, Continue
<1>a. run \in RunIds /\ runs \in Seq(RunRecord) /\ runs[run].sched = cur /\ cur \in Schedules /\ run # 0
  <2>1. run \in RunIds /\ runs \in Seq(RunRecord) /\ runs[run].sched = cur /\ cur \in Schedules
    BY DEF DispatchOK, HasRun, InTry, TypeOK, RunRecord
  <2> QED BY <2>1, RunsShape
<1>b. /\ runs' \in Seq(RunRecord) /\ RunIds' = RunIds
      /\ \A q \in RunIds \ {run} : runs'[q] = runs[q]
      /\ \A q \in RunIds : /\ runs'[q].sched = runs[q].sched /\ runs'[q].loc = runs[q].loc
                            /\ runs'[q].blob = runs[q].blob
      /\ runs'[run].status = IF runs[run].status = "pruned" THEN "pruned" ELSE "failed"
  <2>1. "failed" \in RunStatus
    BY DEF RunStatus
  <2> QED BY <1>a, <2>1, StatusSet DEF RunIds
<1>c. /\ victims = {} /\ victims' = {} /\ at' = "dispatch" /\ run' = 0
      /\ UNCHANGED <<now, sched, files, lastTick, due>> /\ cur' = None /\ base' = 0
  BY DEF VictimsOK
<1>1. TypeOK'
  <2>1. runs' \in Seq(RunRecord) /\ victims' \in SUBSET RunIds' /\ run' \in RunIds' \cup {0}
    BY <1>b, <1>c
  <2>2. /\ at' \in Points /\ cur' \in Schedules \cup {None} /\ base' \in 0..MaxTime
    BY <1>c, BackupAssumption DEF Points
  <2> QED BY <1>c, <2>1, <2>2 DEF TypeOK, RunRecord
<1>2. DispatchOK'
  BY <1>a, <1>b, <1>c DEF DispatchOK, HasRun, InTry
<1>3. RowOK'
  BY <1>c DEF RowOK, Stored, Cfg, DispatchOK
<1>4. VictimsOK'
  BY <1>c DEF VictimsOK
<1>5. NoOpenRows'
  BY <1>b, <1>c DEF NoOpenRows, Calm, HasRun, InTry
<1>6. OneShotOver'
  <2>1. \A r \in RunIds : Succeeded(r)' => Succeeded(r)
    BY <1>b DEF Succeeded
  <2> QED BY <1>b, <1>c, <2>1 DEF OneShotOver, Calm
<1>7. LedgerOK'
  <2>1. \A r \in RunIds : runs'[r].status # "pruned" <=> runs[r].status # "pruned"
    BY <1>b
  <2> QED BY <1>b, <1>c, <2>1 DEF LedgerOK
<1>8. WithinLimit'
  <2>1. \A s \in Schedules : SuccessesOf(s)' = SuccessesOf(s) \ {run}
    BY <1>a, <1>b DEF SuccessesOf
  <2>2. Extra' = {} /\ Extra = {run}
    BY <1>c DEF Extra
  <2> QED BY <1>c, <2>1, <2>2 DEF WithinLimit, Calm
<1> QED BY <1>1, <1>2, <1>3, <1>4, <1>5, <1>6, <1>7, <1>8

(* At first there are no rows, no files and no dispatch. *)
LEMMA BackupInit == Init => BackupInv
<1> SUFFICES ASSUME Init PROVE BackupInv
  OBVIOUS
<1> USE DEF Init
<1>1. TypeOK
  <2>1. runs \in Seq(RunRecord) /\ RunIds = {}
    BY DEF RunIds
  <2>2. Cardinality(faults) = 0 /\ Absent \in ScheduleRecord
    BY FS_EmptySet DEF Absent, ScheduleRecord
  <2> QED BY <2>1, <2>2 DEF TypeOK, Points, InTry, RunRecord, ScheduleRecord
<1>2. RunIds = {} /\ \A s \in Schedules : sched[s].is = "absent"
  BY DEF RunIds, Absent
<1>3. DispatchOK /\ RowOK /\ VictimsOK /\ NoOpenRows /\ OneShotOver /\ LedgerOK /\ WithinLimit
  BY <1>2 DEF DispatchOK, RowOK, VictimsOK, NoOpenRows, OneShotOver, LedgerOK, WithinLimit, HasRun, InTry
<1> QED BY <1>1, <1>3 DEF BackupInv

(* BackupInv holds in every reachable state. *)
THEOREM BackupInvariant == Spec => []BackupInv
<1>1. Init => BackupInv
  BY BackupInit
<1>2. BackupInv /\ [Next]_vars => BackupInv'
  <2> SUFFICES ASSUME BackupInv, [Next]_vars PROVE BackupInv'
    OBVIOUS
  <2>1. CASE UNCHANGED vars
    <3>1. /\ UNCHANGED <<now, sched, runs, files, faults>>
          /\ UNCHANGED <<at, lastTick, due, cur, base, run, victims>>
      BY <2>1 DEF vars, driver
    <3>2. TypeOK' /\ DispatchOK' /\ RowOK' /\ VictimsOK'
      BY <3>1 DEF BackupInv, TypeOK, DispatchOK, RowOK, VictimsOK, RunIds, Stored, Cfg
    <3>3. NoOpenRows' /\ OneShotOver' /\ LedgerOK'
      BY <3>1 DEF BackupInv, NoOpenRows, OneShotOver, LedgerOK, Calm, RunIds, Succeeded, Cfg
    <3>4. WithinLimit'
      BY <3>1 DEF BackupInv, WithinLimit, Calm, SuccessesOf, RunIds, Extra
    <3> QED BY <3>2, <3>3, <3>4 DEF BackupInv
  <2>2. CASE (Start \/ Clock) /\ UNCHANGED faults
    BY <2>2, StartStep, ClockStep
  <2>3. CASE Request /\ UNCHANGED faults
    BY <2>3, CreateStep, DeleteStep DEF Request
  <2>4. CASE DriverWorks /\ UNCHANGED faults
    BY <2>4, TickStep, TickDoneStep, DispatchStep, MarkPendingStep, MarkRunningStep, RunExportStep, PutStep,
       MarkSuccessStep, AdvanceStep, PruneScanStep, SinkDeleteStep, EraseRowStep, MarkFailedStep
       DEF DriverWorks
  <2>5. CASE SinkDeleteFails \/ StepFails \/ TickAborts \/ Halt
    BY <2>5, SinkDeleteFailsStep, StepFailsStep, TickAbortsStep, HaltStep
  <2> QED BY <2>1, <2>2, <2>3, <2>4, <2>5 DEF Next, DriverStep
<1> QED BY <1>1, <1>2, PTL DEF Spec

(* The tables and the state of the driver keep their types. *)
THEOREM BackupTypeCorrect == Spec => []TypeOK
<1>1. BackupInv => TypeOK
  BY DEF BackupInv
<1> QED BY <1>1, BackupInvariant, PTL

(* No row is left open when the driver turns to something else, whichever  *)
(* step failed.                                                            *)
THEOREM RunsReachOutcome == Spec => []RunsReachAnOutcome
<1>1. BackupInv => RunsReachAnOutcome
  BY DEF BackupInv, NoOpenRows, Calm, RunsReachAnOutcome
<1> QED BY <1>1, BackupInvariant, PTL

(* A schedule without cron_expr succeeds once, however its failures are    *)
(* retried and whenever it is deleted.                                     *)
THEOREM OneShotOnce == Spec => []OneShotSucceedsOnce
<1>1. BackupInv => OneShotSucceedsOnce
  <2> SUFFICES ASSUME BackupInv, Calm, NEW s \in Schedules, sched[s].is # "absent",
                      sched[s].cfg.cron = "none"
               PROVE  Cardinality({r \in RunIds : runs[r].sched = s /\ Succeeded(r)}) <= 1
    BY DEF OneShotSucceedsOnce, Calm, Succeeded
  <2> DEFINE S == {r \in RunIds : runs[r].sched = s /\ Succeeded(r)}
  <2>1. CASE S = {}
    BY <2>1, FS_EmptySet
  <2>2. CASE S # {}
    <3>1. PICK r \in S : TRUE
      BY <2>2
    <3>2. S = {r}
      BY <3>1 DEF BackupInv, OneShotOver
    <3> HIDE DEF S
    <3>3. Cardinality({r}) = 1
      BY FS_Singleton
    <3>4. Cardinality(S) = 1
      BY <3>2, <3>3
    <3> QED BY <3>4 DEF S
  <2> QED BY <2>1, <2>2
<1> QED BY <1>1, BackupInvariant, PTL

(* Each snapshot in a sink is named by a run that is still listed, or is   *)
(* being written, as long as at most exports fail.                         *)
THEOREM StoreFollowsLedger == Spec => []StoreMatchesLedger
<1>1. BackupInv => StoreMatchesLedger
  BY DEF BackupInv, LedgerOK, StoreMatchesLedger
<1> QED BY <1>1, BackupInvariant, PTL

(* Between dispatches a schedule with keep_last only has at most that many *)
(* successes.                                                              *)
THEOREM PruningReachesLimit == Spec => []PrunedToLimit
<1>1. BackupInv => PrunedToLimit
  <2> SUFFICES ASSUME BackupInv, at \in {"sleeping", "dispatch"}, Calm,
                      NEW s \in Schedules, sched[s].is # "absent",
                      sched[s].cfg.keepLast > 0, sched[s].cfg.retain = 0
               PROVE  Cardinality(SuccessesOf(s)) <= sched[s].cfg.keepLast
    BY DEF PrunedToLimit, Calm
  <2>1. Extra = {}
    BY DEF BackupInv, VictimsOK, Extra
  <2>2. SuccessesOf(s) \ Extra = SuccessesOf(s)
    BY <2>1
  <2>3. Cardinality(SuccessesOf(s) \ Extra) <= sched[s].cfg.keepLast
    BY DEF BackupInv, WithinLimit
  <2> QED BY <2>2, <2>3
<1> QED BY <1>1, BackupInvariant, PTL

(* next_run_at moves, and a one-shot is switched off, only when the run of *)
(* this slot is recorded as a success and its snapshot is in the sink.     *)
THEOREM NoSlotIsSkipped == Spec => NoSlotSkipped
<1> DEFINE A == \A s \in Schedules :
                   sched[s].is = "present" /\ sched'[s].is = "present" /\ sched'[s] # sched[s]
                       => cur = s /\ runs[run].status = "success" /\ Stored(run)
<1>1. BackupInv /\ [Next]_vars => [A]_vars
  <2> SUFFICES ASSUME BackupInv, Next PROVE A
    OBVIOUS
  <2>1. CASE Advance
    <3>1. runs[run].status = "success" /\ Stored(run) /\ cur \in Schedules
      BY <2>1 DEF Advance, BackupInv, RowOK, DispatchOK, HasRun, InTry
    <3>2. \A s \in Schedules \ {cur} : sched'[s] = sched[s]
      BY <2>1, <3>1 DEF Advance, BackupInv, TypeOK
    <3> QED BY <3>1, <3>2
  <2>2. ASSUME NEW s \in Schedules, NEW c \in Configs[s], CreateSchedule(s, c) PROVE A
    BY <2>2 DEF CreateSchedule, BackupInv, TypeOK
  <2>3. ASSUME NEW s \in Schedules, DeleteSchedule(s) PROVE A
    BY <2>3 DEF DeleteSchedule, BackupInv, TypeOK
  <2>4. CASE sched' = sched
    BY <2>4
  <2>5. CASE Start \/ Clock \/ SinkDeleteFails \/ StepFails \/ TickAborts \/ Halt
    BY <2>4, <2>5 DEF Start, Clock, SinkDeleteFails, StepFails, TickAborts, Halt, Sleep
  <2>6. CASE DriverWorks /\ ~Advance
    BY <2>4, <2>6 DEF DriverWorks, Tick, TickDone, Sleep, Dispatch, MarkPending, MarkRunning, RunExport, Put,
       MarkSuccess, PruneScan, SinkDelete, EraseRow, MarkFailed
  <2> QED BY <2>1, <2>2, <2>3, <2>5, <2>6 DEF Next, DriverStep, Request
<1> QED BY <1>1, BackupInvariant, PTL DEF Spec, NoSlotSkipped

-----------------------------------------------------------------------------
(* When things happen: a tick is over before the next one begins, so that  *)
(* what a schedule has left behind is older than a dispatch of it.         *)
Before(r) == \/ at = "sleeping" \/ runs[r].sched \in due
             \/ runs[r].sched = cur /\ (at = "pending" \/ (at \in HasRun /\ r # run))
TimesOK ==
    /\ at = "stopped" => RunIds = {}
    /\ lastTick <= now
    /\ at \in HasRun \cup {"pending", "dispatch"} => lastTick < now
    /\ at \in HasRun \cup {"pending"} => lastTick < base /\ base <= now
    /\ at \in HasRun => runs[run].started = base
    /\ \A r \in RunIds : runs[r].started <= runs[r].created /\ runs[r].created <= now
    /\ \A r \in RunIds : Before(r) => runs[r].created <= lastTick
    /\ \A r, q \in RunIds : r < q /\ runs[r].sched = runs[q].sched => runs[r].created < runs[q].started

(* A success has its snapshot, in the place of its schedule, but for the   *)
(* one whose row is about to go and those that share a locator.            *)
Shared(r) == \E q \in RunIds : SameFile(q, r)
Going(r) == at = "erase" /\ r \in victims /\ \A q \in victims : q <= r
InPlace(r) == /\ runs[r].blob = r /\ runs[r].loc \in Locators
              /\ runs[r].loc = Locator(sched[runs[r].sched].cfg.dir, runs[r].started)
              /\ Stored(r) \/ Going(r) \/ Shared(r)
PlacesOK == \A r \in RunIds : runs[r].status = "success" => InPlace(r)

(* Neither rule keeps a victim, whichever victims have gone before it. *)
Forfeit(v) == /\ Cfg.retain > 0 => runs[v].created + Cfg.retain < now
              /\ Cfg.keepLast <= Cardinality({q \in SuccessesOf(cur) \ victims : q > v})
RulesOK == /\ at \in {"scan", "delete", "erase"} => Cfg.keepLast > 0 \/ Cfg.retain > 0
           /\ \A v \in victims : Forfeit(v)

(* The inductive invariant of retention. *)
KeepInv == Calm => TimesOK /\ PlacesOK /\ RulesOK

(* No step undoes a fault, and few can fail without the database. *)
LEMMA CalmSteps ==
    ASSUME BackupInv, [Next]_vars, Calm'
    PROVE  /\ Calm /\ ~TickAborts /\ ~Halt
           /\ StepFails => at \in {"export", "put", "advance"}
<1>1. ASSUME NEW f, Fault(f) PROVE faults \subseteq faults' /\ f \in faults'
  BY <1>1 DEF Fault
<1>2. faults \subseteq faults'
  BY <1>1 DEF Next, DriverStep, vars, SinkDeleteFails, StepFails, Raised, TickAborts, Halt
<1>3. ~TickAborts /\ ~Halt
  BY <1>1 DEF TickAborts, Halt, Calm
<1>4. ASSUME StepFails PROVE at \in {"export", "put", "advance"}
  <2>1. CASE Misconfigured
    BY <2>1 DEF Misconfigured
  <2>2. ASSUME NEW f \in Faults, Raises(f), Fault(f) PROVE at \in {"export", "put"}
    BY <2>2, <1>1 DEF Raises, Calm
  <2> QED BY <1>4, <2>1, <2>2 DEF StepFails, Raised
<1> QED BY <1>2, <1>3, <1>4 DEF Calm

(* The rows of a run that just succeeded. *)
LEMMA SuccessRow ==
    ASSUME BackupInv, MarkSuccess
    PROVE  /\ RunIds' = RunIds /\ run \in RunIds
           /\ \A q \in RunIds \ {run} : runs'[q] = runs[q]
           /\ runs'[run].sched = runs[run].sched /\ runs'[run].created = runs[run].created
           /\ runs'[run].started = runs[run].started
           /\ runs'[run].status = "success" /\ runs'[run].blob = run
           /\ runs'[run].loc = Locator(Cfg.dir, base)
<1> DEFINE x == [runs[run] EXCEPT !.status = "success", !.loc = Locator(Cfg.dir, base), !.blob = run]
<1>1. run \in RunIds /\ runs \in Seq(RunRecord) /\ runs[run].status = "running"
  BY DEF BackupInv, MarkSuccess, DispatchOK, RowOK, HasRun, InTry, TypeOK, RunRecord
<1>2. runs[run] \in RunRecord
  BY <1>1, RunsShape
<1>3. /\ x.sched = runs[run].sched /\ x.created = runs[run].created /\ x.started = runs[run].started
      /\ x.status = "success" /\ x.blob = run /\ x.loc = Locator(Cfg.dir, base)
  BY <1>2 DEF RunRecord
<1>4. runs' = [runs EXCEPT ![run] = x]
  BY <1>1, <1>2 DEF MarkSuccess, SetStatus, RunRecord
<1> HIDE DEF x
<1> QED BY <1>1, <1>3, <1>4 DEF RunIds

(* What no step does to a row: it keeps its schedule and its time, and     *)
(* only MarkSuccess makes it a success.                                    *)
LEMMA RowSteps ==
    ASSUME BackupInv, [Next]_vars, ~MarkPending
    PROVE  /\ RunIds' = RunIds
           /\ \A q \in RunIds : /\ runs'[q].sched = runs[q].sched /\ runs'[q].created = runs[q].created
                                 /\ runs'[q].started = runs[q].started
           /\ \A q \in RunIds : runs'[q].status = "success" =>
                 runs'[q] = runs[q] \/ (MarkSuccess /\ q = run)
<1>1. CASE UNCHANGED runs
  BY <1>1 DEF RunIds
<1>2. CASE MarkSuccess
  BY <1>2, SuccessRow
<1>3. ASSUME NEW r \in RunIds, NEW st \in RunStatus \ {"success"}, runs' = SetStatus(r, st)
      PROVE  /\ RunIds' = RunIds
             /\ \A q \in RunIds : /\ runs'[q].sched = runs[q].sched /\ runs'[q].created = runs[q].created
                                   /\ runs'[q].started = runs[q].started
             /\ \A q \in RunIds : runs'[q].status = "success" => runs'[q] = runs[q]
  <2>1. runs \in Seq(RunRecord)
    BY DEF BackupInv, TypeOK, RunRecord
  <2>2. /\ DOMAIN SetStatus(r, st) = RunIds
        /\ \A q \in RunIds \ {r} : SetStatus(r, st)[q] = runs[q]
        /\ \A q \in RunIds : /\ SetStatus(r, st)[q].sched = runs[q].sched
                             /\ SetStatus(r, st)[q].created = runs[q].created
                             /\ SetStatus(r, st)[q].started = runs[q].started
        /\ SetStatus(r, st)[r].status = IF runs[r].status = "pruned" THEN "pruned" ELSE st
    BY <2>1, StatusSet
  <2> QED BY <1>3, <2>2 DEF RunIds
<1>4. CASE MarkRunning
  <2>1. run \in RunIds /\ "running" \in RunStatus \ {"success"}
    BY <1>4 DEF BackupInv, MarkRunning, DispatchOK, HasRun, InTry, RunStatus
  <2> QED BY <1>3, <1>4, <2>1 DEF MarkRunning
<1>5. CASE MarkFailed
  <2>1. run \in RunIds /\ "failed" \in RunStatus \ {"success"}
    BY <1>5 DEF BackupInv, MarkFailed, DispatchOK, HasRun, RunStatus
  <2> QED BY <1>3, <1>5, <2>1 DEF MarkFailed
<1>6. CASE EraseRow
  <2>1. Victim \in RunIds /\ runs \in Seq(RunRecord) /\ runs[Victim].status = "success"
    BY <1>6, VictimFacts DEF BackupInv, EraseRow, VictimsOK, TypeOK, RunRecord
  <2>2. runs[Victim] \in RunRecord
    BY <2>1, RunsShape
  <2>3. runs' = SetStatus(Victim, "pruned")
    BY <1>6, <2>1, <2>2 DEF EraseRow, SetStatus, RunRecord
  <2> QED BY <1>3, <2>1, <2>3 DEF RunStatus
<1>7. CASE ~(MarkSuccess \/ MarkRunning \/ MarkFailed \/ EraseRow)
  <2>1. UNCHANGED runs
    BY <1>7 DEF Next, DriverStep, DriverWorks, vars, Start, Request, Clock, CreateSchedule, DeleteSchedule,
       Tick, TickDone, Sleep, Dispatch, RunExport, Put, Advance, PruneScan, SinkDelete, SinkDeleteFails,
       StepFails, TickAborts, Halt
  <2> QED BY <1>1, <2>1
<1> QED BY <1>2, <1>4, <1>5, <1>6, <1>7

(* A step inside a dispatch, or out of it. *)
LEMMA DispatchSteps ==
    ASSUME BackupInv, DriverStep, ~TickAborts, ~MarkPending, ~Tick, ~TickDone,
           \A s \in Schedules : ~Dispatch(s)
    PROVE  /\ at \in HasRun /\ UNCHANGED <<now, lastTick, due>>
           /\ \/ at' \in HasRun /\ UNCHANGED <<cur, base, run>>
              \/ at' = "dispatch" /\ cur' = None
<1>1. \/ MarkRunning \/ RunExport \/ Put \/ MarkSuccess \/ Advance \/ PruneScan \/ SinkDelete
      \/ EraseRow \/ MarkFailed \/ SinkDeleteFails \/ StepFails
  BY DEF DriverStep, DriverWorks
<1>2. at \in HasRun
  BY <1>1 DEF HasRun, InTry, MarkRunning, RunExport, Put, MarkSuccess, Advance, PruneScan, SinkDelete,
     EraseRow, MarkFailed, SinkDeleteFails, StepFails
<1>3. \E p \in HasRun \cup {"dispatch"} : Continue(p)
  BY <1>1 DEF HasRun, InTry, MarkRunning, RunExport, Put, MarkSuccess, Advance, PruneScan, SinkDelete,
     EraseRow, MarkFailed, SinkDeleteFails, StepFails
<1> QED BY <1>2, <1>3 DEF Continue, HasRun, InTry

(* The times of the driver and of its rows. *)
LEMMA TimesNext ==
    ASSUME BackupInv, BackupInv', TimesOK, [Next]_vars, Calm'
    PROVE  TimesOK'
<1>0. /\ now \in Nat /\ lastTick \in Nat /\ base \in Nat /\ None \notin Schedules
      /\ runs \in Seq(RunRecord) /\ RunIds \in SUBSET Nat
      /\ \A r \in RunIds : runs[r].created \in Nat /\ runs[r].started \in Nat /\ runs[r].sched \in Schedules
  <2>1. runs \in Seq(RunRecord)
    BY DEF BackupInv, TypeOK, RunRecord
  <2>2. RunIds \in SUBSET Nat /\ \A r \in RunIds : runs[r] \in RunRecord
    BY <2>1, RunsShape
  <2>t. MaxTime \in Nat
    BY BackupAssumption
  <2>s. \A r \in RunIds : /\ runs[r].created \in 1..MaxTime /\ runs[r].started \in 1..MaxTime
                          /\ runs[r].sched \in Schedules
    BY <2>2 DEF RunRecord
  <2>3. \A r \in RunIds : runs[r].created \in Nat /\ runs[r].started \in Nat /\ runs[r].sched \in Schedules
    BY <2>s, <2>t
  <2>4. now \in Nat /\ lastTick \in Nat /\ base \in Nat /\ None \notin Schedules
    BY BackupAssumption DEF BackupInv, TypeOK
  <2> QED BY <2>1, <2>2, <2>3, <2>4
<1>c. ~TickAborts /\ ~Halt
  BY CalmSteps
<1>1. CASE MarkPending
  <2> DEFINE n == Len(runs) + 1
  <2>1. NewRun(cur, "pending", NoLoc, NoBlob) \in RunRecord
    BY <1>1 DEF NewRun, RunRecord, RunStatus, BackupInv, TypeOK, DispatchOK, MarkPending
  <2>2. /\ RunIds' = RunIds \cup {n} /\ n \notin RunIds /\ n \in Nat
        /\ runs'[n] = NewRun(cur, "pending", NoLoc, NoBlob) /\ \A q \in RunIds : runs'[q] = runs[q]
    BY <1>0, <1>1, <2>1, RowAdded DEF RunIds, MarkPending
  <2>3. \A q \in RunIds : q < n
    BY <1>0, RunsShape
  <2>4. runs'[n].created = now /\ runs'[n].started = base /\ runs'[n].sched = cur
    BY <2>2 DEF NewRun
  <2>5. /\ at = "pending" /\ at' = "running" /\ run' = n
        /\ UNCHANGED <<now, lastTick, due, cur, base>> /\ cur \notin due
    BY <1>1 DEF MarkPending, BackupInv, DispatchOK
  <2> HIDE DEF n
  <2>6. /\ \A r \in RunIds' : runs'[r].started <= runs'[r].created /\ runs'[r].created <= now
        /\ \A r \in RunIds' : Before(r)' => runs'[r].created <= lastTick
    <3>1. lastTick < base /\ base <= now
      BY <2>5 DEF TimesOK, HasRun, InTry
    <3>2. ASSUME NEW r, r = n PROVE ~Before(r)'
      <4>1. runs'[r].sched = cur /\ r = run'
        BY <2>4, <2>5, <3>2
      <4> QED BY <4>1, <2>5 DEF Before
    <3>3. \A r \in RunIds : Before(r)' => Before(r)
      BY <1>0, <2>2, <2>5 DEF Before
    <3>4. \A r \in RunIds : runs[r].started <= runs[r].created /\ runs[r].created <= now
      BY DEF TimesOK
    <3>5. \A r \in RunIds : Before(r) => runs[r].created <= lastTick
      BY DEF TimesOK
    <3>6. \A r \in RunIds' : runs'[r].started <= runs'[r].created /\ runs'[r].created <= now
      <4>1. ASSUME NEW r \in RunIds
            PROVE  runs'[r].started <= runs'[r].created /\ runs'[r].created <= now
        BY <2>2, <3>4
      <4>2. base <= now /\ now <= now
        BY <1>0, <3>1
      <4>3. runs'[n].started <= runs'[n].created /\ runs'[n].created <= now
        BY <2>4, <4>2
      <4> QED BY <2>2, <4>1, <4>3
    <3>7. \A r \in RunIds' : Before(r)' => runs'[r].created <= lastTick
      BY <2>2, <3>2, <3>3, <3>5
    <3> QED BY <3>6, <3>7
  <2>7. \A r, q \in RunIds' : r < q /\ runs'[r].sched = runs'[q].sched
                                 => runs'[r].created < runs'[q].started
    <3>1. \A r \in RunIds : runs[r].sched = cur => runs[r].created < base
      <4>1. lastTick < base
        BY <2>5 DEF TimesOK
      <4>2. \A r \in RunIds : runs[r].sched = cur => runs[r].created <= lastTick
        <5>1. \A r \in RunIds : Before(r) => runs[r].created <= lastTick
          BY DEF TimesOK
        <5>2. \A r \in RunIds : runs[r].sched = cur => Before(r)
          BY <2>5 DEF Before
        <5> QED BY <5>1, <5>2
      <4> QED BY <1>0, <4>1, <4>2
    <3> TAKE r, q \in RunIds'
    <3> HAVE r < q /\ runs'[r].sched = runs'[q].sched
    <3>2. CASE r \in RunIds /\ q \in RunIds
      BY <2>2, <3>2 DEF TimesOK
    <3>3. CASE r \in RunIds /\ q = n
      BY <2>2, <2>4, <3>1, <3>3
    <3>4. ~(r = n)
      <4>1. CASE q \in RunIds
        BY <1>0, <2>2, <2>3, <4>1
      <4>2. CASE q = n
        BY <2>2, <4>2
      <4> QED BY <2>2, <4>1, <4>2
    <3> QED BY <2>2, <3>2, <3>3, <3>4
  <2> QED BY <1>0, <2>4, <2>5, <2>6, <2>7 DEF TimesOK, HasRun, InTry
<1> DEFINE Rows == /\ RunIds' = RunIds
                   /\ \A q \in RunIds : /\ runs'[q].sched = runs[q].sched /\ runs'[q].created = runs[q].created
                                         /\ runs'[q].started = runs[q].started
<1>r. CASE ~MarkPending
  <2>0. Rows
    BY <1>r, RowSteps
  <2>o. \A r, q \in RunIds' : r < q /\ runs'[r].sched = runs'[q].sched
                                 => runs'[r].created < runs'[q].started
    BY <2>0 DEF TimesOK
  <2>1. CASE UNCHANGED <<now, driver>>
    BY <2>0, <2>1, <2>o DEF TimesOK, Before, driver, BackupInv, DispatchOK
  <2>2. CASE Start
    BY <1>0, <2>0, <2>2, <2>o DEF TimesOK, Before, Start, HasRun, InTry
  <2>3. CASE Clock
    <3>1. now' = now + 1 /\ UNCHANGED <<at, lastTick, due, cur, base, run, runs>>
      BY <2>3 DEF Clock, driver
    <3>2. \A r \in RunIds : Before(r)' = Before(r)
      BY <3>1 DEF Before
    <3>3. at \in HasRun => run \in RunIds
      BY DEF BackupInv, DispatchOK
    <3>4. /\ \A r \in RunIds' : runs'[r].started <= runs'[r].created /\ runs'[r].created <= now'
          /\ \A r \in RunIds' : Before(r)' => runs'[r].created <= lastTick'
      <4>1. \A r \in RunIds : runs[r].started <= runs[r].created /\ runs[r].created <= now
        BY DEF TimesOK
      <4>2. \A r \in RunIds : Before(r) => runs[r].created <= lastTick
        BY DEF TimesOK
      <4>3. \A r \in RunIds' : runs'[r].started <= runs'[r].created /\ runs'[r].created <= now'
        BY <1>0, <2>0, <3>1, <4>1
      <4>4. \A r \in RunIds' : Before(r)' => runs'[r].created <= lastTick'
        BY <2>0, <3>1, <3>2, <4>2
      <4> QED BY <4>3, <4>4
    <3>5. /\ at' = "stopped" => RunIds' = {}
          /\ lastTick' <= now'
          /\ at' \in HasRun \cup {"pending", "dispatch"} => lastTick' < now'
          /\ at' \in HasRun \cup {"pending"} => lastTick' < base' /\ base' <= now'
          /\ at' \in HasRun => runs'[run'].started = base'
      BY <1>0, <2>0, <3>1, <3>3 DEF TimesOK
    <3> QED BY <2>o, <3>4, <3>5 DEF TimesOK
  <2>4. CASE Tick
    BY <1>0, <2>0, <2>4, <2>o DEF TimesOK, Before, Tick, HasRun, InTry
  <2>5. CASE TickDone
    BY <1>0, <2>0, <2>5, <2>o DEF TimesOK, Before, TickDone, Sleep, HasRun, InTry
  <2>6. ASSUME NEW s \in Schedules, Dispatch(s) PROVE TimesOK'
    BY <1>0, <2>0, <2>6, <2>o DEF TimesOK, Before, Dispatch, HasRun, InTry
  <2>7. CASE DriverStep /\ ~Tick /\ ~TickDone /\ \A s \in Schedules : ~Dispatch(s)
    <3>1. /\ at \in HasRun /\ UNCHANGED <<now, lastTick, due>>
          /\ \/ at' \in HasRun /\ UNCHANGED <<cur, base, run>>
             \/ at' = "dispatch" /\ cur' = None
      BY <1>c, <1>r, <2>7, DispatchSteps
    <3>2. at \notin {"stopped", "sleeping", "pending"} /\ at' \notin {"stopped", "sleeping", "pending"}
      BY <3>1 DEF HasRun, InTry
    <3>3. run \in RunIds
      BY <3>1 DEF BackupInv, DispatchOK
    <3>4. \A r \in RunIds : Before(r)' => Before(r)
      BY <2>0, <3>1, <3>2 DEF Before, HasRun, InTry
    <3> QED BY <1>0, <2>0, <2>o, <3>1, <3>2, <3>3, <3>4 DEF TimesOK, HasRun, InTry
  <2>8. CASE Request \/ UNCHANGED vars
    <3>1. UNCHANGED <<now, driver>>
      BY <2>8 DEF Request, CreateSchedule, DeleteSchedule, vars, driver
    <3> QED BY <2>1, <3>1
  <2> QED BY <1>c, <2>2, <2>3, <2>4, <2>5, <2>6, <2>7, <2>8 DEF Next
<1> QED BY <1>1, <1>r

(* A schedule keeps the configuration it was created with. *)
LEMMA ConfigSteps ==
    ASSUME BackupInv, [Next]_vars, NEW s \in Schedules
    PROVE  /\ sched[s].is # "absent" => sched'[s].is # "absent" /\ sched'[s].cfg = sched[s].cfg
           /\ sched[s].is = "absent" /\ sched'[s].is # "absent" => sched'[s].cfg \in Configs[s]
<1>1. sched \in [Schedules -> ScheduleRecord]
  BY DEF BackupInv, TypeOK, ScheduleRecord
<1>2. CASE Advance
  <2>1. cur \in Schedules /\ sched[cur].is # "absent"
    BY <1>2 DEF Advance, BackupInv, DispatchOK, HasRun, InTry
  <2>2. CASE sched[cur].is = "deleted"
    BY <1>2, <2>2 DEF Advance
  <2>3. CASE sched[cur].is # "deleted"
    <3> DEFINE x == [sched[cur] EXCEPT !.next = IF Cfg.cron = "none" THEN 0 ELSE base + 1,
                                       !.active = Cfg.cron = "ok" /\ @]
    <3>1. x.is = sched[cur].is /\ x.cfg = sched[cur].cfg
      BY <1>1, <2>1 DEF ScheduleRecord
    <3>2. sched' = [sched EXCEPT ![cur] = x]
      BY <1>2, <2>3 DEF Advance
    <3> HIDE DEF x
    <3> QED BY <1>1, <2>1, <3>1, <3>2
  <2> QED BY <2>2, <2>3
<1>3. ASSUME NEW t \in Schedules, NEW c \in Configs[t], CreateSchedule(t, c)
      PROVE  /\ sched[s].is # "absent" => sched'[s] = sched[s]
             /\ sched[s].is = "absent" /\ sched'[s].is # "absent" => sched'[s].cfg \in Configs[s]
  BY <1>1, <1>3 DEF CreateSchedule
<1>4. ASSUME NEW t \in Schedules, DeleteSchedule(t)
      PROVE  /\ sched[s].is # "absent" => sched'[s].is # "absent" /\ sched'[s].cfg = sched[s].cfg
             /\ sched[s].is = "absent" => sched'[s] = sched[s]
  <2>1. sched[t] \in ScheduleRecord
    BY <1>1
  <2>2. sched' = [sched EXCEPT ![t] = [sched[t] EXCEPT !.is = "deleted"]]
    BY <1>4 DEF DeleteSchedule
  <2> QED BY <1>1, <1>4, <2>1, <2>2, RecordDeleted DEF DeleteSchedule
<1>5. CASE ~Advance /\ ~Request
  <2>1. UNCHANGED sched
    BY <1>5 DEF Next, DriverStep, DriverWorks, vars, Start, Clock, Tick, TickDone, Sleep, Dispatch, MarkPending,
       MarkRunning, RunExport, Put, MarkSuccess, PruneScan, SinkDelete, EraseRow, MarkFailed,
       SinkDeleteFails, StepFails, TickAborts, Halt
  <2> QED BY <2>1
<1> QED BY <1>2, <1>3, <1>4, <1>5 DEF Request

(* A locator stays shared. *)
LEMMA SharedStays ==
    ASSUME BackupInv, [Next]_vars, NEW r \in RunIds, Shared(r)
    PROVE  r \in RunIds' => Shared(r)'
<1>1. PICK q \in RunIds : SameFile(q, r)
  BY DEF Shared
<1>2. /\ q \in RunIds' /\ runs'[q].sched = runs[q].sched /\ runs'[q].started = runs[q].started
      /\ runs'[r].sched = runs[r].sched /\ runs'[r].started = runs[r].started
  <2>1. CASE MarkPending
    <3>1. /\ runs \in Seq(RunRecord) /\ NewRun(cur, "pending", NoLoc, NoBlob) \in RunRecord
      BY <2>1 DEF NewRun, RunRecord, RunStatus, BackupInv, TypeOK, DispatchOK, MarkPending
    <3>2. RunIds' = RunIds \cup {Len(runs) + 1} /\ \A p \in RunIds : runs'[p] = runs[p]
      BY <2>1, <3>1, RowAdded DEF RunIds, MarkPending
    <3> QED BY <3>2
  <2>2. CASE ~MarkPending
    BY <2>2, RowSteps
  <2> QED BY <2>1, <2>2
<1>3. \A p \in RunIds : sched'[runs[p].sched].cfg = sched[runs[p].sched].cfg
  BY ConfigSteps, RowsHaveSchedules DEF BackupInv, DispatchOK
<1> QED BY <1>1, <1>2, <1>3 DEF Shared, SameFile

(* A put writes to a locator that no success has that shares none. *)
LEMMA FreshLocator ==
    ASSUME BackupInv, TimesOK, PlacesOK, at = "put",
           NEW r \in RunIds, runs[r].status = "success", ~Shared(r)
    PROVE  runs[r].loc # Locator(Cfg.dir, base)
<1> SUFFICES ASSUME runs[r].loc = Locator(Cfg.dir, base) PROVE FALSE
  OBVIOUS
<1>1. /\ run \in RunIds /\ runs[run].sched = cur /\ runs[run].started = base /\ r # run
  BY DEF BackupInv, DispatchOK, RowOK, TimesOK, HasRun, InTry
<1>2. sched[cur].cfg.dir = sched[runs[r].sched].cfg.dir /\ base = runs[r].started
  BY DEF PlacesOK, InPlace, Locator, Cfg
<1>3. runs[r].sched = cur
  BY <1>1, <1>2 DEF Shared, SameFile
<1>4. runs[r].started <= runs[r].created /\ runs[r].created <= lastTick /\ lastTick < base
  <2>1. Before(r)
    BY <1>1, <1>3 DEF Before, HasRun, InTry
  <2> QED BY <2>1 DEF TimesOK, HasRun, InTry
<1>5. runs[r].started \in Int /\ runs[r].created \in Int /\ lastTick \in Int /\ base \in Int
  <2>1. runs[r] \in RunRecord /\ lastTick \in Int /\ base \in Int
    BY RowsHaveSchedules DEF BackupInv, TypeOK
  <2> QED BY <2>1 DEF RunRecord
<1> QED BY <1>2, <1>4, <1>5

(* Two successes with one locator share it. *)
LEMMA OneLocator ==
    ASSUME BackupInv, TimesOK, PlacesOK, NEW r \in RunIds, NEW q \in RunIds, r # q,
           runs[r].status = "success", runs[q].status = "success", runs[r].loc = runs[q].loc
    PROVE  Shared(r)
<1>1. /\ sched[runs[q].sched].cfg.dir = sched[runs[r].sched].cfg.dir
      /\ runs[q].started = runs[r].started
  BY DEF PlacesOK, InPlace, Locator
<1>2. /\ r \in Nat /\ q \in Nat /\ runs[r].started \in Nat
      /\ \A p \in {r, q} : runs[p].created \in Nat /\ runs[p].started <= runs[p].created
  <2>1. runs \in Seq(RunRecord)
    BY DEF BackupInv, TypeOK, RunRecord
  <2>2. r \in Nat /\ q \in Nat /\ runs[r] \in RunRecord /\ runs[q] \in RunRecord
    BY <2>1, RunsShape
  <2>3. /\ runs[r].started \in 1..MaxTime /\ runs[r].created \in 1..MaxTime
        /\ runs[q].created \in 1..MaxTime /\ MaxTime \in Nat
    BY <2>2, BackupAssumption DEF RunRecord
  <2> HIDE DEF RunRecord
  <2>4. \A p \in {r, q} : runs[p].started <= runs[p].created
    BY DEF TimesOK
  <2> QED BY <2>2, <2>3, <2>4
<1>3. runs[r].sched # runs[q].sched
  <2>1. CASE r < q
    BY <1>1, <1>2, <2>1 DEF TimesOK
  <2>2. CASE q < r
    BY <1>1, <1>2, <2>2 DEF TimesOK
  <2> QED BY <1>2, <2>1, <2>2
<1> QED BY <1>1, <1>3 DEF Shared, SameFile

(* A snapshot that shares no locator is taken away only for the victim     *)
(* whose turn it is.                                                       *)
LEMMA StoredStays ==
    ASSUME BackupInv, BackupInv', TimesOK, PlacesOK, [Next]_vars, Calm',
           NEW r \in RunIds, ~Shared(r), runs[r].status = "success", runs'[r] = runs[r]
    PROVE  Stored(r)' \/ Going(r)'
<1>0. /\ runs[r].blob = r /\ runs[r].loc \in Locators /\ (Stored(r) \/ Going(r))
      /\ files \in [Locators -> Blobs \cup {NoBlob}]
  BY DEF PlacesOK, InPlace, BackupInv, TypeOK
<1>1. Stored(r)' = (files'[runs[r].loc] = runs[r].blob)
  BY DEF Stored
<1>2. CASE Put \/ (StepFails /\ files' = Written /\ at = "put")
  <2>1. at = "put" /\ files' = Written /\ ~Going(r)
    BY <1>2 DEF Put, Going
  <2>2. runs[r].loc # Locator(Cfg.dir, base)
    BY <2>1, FreshLocator
  <2> QED BY <1>0, <1>1, <2>1, <2>2 DEF Written, Stored
<1>3. CASE SinkDelete
  <2>1. /\ at = "delete" /\ at' = "erase" /\ victims' = victims /\ files' = Unlinked /\ ~Going(r)
    BY <1>3 DEF SinkDelete, Continue, Going
  <2>2. Victim \in victims /\ Victim \in RunIds /\ \A q \in victims : q <= Victim
    BY <2>1, VictimFacts DEF BackupInv, VictimsOK
  <2>3. CASE r = Victim
    BY <2>1, <2>2, <2>3 DEF Going
  <2>4. CASE r # Victim
    <3>1. runs[Victim].status = "success"
      BY <2>2 DEF BackupInv, VictimsOK
    <3>3. runs[r].loc # runs[Victim].loc
      BY <2>2, <2>4, <3>1, OneLocator
    <3> QED BY <1>0, <1>1, <2>1, <3>3 DEF Unlinked, Stored
  <2> QED BY <2>3, <2>4
<1>4. CASE EraseRow
  <2>1. /\ Victim \in victims /\ Victim \in RunIds /\ \A q \in victims : q <= Victim
        /\ runs[Victim] \in RunRecord /\ victims \subseteq Nat /\ r \in Nat
    <3>1. victims # {} /\ runs \in Seq(RunRecord) /\ victims \subseteq RunIds
      BY <1>4 DEF EraseRow, BackupInv, VictimsOK, TypeOK, RunRecord
    <3> QED BY <3>1, VictimFacts, RunsShape DEF BackupInv
  <2>2. runs'[Victim].status = "pruned"
    BY <1>4, <2>1 DEF EraseRow, RunRecord, RunIds
  <2>3. r # Victim
    BY <2>2
  <2>4. ~Going(r)
    BY <2>1, <2>3 DEF Going
  <2> QED BY <1>0, <1>1, <1>4, <2>4 DEF EraseRow, Stored
<1>5. CASE /\ ~Put /\ ~SinkDelete /\ ~EraseRow
           /\ ~(StepFails /\ files' = Written /\ at = "put")
  <2>1. ~TickAborts /\ ~Halt /\ (StepFails => at \in {"export", "put", "advance"})
    BY CalmSteps
  <2>2. UNCHANGED files /\ (at = "erase" => UNCHANGED <<at, victims>>)
    BY <1>5, <2>1 DEF Next, DriverStep, DriverWorks, vars, driver, Start, Request, CreateSchedule, DeleteSchedule,
       Clock, Tick, TickDone, Sleep, Dispatch, MarkPending, MarkRunning, RunExport, MarkSuccess,
       Advance, PruneScan, MarkFailed, SinkDeleteFails, StepFails
  <2> QED BY <1>0, <1>1, <2>2 DEF Stored, Going
<1> QED BY <1>2, <1>3, <1>4, <1>5

(* Successes are in place. *)
LEMMA PlacesNext ==
    ASSUME BackupInv, BackupInv', TimesOK, PlacesOK, [Next]_vars, Calm'
    PROVE  PlacesOK'
<1>2. ASSUME NEW r \in RunIds, r \in RunIds', runs[r].status = "success", runs'[r] = runs[r]
      PROVE  InPlace(r)'
  <2>1. Stored(r)' \/ Going(r)' \/ Shared(r)'
    BY <1>2, StoredStays, SharedStays
  <2>2. InPlace(r)
    BY <1>2 DEF PlacesOK
  <2>3. sched'[runs[r].sched].cfg = sched[runs[r].sched].cfg
    BY ConfigSteps, RowsHaveSchedules DEF BackupInv, DispatchOK
  <2> QED BY <1>2, <2>1, <2>2, <2>3 DEF InPlace
<1>3. ASSUME NEW r \in RunIds', runs'[r].status = "success" PROVE InPlace(r)'
  <2>1. CASE MarkPending
    <3>1. /\ runs \in Seq(RunRecord) /\ NewRun(cur, "pending", NoLoc, NoBlob) \in RunRecord
      BY <2>1 DEF NewRun, RunRecord, RunStatus, BackupInv, TypeOK, DispatchOK, MarkPending
    <3>2. /\ RunIds' = RunIds \cup {Len(runs) + 1}
          /\ runs'[Len(runs) + 1] = NewRun(cur, "pending", NoLoc, NoBlob)
          /\ \A q \in RunIds : runs'[q] = runs[q]
      BY <2>1, <3>1, RowAdded DEF RunIds, MarkPending
    <3>3. r \in RunIds /\ runs'[r] = runs[r]
      BY <1>3, <3>2 DEF NewRun
    <3> QED BY <1>2, <1>3, <3>3
  <2>2. CASE MarkSuccess /\ r = run
    <3>1. /\ runs'[run].sched = cur /\ runs'[run].created = runs[run].created
          /\ runs'[run].blob = run /\ runs'[run].loc = Locator(Cfg.dir, base)
          /\ runs'[run].started = base
          /\ at \in HasRun /\ cur \in Schedules /\ sched[cur].cfg \in ConfigSet /\ base \in 1..MaxTime
      BY <2>2, SuccessRow DEF BackupInv, DispatchOK, TimesOK, MarkSuccess, HasRun, InTry
    <3>2. files[Locator(Cfg.dir, base)] = run /\ UNCHANGED <<files, sched>>
      BY <2>2 DEF BackupInv, RowOK, MarkSuccess
    <3>4. Locator(Cfg.dir, base) \in Locators
      BY <3>1 DEF Locator, Locators, Cfg, ConfigSet
    <3> QED BY <2>2, <3>1, <3>2, <3>4 DEF InPlace, Stored, Cfg
  <2>3. CASE ~MarkPending /\ ~(MarkSuccess /\ r = run)
    BY <1>2, <1>3, <2>3, RowSteps
  <2> QED BY <2>1, <2>2, <2>3
<1> QED BY <1>3 DEF PlacesOK

(* Of the members above v, n are among the last n. *)
LEMMA EnoughAbove ==
    ASSUME NEW m \in Nat, NEW S \in SUBSET (1..m), NEW n \in Nat, NEW v \in S,
           n <= Cardinality({q \in S : q > v})
    PROVE  n <= Cardinality({q \in S : q > v /\ Cardinality({p \in S : p > q}) < n})
<1> DEFINE Above(q) == {p \in S : p > q}
           K == {q \in S : q > v /\ Cardinality(Above(q)) < n}
<1>0. \A T \in SUBSET S : IsFiniteSet(T) /\ Cardinality(T) \in Nat
  <2>1. IsFiniteSet(1..m)
    BY FS_Interval
  <2> QED BY <2>1, FS_Subset, FS_CardinalityType
<1>1. CASE Above(v) \subseteq K
  <2>1. Above(v) = K
    BY <1>1
  <2> QED BY <2>1
<1>2. CASE ~(Above(v) \subseteq K)
  <2> DEFINE T == Above(v) \ K
  <2>1. T # {} /\ T \in SUBSET (1..m)
    BY <1>2
  <2>2. PICK x \in T : \A y \in T : y <= x
    BY <2>1, Greatest
  <2>3. x \in S /\ x > v /\ ~(Cardinality(Above(x)) < n)
    BY <2>2
  <2>4. Above(x) \subseteq K
    <3> SUFFICES ASSUME NEW y \in Above(x), y \notin K PROVE FALSE
      OBVIOUS
    <3>1. y \in S /\ y > x /\ y \in Nat /\ x \in Nat /\ v \in Nat
      BY <2>3
    <3>2. y \in T
      BY <2>3, <3>1
    <3> QED BY <2>2, <3>1, <3>2
  <2>5. IsFiniteSet(K) /\ Cardinality(K) \in Nat /\ Cardinality(Above(x)) \in Nat
    BY <1>0
  <2>6. Cardinality(Above(x)) <= Cardinality(K)
    BY <2>4, <2>5, FS_Subset
  <2>7. n <= Cardinality(Above(x))
    BY <2>3, <2>5
  <2> HIDE DEF K, Above
  <2>8. n <= Cardinality(K)
    BY <2>5, <2>6, <2>7
  <2> QED BY <2>8 DEF K, Above
<1> QED BY <1>1, <1>2

(* _prune chooses what neither rule keeps, and leaves keep_last newer ones. *)
LEMMA ScanForfeits ==
    ASSUME BackupInv, PruneScan, NEW v \in victims' PROVE Forfeit(v)'
<1> DEFINE n == sched[cur].cfg.keepLast
           S == SuccessesOf(cur)
           K == {q \in S : q > v /\ Cardinality({p \in S : p > q}) < n}
           L == {q \in S \ victims' : q > v}
<1>0. /\ runs \in Seq(RunRecord) /\ cur \in Schedules /\ sched[cur].cfg \in ConfigSet /\ now \in Nat
      /\ at = "scan" /\ victims' = {r \in S : ~Keep(cur, r)}
  BY BackupAssumption DEF PruneScan, BackupInv, TypeOK, DispatchOK, HasRun, InTry, RunRecord
<1>1. /\ UNCHANGED <<runs, sched, now>> /\ cur' = cur
  BY DEF PruneScan, Continue
<1>2. /\ n \in Nat /\ sched[cur].cfg.retain \in Nat /\ Len(runs) \in Nat /\ S \in SUBSET (1..Len(runs))
      /\ \A V \in SUBSET S : IsFiniteSet(V) /\ Cardinality(V) \in Nat
      /\ v \in S /\ ~Keep(cur, v) /\ runs[v].created \in Nat
  <2>1. S \in SUBSET RunIds /\ v \in S
    BY <1>0 DEF SuccessesOf
  <2>2. runs[v] \in RunRecord
    BY <1>0, <2>1, RunsShape
  <2> QED BY <1>0, <2>1, <2>2, RunsShape DEF ConfigSet, RunRecord
<1>3. sched[cur].cfg.retain > 0 => runs[v].created + sched[cur].cfg.retain < now
  BY <1>0, <1>2 DEF Keep, Young
<1>4. n <= Cardinality(L)
  <2>1. Cardinality(L) \in Nat /\ IsFiniteSet(L) /\ Cardinality(K) \in Nat
    BY <1>2
  <2>2. CASE n = 0
    BY <2>1, <2>2
  <2>3. CASE n # 0
    <3>1. n <= Cardinality({q \in S : q > v})
      <4>1. ~(Cardinality({q \in S : q > v}) < n)
        BY <1>2, <2>3 DEF Keep, AmongLast
      <4> QED BY <1>2, <4>1
    <3>2. n <= Cardinality(K)
      <4> HIDE DEF S, n
      <4>1. Len(runs) \in Nat /\ S \in SUBSET (1..Len(runs)) /\ n \in Nat /\ v \in S
        BY <1>2
      <4> QED BY ONLY <3>1, <4>1, EnoughAbove
    <3>3. K \subseteq L
      BY <1>0, <1>2, <2>3 DEF Keep, AmongLast
    <3>4. Cardinality(K) <= Cardinality(L)
      BY <2>1, <3>3, FS_Subset
    <3> HIDE DEF K, L, n
    <3> QED BY <1>2, <2>1, <3>2, <3>4
  <2> QED BY <2>2, <2>3
<1>5. SuccessesOf(cur)' = S
  BY <1>1 DEF SuccessesOf, RunIds
<1> QED BY <1>1, <1>3, <1>4, <1>5 DEF Forfeit, Cfg

(* Victims stay forfeit until they are gone. *)
LEMMA RulesNext ==
    ASSUME BackupInv, BackupInv', RulesOK, [Next]_vars, Calm'
    PROVE  RulesOK'
<1>1. ~TickAborts /\ ~Halt
  BY CalmSteps
<1>2. CASE PruneScan
  <2>1. \A v \in victims' : Forfeit(v)'
    BY <1>2, ScanForfeits
  <2>2. at' = "delete" => UNCHANGED <<sched, cur>>
    BY <1>2 DEF PruneScan, Continue
  <2>3. at = "scan" /\ at' \in {"delete", "dispatch"}
    BY <1>2 DEF PruneScan, Continue
  <2> QED BY <2>1, <2>2, <2>3 DEF RulesOK, Cfg
<1>3. CASE Advance
  <2>1. victims' = {}
    BY <1>3 DEF Advance, BackupInv, VictimsOK
  <2>2. at' \in {"scan", "dispatch"} /\ (at' = "scan" => cur' = cur /\ (Cfg.retain > 0 \/ Cfg.keepLast > 0))
    BY <1>3 DEF Advance, Continue
  <2>3. cur \in Schedules /\ sched[cur].is # "absent"
    BY <1>3 DEF Advance, BackupInv, DispatchOK, HasRun, InTry
  <2>4. sched'[cur].cfg = sched[cur].cfg
    BY <2>3, ConfigSteps
  <2> QED BY <2>1, <2>2, <2>4 DEF RulesOK, Cfg
<1>4. CASE at' \in {"scan", "delete", "erase"} /\ ~PruneScan /\ ~Advance
  <2>0. /\ at \in {"scan", "delete", "erase"} /\ cur' = cur /\ ~MarkPending /\ ~MarkSuccess
        /\ now' = now \/ now' = now + 1
    BY <1>1, <1>4 DEF Next, DriverStep, DriverWorks, vars, driver, Start, Request, CreateSchedule,
       DeleteSchedule, Clock, Tick, TickDone, Sleep, Dispatch, MarkPending, MarkRunning, RunExport, Put,
       MarkSuccess, SinkDelete, EraseRow, MarkFailed, SinkDeleteFails, StepFails, Continue
  <2>1. cur \in Schedules /\ sched[cur].is # "absent" /\ sched[cur].cfg \in ConfigSet
    BY <2>0 DEF BackupInv, DispatchOK, HasRun, InTry
  <2>2. Cfg' = Cfg
    BY <2>0, <2>1, ConfigSteps DEF Cfg
  <2>3. /\ victims' \subseteq victims
        /\ SuccessesOf(cur)' \ victims' = SuccessesOf(cur) \ victims
    <3>1. CASE EraseRow
      <4>1. /\ Victim \in victims /\ Victim \in RunIds /\ runs \in Seq(RunRecord)
            /\ victims' = victims \ {Victim}
        BY <1>4, <3>1, VictimFacts DEF EraseRow, BackupInv, VictimsOK, TypeOK, RunRecord
      <4>2. runs[Victim] \in RunRecord
        BY <4>1, RunsShape
      <4>3. /\ RunIds' = RunIds /\ runs'[Victim].status = "pruned"
            /\ \A q \in RunIds \ {Victim} : runs'[q] = runs[q]
        BY <3>1, <4>1, <4>2 DEF EraseRow, RunIds, RunRecord
      <4> QED BY <2>0, <4>1, <4>3 DEF SuccessesOf
    <3>2. CASE ~EraseRow
      <4>1. UNCHANGED <<runs, victims>>
        BY <1>1, <1>4, <2>0, <3>2 DEF Next, DriverStep, DriverWorks, vars, driver, Start, Request,
           CreateSchedule, DeleteSchedule, Clock, Tick, TickDone, Sleep, Dispatch, MarkRunning, RunExport,
           Put, SinkDelete, MarkFailed, SinkDeleteFails, StepFails, Continue
      <4> QED BY <2>0, <4>1 DEF SuccessesOf, RunIds
    <3> QED BY <3>1, <3>2
  <2>4. \A v \in victims : runs'[v].created = runs[v].created /\ runs[v].created \in Nat
    <3>1. \A v \in victims : v \in RunIds /\ runs[v] \in RunRecord
      BY RowsHaveSchedules DEF BackupInv, TypeOK
    <3> QED BY <2>0, <3>1, RowSteps DEF RunRecord
  <2>5. \A v \in victims' : Forfeit(v)'
    <3> TAKE v \in victims'
    <3>1. Forfeit(v)
      BY <2>3 DEF RulesOK
    <3>2. {q \in SuccessesOf(cur)' \ victims' : q > v} = {q \in SuccessesOf(cur) \ victims : q > v}
      BY <2>3
    <3>3. Cfg.retain > 0 => runs'[v].created + Cfg.retain < now'
      <4>1. now \in Nat /\ Cfg.retain \in Nat
        BY <2>1, BackupAssumption DEF BackupInv, TypeOK, Cfg, ConfigSet
      <4> QED BY <2>0, <2>3, <2>4, <3>1, <4>1 DEF Forfeit
    <3> QED BY <2>0, <2>2, <3>1, <3>2, <3>3 DEF Forfeit, SuccessesOf
  <2> QED BY <2>0, <2>2, <2>5 DEF RulesOK
<1>5. CASE at' \notin {"scan", "delete", "erase"}
  BY <1>5 DEF RulesOK, BackupInv, VictimsOK
<1> QED BY <1>2, <1>3, <1>4, <1>5

(* _prune, with any faults of exports and sinks: what keep_last or         *)
(* retention_days promises to keep is in the sink, with the content that   *)
(* was exported, unless another schedule's run shares its locator.         *)
THEOREM KeptStay == Spec => []KeptSnapshotsAreStored
<1>1. Init => KeepInv
  <2> SUFFICES ASSUME Init PROVE KeepInv
    OBVIOUS
  <2>1. RunIds = {} /\ victims = {} /\ at = "stopped" /\ lastTick = 0 /\ now = 1
    BY DEF Init, RunIds
  <2>2. \A s \in Schedules : sched[s].is = "absent"
    BY DEF Init, Absent
  <2>3. TimesOK
    BY <2>1 DEF TimesOK, HasRun, InTry
  <2>4. PlacesOK /\ RulesOK
    BY <2>1, <2>2 DEF PlacesOK, RulesOK
  <2> QED BY <2>3, <2>4 DEF KeepInv
<1>2. BackupInv /\ BackupInv' /\ KeepInv /\ [Next]_vars => KeepInv'
  <2> SUFFICES ASSUME BackupInv, BackupInv', KeepInv, [Next]_vars, Calm' PROVE KeepInv'
    BY DEF KeepInv
  <2>1. TimesOK /\ PlacesOK /\ RulesOK
    BY CalmSteps DEF KeepInv
  <2> QED BY <2>1, TimesNext, PlacesNext, RulesNext DEF KeepInv
<1>3. BackupInv /\ KeepInv => KeptSnapshotsAreStored
  <2> SUFFICES ASSUME BackupInv, KeepInv, Calm, NEW s \in Schedules, NEW r \in SuccessesOf(s),
                      ~Stored(r), ~Shared(r),
                      LET c == sched[s].cfg
                          later == {q \in SuccessesOf(s) : runs[q].created > runs[r].created}
                      IN  \/ c.keepLast = 0 /\ c.retain = 0
                          \/ Cardinality(later) < c.keepLast
                          \/ c.retain > 0 /\ now - runs[r].created <= c.retain
               PROVE  FALSE
    BY DEF KeptSnapshotsAreStored, Calm, Shared
  <2> DEFINE later == {q \in SuccessesOf(s) : runs[q].created > runs[r].created}
             left == {q \in SuccessesOf(s) \ victims : q > r}
  <2>0. TimesOK /\ PlacesOK /\ RulesOK
    BY DEF KeepInv
  <2>1. r \in RunIds /\ runs[r].sched = s /\ runs[r].status = "success"
    BY DEF SuccessesOf
  <2>2. at = "erase" /\ r \in victims
    BY <2>0, <2>1 DEF PlacesOK, InPlace, Going
  <2>3. cur = s
    BY <2>1, <2>2 DEF BackupInv, VictimsOK
  <2>4. /\ Cfg.keepLast > 0 \/ Cfg.retain > 0
        /\ Cfg.retain > 0 => runs[r].created + Cfg.retain < now
        /\ Cfg.keepLast <= Cardinality(left)
    BY <2>0, <2>2, <2>3 DEF RulesOK, Forfeit
  <2>5. left \subseteq later
    <3>1. \A q \in RunIds : runs[q].created \in Nat /\ runs[q].started \in Nat
      <4>1. \A q \in RunIds : runs[q] \in RunRecord
        BY RowsHaveSchedules DEF BackupInv
      <4>2. \A q \in RunIds : runs[q].created \in 1..MaxTime /\ runs[q].started \in 1..MaxTime
        BY <4>1 DEF RunRecord
      <4> QED BY <4>2, BackupAssumption
    <3>2. \A q \in RunIds : /\ runs[q].started <= runs[q].created
                            /\ r < q /\ runs[q].sched = s => runs[r].created < runs[q].started
      BY <2>0, <2>1 DEF TimesOK
    <3>3. \A q \in left : q \in RunIds /\ runs[q].sched = s /\ q \in SuccessesOf(s) /\ r < q
      <4>1. runs \in Seq(RunRecord)
        BY DEF BackupInv, TypeOK, RunRecord
      <4>2. RunIds \subseteq Nat
        BY <4>1, RunsShape
      <4> QED BY <2>1, <4>2 DEF SuccessesOf
    <3> QED BY <2>1, <3>1, <3>2, <3>3
  <2>6. Cardinality(left) <= Cardinality(later) /\ Cardinality(left) \in Nat /\ Cardinality(later) \in Nat
    <3>1. runs \in Seq(RunRecord) /\ later \in SUBSET RunIds /\ left \in SUBSET RunIds
      BY DEF BackupInv, TypeOK, RunRecord, SuccessesOf
    <3>2. IsFiniteSet(later) /\ Cardinality(left) \in Nat /\ Cardinality(later) \in Nat
      BY <3>1, RunsShape
    <3> QED BY <2>5, <3>2, FS_Subset
  <2>7. now \in Nat /\ runs[r].created \in Nat /\ Cfg.keepLast \in Nat /\ Cfg.retain \in Nat
    <3>1. runs[r] \in RunRecord /\ now \in Nat /\ sched[cur].cfg \in ConfigSet
      BY <2>1, <2>2, RowsHaveSchedules, BackupAssumption DEF BackupInv, TypeOK, DispatchOK, HasRun, InTry
    <3> QED BY <3>1 DEF RunRecord, Cfg, ConfigSet
  <2>8. \/ Cfg.keepLast = 0 /\ Cfg.retain = 0
        \/ Cardinality(later) < Cfg.keepLast
        \/ Cfg.retain > 0 /\ now - runs[r].created <= Cfg.retain
    BY <2>3 DEF Cfg
  <2> HIDE DEF later, left
  <2> QED BY <2>4, <2>6, <2>7, <2>8
<1> QED BY <1>1, <1>2, <1>3, BackupInvariant, PTL DEF Spec
=============================================================================
